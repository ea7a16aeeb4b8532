------------------------------- MODULE Session -------------------------------
(***************************************************************************)
(* Who a browser takes its user for: AuthProvider (hooks/useAuth.jsx), the *)
(* Router of App.jsx with the pages that log in and sign up, and the       *)
(* accounts behind them (auth_controller.go, user_repo.go).                *)
(*                                                                         *)
(* Several tabs share one localStorage.  Attempts to log in or sign up are *)
(* numbered, and the token that attempt k yields is called k; 0 is no      *)
(* token.  me() is asked with the token localStorage holds at that moment, *)
(* and may be answered after the tab has changed its mind.                 *)
(***************************************************************************)
EXTENDS Integers, FiniteSets

CONSTANTS
    Tabs,         \* browser tabs of one user agent
    Emails,       \* addresses, in lower case and trimmed
    Registered,   \* addresses that have an account at the start
    Nobody,       \* the user of a tab that shows none
    MaxAttempts,  \* bound: submissions of the login and signup forms
    UniqueIndex   \* whether MongoDB has the unique index on users.email

ASSUME SessionAssumption ==
    /\ Nobody \notin Emails \cup Tabs
    /\ Registered \subseteq Emails
    /\ MaxAttempts \in Nat
    /\ UniqueIndex \in BOOLEAN

Attempts == 1 .. MaxAttempts
Tokens == 0 .. MaxAttempts

VARIABLES
    docs,      \* users collection: documents per address
    attempt,   \* the attempts, as the browser and the server know them
    stored,    \* localStorage: pollpulse_token
    token,     \* state of AuthProvider: token, user, loading
    user,
    loading,
    asking,    \* tokens carried by calls of me() that are under way
    path,      \* state of Router: currentPath
    busy,      \* attempt the form on the screen waits for, 0 if none
    hurried,   \* history: the token changed while me() was under way
    writer     \* history: the tab that wrote localStorage last

provider == <<token, user, loading, asking>>
screen   == <<path, busy>>
vars     == <<docs, attempt, stored, token, user, loading, asking, path, busy, hurried, writer>>

NoAttempt == [state |-> "unused", kind |-> "login", email |-> Nobody, tab |-> Nobody, heard |-> FALSE]
Owner(n) == attempt[n].email
InState(k, states) == attempt[k].state \in states

\* Attempt k once nobody waits for its response: the server may still insert
\* an account for it, and nothing else of it matters.
Unheard(k) ==
    [attempt[k] EXCEPT !.heard = FALSE, !.tab = Nobody,
        !.state = IF attempt[k].kind = "signup" /\ InState(k, {"sent", "checked"})
                  THEN @ ELSE "refused"]

-----------------------------------------------------------------------------
(* Router and pages. *)

\* "dashboard" stands for /create-poll too, the other page behind the login,
\* and "home" for every page that is open to anyone.
Paths == {"home", "login", "signup", "dashboard"}
Protected == {"dashboard"}

\* What renderRoute puts on the screen.
PageOf(p, waits, u) ==
    IF waits THEN "initializing"
    ELSE IF p \in Protected /\ u = Nobody THEN "login" ELSE p

Page(t) == PageOf(path[t], loading[t], user[t])

\* The path, user and loading of tab t become these.  React keeps the state
\* of a form only while the same page stays on the screen.
Show(t, p, waits, u) ==
    /\ path' = [path EXCEPT ![t] = p]
    /\ loading' = [loading EXCEPT ![t] = waits]
    /\ user' = [user EXCEPT ![t] = u]
    /\ busy' = [busy EXCEPT ![t] = IF PageOf(p, waits, u) = Page(t) THEN @ ELSE 0]

\* Where the links and buttons of each page lead.
Navbar(t) == IF user[t] # Nobody THEN {"home", "dashboard"}
                                 ELSE {"home", "login", "signup"}

HomePage(t) == {"home"} \cup IF user[t] # Nobody THEN {"dashboard"} ELSE {"signup", "login"}

LoginPage(t)  == [links |-> {"signup"}, submit |-> busy[t] = 0]
SignupPage(t) == [links |-> {"login"},  submit |-> busy[t] = 0]

Links(t) ==
    Navbar(t) \cup
    CASE Page(t) = "home"   -> HomePage(t)
      [] Page(t) = "login"  -> LoginPage(t).links
      [] Page(t) = "signup" -> SignupPage(t).links
      [] OTHER              -> {}

Navigate(t) ==
    \E p \in Links(t) :
        /\ Show(t, p, loading[t], user[t])
        /\ UNCHANGED <<docs, attempt, stored, token, asking, hurried, writer>>

\* popstate: back and forward also lead to where the page has no link to.
Back(t) ==
    \E p \in Paths \ (Links(t) \cup {path[t]}) :
        /\ Show(t, p, loading[t], user[t])
        /\ UNCHANGED <<docs, attempt, stored, token, asking, hurried, writer>>

-----------------------------------------------------------------------------
(* AuthProvider. *)

\* api.js: request() reads the token from localStorage, not from the state.
AskMe(t, earlier, inStorage) == asking' = [asking EXCEPT ![t] = earlier \cup {inStorage}]

\* A provider that never ends loading without a token.
Open_StaysLoading(t) ==
    /\ token' = [token EXCEPT ![t] = stored]
    /\ asking' = [asking EXCEPT ![t] = IF stored = 0 THEN {} ELSE {stored}]
    /\ loading' = [loading EXCEPT ![t] = TRUE]
    /\ user' = [user EXCEPT ![t] = Nobody]
    /\ busy' = [busy EXCEPT ![t] = 0]
    /\ attempt' = [k \in Attempts |->
           IF attempt[k].tab = t THEN Unheard(k) ELSE attempt[k]]
    /\ hurried' = [hurried EXCEPT ![t] = FALSE]
    /\ UNCHANGED <<docs, stored, path, writer>>

\* A document is loaded, in a new tab or by a reload; Back stands for the
\* address typed in.  What the document before it had asked for is answered to
\* nobody.
Open(t) ==
    /\ token' = [token EXCEPT ![t] = stored]
    /\ IF stored = 0 THEN asking' = [asking EXCEPT ![t] = {}] ELSE AskMe(t, {}, stored)
    /\ loading' = [loading EXCEPT ![t] = stored # 0]
    /\ user' = [user EXCEPT ![t] = Nobody]
    /\ busy' = [busy EXCEPT ![t] = 0]
    /\ attempt' = [k \in Attempts |->
           IF attempt[k].tab = t THEN Unheard(k) ELSE attempt[k]]
    /\ hurried' = [hurried EXCEPT ![t] = FALSE]
    /\ UNCHANGED <<docs, stored, path, writer>>

\* The effect takes the answer for the user of whatever token the tab has now.
MeAnswered(t, n) ==
    /\ n \in asking[t]
    /\ docs[Owner(n)] > 0
    /\ asking' = [asking EXCEPT ![t] = @ \ {n}]
    /\ Show(t, path[t], FALSE, Owner(n))
    /\ UNCHANGED <<docs, attempt, stored, token, hurried, writer>>

\* An expired token, an error of the server or a lost connection.
MeFails(t, n) ==
    /\ n \in asking[t]
    /\ asking' = [asking EXCEPT ![t] = @ \ {n}]
    /\ stored' = 0
    /\ writer' = t
    /\ token' = [token EXCEPT ![t] = 0]
    /\ Show(t, path[t], FALSE, Nobody)
    /\ hurried' = [hurried EXCEPT ![t] = @ \/ asking[t] # {n}]
    /\ UNCHANGED <<docs, attempt>>

\* A login that keeps its token in memory only.
TakeToken_InMemory(k) ==
    LET t == attempt[k].tab IN
    /\ InState(k, {"granted"})
    /\ attempt[k].heard
    /\ attempt' = [attempt EXCEPT ![k].heard = FALSE, ![k].tab = Nobody]
    /\ writer' = t
    /\ token' = [token EXCEPT ![t] = k]
    /\ user' = [user EXCEPT ![t] = Owner(k)]
    /\ path' = [path EXCEPT ![t] = "dashboard"]
    /\ busy' = [busy EXCEPT ![t] = 0]
    /\ hurried' = [hurried EXCEPT ![t] = @ \/ asking[t] # {}]
    /\ UNCHANGED <<docs, stored, asking, loading>>

\* login() or signup() returns: the form's page goes to the dashboard, from
\* wherever the tab is by now, and the effect of the new token asks me().
TakeToken(k) ==
    LET t == attempt[k].tab IN
    /\ InState(k, {"granted"})
    /\ attempt[k].heard
    /\ attempt' = [attempt EXCEPT ![k].heard = FALSE, ![k].tab = Nobody]
    /\ stored' = k
    /\ writer' = t
    /\ token' = [token EXCEPT ![t] = k]
    /\ AskMe(t, asking[t], k)
    /\ user' = [user EXCEPT ![t] = Owner(k)]
    /\ path' = [path EXCEPT ![t] = "dashboard"]
    /\ busy' = [busy EXCEPT ![t] = 0]
    /\ hurried' = [hurried EXCEPT ![t] = @ \/ asking[t] # {}]
    /\ UNCHANGED <<docs, loading>>

\* A logout that leaves the user on the screen.
Logout_KeepsUser(t) ==
    /\ user[t] # Nobody
    /\ stored' = 0
    /\ writer' = t
    /\ token' = [token EXCEPT ![t] = 0]
    /\ Show(t, "login", loading[t], user[t])
    /\ hurried' = [hurried EXCEPT ![t] = @ \/ asking[t] # {}]
    /\ UNCHANGED <<docs, attempt, asking>>

\* The logout button of Navbar, which only a shown user has.
Logout(t) ==
    /\ user[t] # Nobody
    /\ stored' = 0
    /\ writer' = t
    /\ token' = [token EXCEPT ![t] = 0]
    /\ Show(t, "login", loading[t], Nobody)
    /\ hurried' = [hurried EXCEPT ![t] = @ \/ asking[t] # {}]
    /\ UNCHANGED <<docs, attempt, asking>>

-----------------------------------------------------------------------------
(* The forms and the server that answers them. *)

Send(t, e, kind) ==
    \E k \in Attempts :
        /\ InState(k, {"unused"})
        /\ \A j \in 1 .. k - 1 : ~InState(j, {"unused"})
        /\ attempt' = [attempt EXCEPT ![k] =
               [state |-> "sent", kind |-> kind, email |-> e, tab |-> t, heard |-> TRUE]]
        /\ busy' = [busy EXCEPT ![t] = k]
        /\ UNCHANGED <<docs, stored, provider, path, hurried, writer>>

SubmitLogin(t, e) ==
    /\ Page(t) = "login"
    /\ LoginPage(t).submit
    /\ Send(t, e, "login")

SubmitSignup(t, e) ==
    /\ Page(t) = "signup"
    /\ SignupPage(t).submit
    /\ Send(t, e, "signup")

Reaches(k, state) == attempt' = [attempt EXCEPT ![k].state = state]
ServerOnly == UNCHANGED <<stored, provider, screen, hurried, writer>>

Login(k) ==
    /\ InState(k, {"sent"})
    /\ attempt[k].kind = "login"
    /\ docs[Owner(k)] > 0
    /\ Reaches(k, "granted")
    /\ ServerOnly
    /\ UNCHANGED docs

SignupLookup(k) ==
    /\ InState(k, {"sent"})
    /\ attempt[k].kind = "signup"
    /\ docs[Owner(k)] = 0
    /\ Reaches(k, "checked")
    /\ ServerOnly
    /\ UNCHANGED docs

\* A server that ignored the error of creating the index.
IndexRefuses_Nothing(e) == FALSE

\* InsertOne, by an index that was created or not.
IndexRefuses(e) == UniqueIndex /\ docs[e] > 0

SignupInsert(k) ==
    /\ InState(k, {"checked"})
    /\ ~IndexRefuses(Owner(k))
    /\ docs' = [docs EXCEPT ![Owner(k)] = @ + 1]
    /\ \E told \in {"granted", "refused"} : Reaches(k, told)
    /\ ServerOnly

\* 400, 401, 409 or 500: bad fields, a wrong password, an address that has an
\* account, an error of MongoDB or a duplicate key.
Refuse(k) ==
    /\ InState(k, {"sent", "checked"})
    /\ Reaches(k, "refused")
    /\ ServerOnly
    /\ UNCHANGED docs

\* A form without the finally that frees it.
AttemptFails_KeepsBusy(k) ==
    /\ attempt[k].heard
    /\ attempt' = [attempt EXCEPT ![k] = Unheard(k)]
    /\ UNCHANGED <<docs, stored, provider, screen, hurried, writer>>

\* The form is told of a refusal or of a network error; its finally frees it.
AttemptFails(k) ==
    LET t == attempt[k].tab IN
    /\ attempt[k].heard
    /\ attempt' = [attempt EXCEPT ![k] = Unheard(k)]
    /\ busy' = [busy EXCEPT ![t] = IF @ = k THEN 0 ELSE @]
    /\ UNCHANGED <<docs, stored, provider, path, hurried, writer>>

-----------------------------------------------------------------------------
Init ==
    /\ docs = [e \in Emails |-> IF e \in Registered THEN 1 ELSE 0]
    /\ attempt = [k \in Attempts |-> NoAttempt]
    /\ stored = 0
    /\ token = [t \in Tabs |-> 0]
    /\ user = [t \in Tabs |-> Nobody]
    /\ loading = [t \in Tabs |-> FALSE]
    /\ asking = [t \in Tabs |-> {}]
    /\ path = [t \in Tabs |-> "home"]
    /\ busy = [t \in Tabs |-> 0]
    /\ hurried = [t \in Tabs |-> FALSE]
    /\ writer = Nobody

Next ==
    \/ \E t \in Tabs : Open(t) \/ Navigate(t) \/ Back(t) \/ Logout(t)
    \/ \E t \in Tabs, n \in Attempts : MeAnswered(t, n) \/ MeFails(t, n)
    \/ \E t \in Tabs, e \in Emails : SubmitLogin(t, e) \/ SubmitSignup(t, e)
    \/ \E k \in Attempts : Login(k) \/ SignupLookup(k) \/ SignupInsert(k) \/ Refuse(k)
                           \/ TakeToken(k) \/ AttemptFails(k)

Spec == Init /\ [][Next]_vars

\* A fetch ends in a response or in an error; which of them is left open.
FairSpec ==
    /\ Spec
    /\ \A t \in Tabs : WF_vars(\E n \in Attempts : MeAnswered(t, n) \/ MeFails(t, n))
    /\ \A k \in Attempts : WF_vars(TakeToken(k) \/ AttemptFails(k))

-----------------------------------------------------------------------------
(* Properties. *)

\* Every variable has its type, and a form on the screen that waits does so
\* for an attempt of its own tab that is still to be answered.
AttemptType ==
    [state : {"unused", "sent", "checked", "granted", "refused"}, kind : {"login", "signup"},
     email : Emails \cup {Nobody}, tab : Tabs \cup {Nobody}, heard : BOOLEAN]

TypeOK ==
    /\ docs \in [Emails -> Nat]
    /\ attempt \in [Attempts -> AttemptType]
    /\ stored \in Tokens
    /\ token \in [Tabs -> Tokens]
    /\ user \in [Tabs -> Emails \cup {Nobody}]
    /\ loading \in [Tabs -> BOOLEAN]
    /\ asking \in [Tabs -> SUBSET Attempts]
    /\ path \in [Tabs -> Paths]
    /\ busy \in [Tabs -> Tokens]
    /\ hurried \in [Tabs -> BOOLEAN]
    /\ writer \in Tabs \cup {Nobody}
    /\ \A t \in Tabs : busy[t] # 0 =>
           /\ Page(t) \in {"login", "signup"}
           /\ attempt[busy[t]].heard
           /\ attempt[busy[t]].tab = t

\* A tab shows the user its token belongs to, and shows one as soon as me()
\* has answered, unless its token changed while a me() was under way: then
\* the late answer sets the user of the token before (useAuth.jsx:18).
ShownUserIsTokens ==
    \A t \in Tabs : ~hurried[t] =>
        /\ user[t] # Nobody => token[t] # 0 /\ user[t] = Owner(token[t])
        /\ token[t] # 0 /\ asking[t] = {} => user[t] # Nobody

\* What a tab asks for is asked in the name of the user it shows, unless it
\* was hurried or another tab wrote localStorage after it: requests carry the
\* token in localStorage, and no tab listens for its changes (api.js:18).
ActsAsShown ==
    \A t \in Tabs :
        user[t] # Nobody /\ writer = t /\ ~hurried[t] =>
            stored # 0 /\ Owner(stored) = user[t]

\* Of the signups for one address that run at the same time at most one is
\* told that it succeeded, and a token always belongs to an account that
\* exists (auth_controller.go:34 looks first and inserts later).
OneSignupWins ==
    /\ UniqueIndex => \A e \in Emails :
           Cardinality({k \in Attempts : /\ InState(k, {"granted"})
                                         /\ attempt[k].kind = "signup"
                                         /\ Owner(k) = e}) <= docs[e] /\ docs[e] <= 1
    /\ \A k \in Attempts : InState(k, {"granted"}) => docs[Owner(k)] > 0

\* "Initializing" gives way to a page, and a form that was submitted can be
\* used again or is gone.
EveryCallEnds ==
    \A t \in Tabs : (loading[t] \/ busy[t] # 0) ~> (~loading[t] /\ busy[t] = 0)

=============================================================================
