---------------------------- MODULE SessionProofs ----------------------------
(***************************************************************************)
(* Theorems of Session for every number of tabs, addresses and attempts,   *)
(* with and without the unique index on users.email.                       *)
(***************************************************************************)
EXTENDS Session, TLAPS, FiniteSetTheorems

Used(k) == attempt[k].state # "unused"

\* An attempt that was submitted has an address, and one that is waited for a
\* tab; before that it has neither.
AttemptInv ==
    \A k \in Attempts :
        /\ Used(k) <=> Owner(k) \in Emails
        /\ attempt[k].heard => Used(k)
        /\ attempt[k].heard <=> attempt[k].tab \in Tabs

\* The tokens a browser holds, or has sent to me(), are those of attempts.
TokenInv ==
    /\ stored # 0 => Used(stored)
    /\ \A t \in Tabs : token[t] # 0 => Used(token[t])
    /\ \A t \in Tabs : \A n \in asking[t] : Used(n)

\* The last writer of localStorage has what it wrote, and a tab that was not
\* hurried asks me() about the token it has.
ProviderInv ==
    \A t \in Tabs :
        /\ writer = t => stored = token[t]
        /\ ~hurried[t] => asking[t] \subseteq {token[t]}

\* The signups for e that are told of their success.
Won(e) == {k \in Attempts : InState(k, {"granted"}) /\ attempt[k].kind = "signup" /\ Owner(k) = e}

SessionInv == TypeOK /\ AttemptInv /\ TokenInv /\ ProviderInv /\ ShownUserIsTokens

AccountInv == SessionInv /\ OneSignupWins

-----------------------------------------------------------------------------
(* Types. *)

LEMMA NobodyIsNoOne == Nobody \notin Emails /\ Nobody \notin Tabs
BY SessionAssumption

LEMMA UnheardType ==
    ASSUME TypeOK, NEW k \in Attempts
    PROVE  /\ Unheard(k) \in AttemptType
           /\ ~Unheard(k).heard
           /\ Unheard(k).tab = Nobody
           /\ Unheard(k).email = attempt[k].email
           /\ Unheard(k).kind = attempt[k].kind
           /\ Unheard(k).state \in {attempt[k].state, "refused"}
<1>1. attempt[k] \in AttemptType
  BY DEF TypeOK
<1>2. attempt[k].kind = "signup" /\ InState(k, {"sent", "checked"})
          => Unheard(k) = [attempt[k] EXCEPT !.heard = FALSE, !.tab = Nobody]
  BY <1>1 DEF Unheard, AttemptType
<1>3. ~(attempt[k].kind = "signup" /\ InState(k, {"sent", "checked"}))
          => Unheard(k) = [attempt[k] EXCEPT !.heard = FALSE, !.tab = Nobody, !.state = "refused"]
  BY <1>1 DEF Unheard, AttemptType
<1> QED BY <1>1, <1>2, <1>3 DEF AttemptType

\* What a tab shows is a page, and Show keeps the types of what it sets.
LEMMA ShowType ==
    ASSUME TypeOK, NEW t \in Tabs, NEW p \in Paths, NEW w \in BOOLEAN,
           NEW u \in Emails \cup {Nobody}, Show(t, p, w, u)
    PROVE  /\ path' \in [Tabs -> Paths]
           /\ loading' \in [Tabs -> BOOLEAN]
           /\ user' \in [Tabs -> Emails \cup {Nobody}]
           /\ busy' \in [Tabs -> Tokens]
           /\ \A s \in Tabs : busy'[s] # 0 => busy'[s] = busy[s] /\ Page(s)' = Page(s)
<1> USE DEF TypeOK
<1>1. /\ path' \in [Tabs -> Paths] /\ loading' \in [Tabs -> BOOLEAN]
      /\ user' \in [Tabs -> Emails \cup {Nobody}]
  BY DEF Show
<1>2. busy' \in [Tabs -> Tokens]
  BY SessionAssumption DEF Show, Tokens
<1>3. Page(t)' = PageOf(p, w, u)
  BY DEF Show, Page
<1>4. busy'[t] # 0 => busy'[t] = busy[t] /\ Page(t)' = Page(t)
  BY <1>3 DEF Show
<1>5. ASSUME NEW s \in Tabs, s # t PROVE busy'[s] = busy[s] /\ Page(s)' = Page(s)
  BY <1>5 DEF Show, Page
<1> QED BY <1>1, <1>2, <1>4, <1>5

\* The attempts a form waits for stay what they are.
Waiting ==
    \A t \in Tabs : busy[t] # 0 =>
        /\ Page(t) \in {"login", "signup"}
        /\ attempt[busy[t]].heard
        /\ attempt[busy[t]].tab = t

\* TypeOK, but for the forms that wait.
Types ==
    /\ docs \in [Emails -> Nat]
    /\ attempt \in [Attempts -> AttemptType]
    /\ stored \in Tokens
    /\ token \in [Tabs -> Tokens]
    /\ user \in [Tabs -> Emails \cup {Nobody}]
    /\ loading \in [Tabs -> BOOLEAN]
    /\ asking \in [Tabs -> SUBSET Attempts]
    /\ path \in [Tabs -> Paths]
    /\ busy \in [Tabs -> Tokens]
    /\ hurried \in [Tabs -> BOOLEAN]
    /\ writer \in Tabs \cup {Nobody}

LEMMA TypeIsTypes == TypeOK <=> Types /\ Waiting
BY DEF TypeOK, Types, Waiting

LEMMA TokensAreAttempts == Attempts \subseteq Tokens /\ \A k \in Tokens : k # 0 => k \in Attempts
BY SessionAssumption DEF Attempts, Tokens

LEMMA InitInv == Init => AccountInv
<1> SUFFICES ASSUME Init PROVE AccountInv
  OBVIOUS
<1> USE SessionAssumption, NobodyIsNoOne DEF Init, NoAttempt
<1>1. TypeOK
  <2>1. attempt \in [Attempts -> AttemptType]
    BY DEF AttemptType
  <2>2. docs \in [Emails -> Nat]
    OBVIOUS
  <2>3. 0 \in Tokens
    BY DEF Tokens
  <2> QED BY <2>1, <2>2, <2>3 DEF TypeOK, Paths
<1>2. AttemptInv
  BY DEF AttemptInv, Used, Owner
<1>3. TokenInv /\ ProviderInv
  BY DEF TokenInv, ProviderInv
<1>4. ShownUserIsTokens
  BY DEF ShownUserIsTokens
<1>5. OneSignupWins
  <2>1. \A e \in Emails : Won(e) = {}
    BY DEF Won, InState
  <2>2. \A e \in Emails : Cardinality(Won(e)) = 0
    BY <2>1, FS_EmptySet
  <2>3. \A e \in Emails : docs[e] \in 0 .. 1
    OBVIOUS
  <2>4. \A e \in Emails : Cardinality(Won(e)) <= docs[e] /\ docs[e] <= 1
    BY <2>2, <2>3
  <2> QED BY <2>4 DEF OneSignupWins, InState, Won
<1> QED BY <1>1, <1>2, <1>3, <1>4, <1>5 DEF AccountInv, SessionInv

\* An attempt whose token is taken is waited for no longer.
LEMMA TakenAttempts ==
    ASSUME TypeOK, NEW k \in Attempts, TakeToken(k)
    PROVE  /\ attempt' \in [Attempts -> AttemptType]
           /\ \A j \in Attempts : j # k => attempt'[j] = attempt[j]
           /\ attempt'[k].email = attempt[k].email
           /\ attempt'[k].kind = attempt[k].kind
           /\ attempt'[k].state = attempt[k].state
           /\ ~attempt'[k].heard
           /\ attempt'[k].tab = Nobody
<1> DEFINE one == [attempt EXCEPT ![k].heard = FALSE]
<1>1. attempt \in [Attempts -> AttemptType]
  BY DEF TypeOK
<1>2. one \in [Attempts -> AttemptType] /\ \A j \in Attempts : j # k => one[j] = attempt[j]
  BY <1>1 DEF AttemptType
<1>3. one[k] = [attempt[k] EXCEPT !.heard = FALSE]
  BY <1>1
<1>4. attempt' = [one EXCEPT ![k].tab = Nobody]
  BY DEF TakeToken
<1> HIDE DEF one
<1>5. attempt' \in [Attempts -> AttemptType] /\ \A j \in Attempts : j # k => attempt'[j] = one[j]
  BY <1>2, <1>4 DEF AttemptType
<1>6. attempt'[k] = [one[k] EXCEPT !.tab = Nobody]
  BY <1>2, <1>4
<1> QED BY <1>1, <1>2, <1>3, <1>5, <1>6 DEF AttemptType

\* What a document loaded in tab t leaves of the attempts.
LEMMA OpenAttempts ==
    ASSUME TypeOK, NEW t \in Tabs, Open(t)
    PROVE  /\ attempt' \in [Attempts -> AttemptType]
           /\ \A k \in Attempts :
                 /\ attempt[k].tab # t => attempt'[k] = attempt[k]
                 /\ attempt[k].tab = t => attempt'[k] = Unheard(k)
BY UnheardType DEF Open, TypeOK

LEMMA TypeStep ==
    ASSUME TypeOK, AttemptInv, TokenInv, [Next]_vars
    PROVE  TypeOK'
<1> USE NobodyIsNoOne, TokensAreAttempts
<1> SUFFICES Types' /\ Waiting'
  BY DEF TypeOK, Types, Waiting, Page, PageOf
<1>0. Types /\ Waiting
  BY TypeIsTypes
<1>1. ASSUME NEW t \in Tabs, Open(t) PROVE Types' /\ Waiting'
  <2>1. Types'
    <3>1. asking' = [asking EXCEPT ![t] = IF stored = 0 THEN {} ELSE {stored}]
      BY <1>1 DEF Open, AskMe
    <3>2. asking' \in [Tabs -> SUBSET Attempts]
      BY <1>0, <3>1 DEF Types
    <3>3. /\ token' \in [Tabs -> Tokens] /\ busy' \in [Tabs -> Tokens]
          /\ loading' \in [Tabs -> BOOLEAN] /\ hurried' \in [Tabs -> BOOLEAN]
          /\ user' \in [Tabs -> Emails \cup {Nobody}]
      BY <1>0, <1>1, SessionAssumption DEF Open, Types, Tokens
    <3> QED BY <1>0, <1>1, <3>2, <3>3, OpenAttempts DEF Types, Open
  <2>2. ASSUME NEW s \in Tabs, busy'[s] # 0
        PROVE  s # t /\ busy'[s] = busy[s] /\ Page(s)' = Page(s) /\ busy[s] \in Attempts
    BY <1>0, <1>1, <2>2 DEF Open, Types, Page
  <2>3. ASSUME NEW s \in Tabs, busy'[s] # 0
        PROVE  attempt'[busy[s]] = attempt[busy[s]]
    BY <1>0, <1>1, <2>2, <2>3, OpenAttempts DEF Waiting
  <2> QED BY <1>0, <2>1, <2>2, <2>3 DEF Waiting
<1>2. ASSUME NEW t \in Tabs, Navigate(t) PROVE Types' /\ Waiting'
  <2>1. PICK p \in Links(t) :
            /\ Show(t, p, loading[t], user[t])
            /\ UNCHANGED <<docs, attempt, stored, token, asking, hurried, writer>>
    BY <1>2 DEF Navigate
  <2>2. p \in Paths
    BY DEF Links, Navbar, HomePage, LoginPage, SignupPage, Paths
  <2>3. loading[t] \in BOOLEAN /\ user[t] \in Emails \cup {Nobody}
    BY <1>0 DEF Types
  <2> QED BY <1>0, <2>1, <2>2, <2>3, ShowType DEF Types, Waiting
<1>3. ASSUME NEW t \in Tabs, Back(t) PROVE Types' /\ Waiting'
  <2>1. PICK p \in Paths :
            /\ Show(t, p, loading[t], user[t])
            /\ UNCHANGED <<docs, attempt, stored, token, asking, hurried, writer>>
    BY <1>3 DEF Back
  <2>2. loading[t] \in BOOLEAN /\ user[t] \in Emails \cup {Nobody}
    BY <1>0 DEF Types
  <2> QED BY <1>0, <2>1, <2>2, ShowType DEF Types, Waiting
<1>4. ASSUME NEW t \in Tabs, Logout(t) PROVE Types' /\ Waiting'
  <2>1. loading[t] \in BOOLEAN /\ "login" \in Paths /\ 0 \in Tokens
    BY <1>0, SessionAssumption DEF Types, Paths, Tokens
  <2>2. Show(t, "login", loading[t], Nobody) /\ attempt' = attempt
    BY <1>4 DEF Logout
  <2>3. /\ token' \in [Tabs -> Tokens]
        /\ hurried' \in [Tabs -> BOOLEAN]
    BY <1>0, <1>4, <2>1 DEF Logout, Types
  <2> QED BY <1>0, <1>4, <2>1, <2>2, <2>3, ShowType DEF Types, Waiting, Logout
<1>5. ASSUME NEW t \in Tabs, NEW n \in Attempts, MeAnswered(t, n) PROVE Types' /\ Waiting'
  <2>1. Owner(n) \in Emails /\ path[t] \in Paths
    BY <1>0, <1>5 DEF MeAnswered, AttemptInv, TokenInv, Types
  <2>2. Show(t, path[t], FALSE, Owner(n)) /\ attempt' = attempt
    BY <1>5 DEF MeAnswered
  <2>3. asking' \in [Tabs -> SUBSET Attempts]
    BY <1>0, <1>5 DEF MeAnswered, Types
  <2> QED BY <1>0, <1>5, <2>1, <2>2, <2>3, ShowType DEF Types, Waiting, MeAnswered
<1>6. ASSUME NEW t \in Tabs, NEW n \in Attempts, MeFails(t, n) PROVE Types' /\ Waiting'
  <2>1. path[t] \in Paths /\ 0 \in Tokens
    BY <1>0, SessionAssumption DEF Types, Tokens
  <2>2. Show(t, path[t], FALSE, Nobody) /\ attempt' = attempt
    BY <1>6 DEF MeFails
  <2>3. asking' \in [Tabs -> SUBSET Attempts] /\ token' \in [Tabs -> Tokens]
        /\ hurried' \in [Tabs -> BOOLEAN]
    BY <1>0, <1>6, <2>1 DEF MeFails, Types
  <2> QED BY <1>0, <1>6, <2>1, <2>2, <2>3, ShowType DEF Types, Waiting, MeFails
<1>7. ASSUME NEW t \in Tabs, NEW e \in Emails, NEW kind \in {"login", "signup"},
             Page(t) = kind, Send(t, e, kind)
      PROVE  Types' /\ Waiting'
  <2>1. PICK k \in Attempts :
            /\ InState(k, {"unused"})
            /\ attempt' = [attempt EXCEPT ![k] =
                   [state |-> "sent", kind |-> kind, email |-> e, tab |-> t, heard |-> TRUE]]
            /\ busy' = [busy EXCEPT ![t] = k]
            /\ UNCHANGED <<docs, stored, provider, path, hurried, writer>>
    BY <1>7 DEF Send
  <2>2. Types'
    BY <1>0, <2>1 DEF Types, AttemptType, provider
  <2>3. \A s \in Tabs : Page(s)' = Page(s)
    BY <2>1 DEF Page, provider
  <2>4. ~attempt[k].heard
    BY <2>1 DEF AttemptInv, Used, InState
  <2>5. attempt'[k].heard /\ attempt'[k].tab = t
    BY <1>0, <2>1 DEF Types
  <2>6. \A j \in Attempts : j # k => attempt'[j] = attempt[j]
    BY <1>0, <2>1 DEF Types
  <2>7. busy'[t] = k /\ \A s \in Tabs : s # t => busy'[s] = busy[s]
    BY <1>0, <2>1 DEF Types
  <2>8. ASSUME NEW s \in Tabs, s # t, busy[s] # 0 PROVE busy[s] \in Attempts /\ busy[s] # k
    BY <1>0, <2>4, <2>8 DEF Types, Waiting
  <2> QED BY <1>0, <1>7, <2>2, <2>3, <2>5, <2>6, <2>7, <2>8 DEF Waiting
<1>8. ASSUME NEW k \in Attempts, NEW st \in {"checked", "granted", "refused"},
             Reaches(k, st), ServerOnly, docs' \in [Emails -> Nat]
      PROVE  Types' /\ Waiting'
  <2>1. Types'
    BY <1>0, <1>8 DEF Types, Reaches, ServerOnly, AttemptType, provider, screen
  <2>2. \A j \in Attempts : attempt'[j].heard = attempt[j].heard /\ attempt'[j].tab = attempt[j].tab
    BY <1>0, <1>8 DEF Types, AttemptType, Reaches
  <2>3. busy' = busy /\ \A s \in Tabs : Page(s)' = Page(s)
    BY <1>8 DEF ServerOnly, Page, provider, screen
  <2>4. \A s \in Tabs : busy[s] # 0 => busy[s] \in Attempts
    BY <1>0 DEF Types
  <2> QED BY <1>0, <2>1, <2>2, <2>3, <2>4 DEF Waiting
<1>9. ASSUME NEW k \in Attempts, TakeToken(k) PROVE Types' /\ Waiting'
  <2> DEFINE t == attempt[k].tab
  <2>1. t \in Tabs /\ Owner(k) \in Emails
    BY <1>9 DEF TakeToken, AttemptInv, Used
  <2>2. attempt' \in [Attempts -> AttemptType] /\ \A j \in Attempts : j # k => attempt'[j] = attempt[j]
    BY <1>9, TakenAttempts
  <2>3. asking' \in [Tabs -> SUBSET Attempts]
    BY <1>0, <1>9, <2>1 DEF TakeToken, AskMe, Types
  <2>4. /\ token' \in [Tabs -> Tokens] /\ user' \in [Tabs -> Emails \cup {Nobody}]
        /\ path' \in [Tabs -> Paths] /\ busy' \in [Tabs -> Tokens]
        /\ hurried' \in [Tabs -> BOOLEAN]
    BY <1>0, <1>9, <2>1, SessionAssumption DEF TakeToken, Types, Paths, Tokens
  <2>5. Types'
    BY <1>0, <1>9, <2>1, <2>2, <2>3, <2>4 DEF TakeToken, Types
  <2>6. ASSUME NEW s \in Tabs, busy'[s] # 0
        PROVE  s # t /\ busy'[s] = busy[s] /\ Page(s)' = Page(s) /\ busy[s] \in Attempts
    BY <1>0, <1>9, <2>1, <2>6 DEF TakeToken, Types, Page
  <2>7. ASSUME NEW s \in Tabs, busy'[s] # 0 PROVE attempt'[busy[s]] = attempt[busy[s]]
    BY <1>0, <2>2, <2>6, <2>7 DEF Waiting
  <2> QED BY <1>0, <2>5, <2>6, <2>7 DEF Waiting
<1>10. ASSUME NEW k \in Attempts, AttemptFails(k) PROVE Types' /\ Waiting'
  <2> DEFINE t == attempt[k].tab
  <2>1. t \in Tabs
    BY <1>10 DEF AttemptFails, AttemptInv
  <2>2. attempt' \in [Attempts -> AttemptType] /\ \A j \in Attempts : j # k => attempt'[j] = attempt[j]
    BY <1>0, <1>10, UnheardType DEF AttemptFails, Types
  <2>3. busy' \in [Tabs -> Tokens]
    BY <1>0, <1>10, <2>1, SessionAssumption DEF AttemptFails, Types, Tokens
  <2>4. \A s \in Tabs : Page(s)' = Page(s)
    BY <1>10 DEF AttemptFails, Page, provider
  <2>5. ASSUME NEW s \in Tabs, busy'[s] # 0
        PROVE  busy'[s] = busy[s] /\ busy[s] \in Attempts /\ busy[s] # k
    BY <1>0, <1>10, <2>1, <2>5 DEF AttemptFails, Types, Waiting
  <2>6. Types'
    BY <1>0, <1>10, <2>2, <2>3 DEF Types, AttemptFails, provider
  <2>7. ASSUME NEW s \in Tabs, busy'[s] # 0 PROVE attempt'[busy'[s]] = attempt[busy[s]]
    BY <2>2, <2>5, <2>7
  <2> QED BY <1>0, <2>4, <2>5, <2>6, <2>7 DEF Waiting
<1>11. ASSUME UNCHANGED vars PROVE Types' /\ Waiting'
  BY <1>0, <1>11 DEF vars, Types, Waiting, Page
<1>12. ASSUME NEW k \in Attempts, SignupInsert(k) PROVE Types' /\ Waiting'
  <2>1. Owner(k) \in Emails
    BY <1>12 DEF SignupInsert, AttemptInv, Used, InState
  <2>2. docs' \in [Emails -> Nat]
    BY <1>0, <1>12, <2>1 DEF SignupInsert, Types
  <2> QED BY <1>8, <1>12, <2>2 DEF SignupInsert
<1>13. ASSUME NEW k \in Attempts, Login(k) \/ SignupLookup(k) \/ Refuse(k) PROVE Types' /\ Waiting'
  <2>1. docs' \in [Emails -> Nat]
    BY <1>0, <1>13 DEF Types, Login, SignupLookup, Refuse
  <2> QED BY <1>8, <1>13, <2>1 DEF Login, SignupLookup, Refuse
<1>14. ASSUME NEW t \in Tabs, NEW e \in Emails, SubmitLogin(t, e) \/ SubmitSignup(t, e)
       PROVE  Types' /\ Waiting'
  BY <1>7, <1>14 DEF SubmitLogin, SubmitSignup
<1> QED BY <1>1, <1>2, <1>3, <1>4, <1>5, <1>6, <1>9, <1>10, <1>11, <1>12, <1>13, <1>14 DEF Next

-----------------------------------------------------------------------------
(* Users. *)

\* An attempt that was submitted keeps its address.
Kept(k) == Used(k) => Used(k)' /\ attempt'[k].email = attempt[k].email

LEMMA AttemptStep ==
    ASSUME TypeOK, AttemptInv, [Next]_vars
    PROVE  AttemptInv' /\ \A k \in Attempts : Kept(k)
<1> USE NobodyIsNoOne DEF AttemptInv, Kept, Used, Owner
<1>0. attempt \in [Attempts -> AttemptType]
  BY DEF TypeOK
<1>1. ASSUME NEW t \in Tabs, Open(t) PROVE AttemptInv' /\ \A k \in Attempts : Kept(k)
  <2>1. ASSUME NEW k \in Attempts, attempt[k].tab = t
        PROVE  Used(k) /\ attempt'[k] = Unheard(k)
    BY <1>1, <2>1, OpenAttempts
  <2>2. ASSUME NEW k \in Attempts, attempt[k].tab # t
        PROVE  attempt'[k] = attempt[k]
    BY <1>1, <2>2, OpenAttempts
  <2> QED BY <2>1, <2>2, UnheardType
<1>2. ASSUME attempt' = attempt PROVE AttemptInv' /\ \A k \in Attempts : Kept(k)
  BY <1>2
<1>3. ASSUME NEW t \in Tabs, NEW e \in Emails, NEW kind \in {"login", "signup"}, Send(t, e, kind)
      PROVE  AttemptInv' /\ \A k \in Attempts : Kept(k)
  BY <1>0, <1>3 DEF Send, InState
<1>4. ASSUME NEW k \in Attempts, NEW st \in {"checked", "granted", "refused"}, Reaches(k, st), Used(k)
      PROVE  AttemptInv' /\ \A j \in Attempts : Kept(j)
  BY <1>0, <1>4 DEF Reaches, AttemptType
<1>5. ASSUME NEW k \in Attempts, TakeToken(k) PROVE AttemptInv' /\ \A j \in Attempts : Kept(j)
  BY <1>5, TakenAttempts
<1>6. ASSUME NEW k \in Attempts, AttemptFails(k) PROVE AttemptInv' /\ \A j \in Attempts : Kept(j)
  BY <1>0, <1>6, UnheardType DEF AttemptFails
<1>7. ASSUME NEW k \in Attempts, Login(k) \/ SignupLookup(k) \/ SignupInsert(k) \/ Refuse(k)
      PROVE  AttemptInv' /\ \A j \in Attempts : Kept(j)
  BY <1>4, <1>7 DEF Login, SignupLookup, SignupInsert, Refuse, InState
<1> QED BY <1>1, <1>2, <1>3, <1>5, <1>6, <1>7
        DEF Next, vars, Navigate, Back, Logout, MeAnswered, MeFails, SubmitLogin, SubmitSignup

\* A step that leaves the tokens, the requests for me() and the users alone.
Quiet == UNCHANGED <<stored, token, user, asking, hurried, writer>>

LEMMA UserInit == Init => TokenInv /\ ProviderInv /\ ShownUserIsTokens
BY DEF Init, TokenInv, ProviderInv, ShownUserIsTokens

LEMMA UserStep ==
    ASSUME SessionInv, [Next]_vars
    PROVE  TokenInv' /\ ProviderInv' /\ ShownUserIsTokens'
<1> DEFINE Goal == TokenInv' /\ ProviderInv' /\ ShownUserIsTokens'
<1> USE NobodyIsNoOne, TokensAreAttempts
<1>0. /\ attempt \in [Attempts -> AttemptType] /\ stored \in Tokens
      /\ token \in [Tabs -> Tokens] /\ user \in [Tabs -> Emails \cup {Nobody}]
      /\ asking \in [Tabs -> SUBSET Attempts] /\ hurried \in [Tabs -> BOOLEAN]
  BY DEF SessionInv, TypeOK
<1>a. AttemptInv /\ TokenInv /\ ProviderInv /\ ShownUserIsTokens
  BY DEF SessionInv
<1>k. \A k \in Attempts : Used(k) => Used(k)' /\ Owner(k)' = Owner(k)
  BY AttemptStep DEF SessionInv, Kept, Owner
<1>1. ASSUME NEW t \in Tabs, Open(t) PROVE Goal
  <2>1. /\ asking' = [asking EXCEPT ![t] = IF stored = 0 THEN {} ELSE {stored}]
        /\ token' = [token EXCEPT ![t] = stored] /\ user' = [user EXCEPT ![t] = Nobody]
        /\ hurried' = [hurried EXCEPT ![t] = FALSE]
        /\ stored' = stored /\ writer' = writer
    BY <1>1 DEF Open, AskMe
  <2>2. TokenInv'
    BY <1>0, <1>a, <1>k, <2>1 DEF TokenInv
  <2>3. ProviderInv'
    BY <1>0, <1>a, <2>1 DEF ProviderInv
  <2>4. ShownUserIsTokens'
    BY <1>0, <1>a, <1>k, <2>1 DEF ShownUserIsTokens, TokenInv
  <2> QED BY <2>2, <2>3, <2>4
<1>2. ASSUME Quiet PROVE Goal
  <2>1. TokenInv' /\ ProviderInv'
    BY <1>0, <1>a, <1>k, <1>2 DEF Quiet, TokenInv, ProviderInv
  <2>2. ShownUserIsTokens'
    BY <1>0, <1>a, <1>k, <1>2 DEF Quiet, TokenInv, ShownUserIsTokens
  <2> QED BY <2>1, <2>2
<1>3. ASSUME NEW t \in Tabs, Logout(t) PROVE Goal
  <2>1. /\ stored' = 0 /\ writer' = t /\ asking' = asking
        /\ token' = [token EXCEPT ![t] = 0] /\ user' = [user EXCEPT ![t] = Nobody]
        /\ hurried' = [hurried EXCEPT ![t] = @ \/ asking[t] # {}]
    BY <1>3 DEF Logout, Show
  <2>2. TokenInv'
    BY <1>0, <1>a, <1>k, <2>1 DEF TokenInv
  <2>3. ProviderInv'
    BY <1>0, <1>a, <2>1 DEF ProviderInv
  <2>4. ShownUserIsTokens'
    BY <1>0, <1>a, <1>k, <2>1 DEF ShownUserIsTokens, TokenInv
  <2> QED BY <2>2, <2>3, <2>4
<1>4. ASSUME NEW t \in Tabs, NEW n \in Attempts, MeAnswered(t, n) PROVE Goal
  <2>1. /\ n \in asking[t] /\ asking' = [asking EXCEPT ![t] = @ \ {n}]
        /\ user' = [user EXCEPT ![t] = Owner(n)]
        /\ UNCHANGED <<attempt, stored, token, hurried, writer>>
    BY <1>4 DEF MeAnswered, Show
  <2>2. TokenInv' /\ ProviderInv'
    BY <1>0, <1>a, <2>1 DEF TokenInv, ProviderInv, Used
  <2>3. Owner(n) \in Emails
    BY <1>a, <2>1 DEF TokenInv, AttemptInv
  <2>4. ~hurried[t] => n = token[t] /\ n # 0
    BY <1>a, <2>1, SessionAssumption DEF ProviderInv, Attempts
  <2>5. ShownUserIsTokens'
    BY <1>0, <1>a, <2>1, <2>3, <2>4 DEF ShownUserIsTokens, Owner
  <2> QED BY <2>2, <2>5
<1>5. ASSUME NEW t \in Tabs, NEW n \in Attempts, MeFails(t, n) PROVE Goal
  <2>1. /\ n \in asking[t] /\ asking' = [asking EXCEPT ![t] = @ \ {n}]
        /\ stored' = 0 /\ writer' = t /\ attempt' = attempt
        /\ token' = [token EXCEPT ![t] = 0] /\ user' = [user EXCEPT ![t] = Nobody]
        /\ hurried' = [hurried EXCEPT ![t] = @ \/ asking[t] # {n}]
    BY <1>5 DEF MeFails, Show
  <2>2. TokenInv'
    BY <1>0, <1>a, <2>1 DEF TokenInv, Used
  <2>3. ProviderInv'
    BY <1>0, <1>a, <2>1 DEF ProviderInv
  <2>4. ShownUserIsTokens'
    BY <1>0, <1>a, <2>1 DEF ShownUserIsTokens, Owner
  <2> QED BY <2>2, <2>3, <2>4
<1>6. ASSUME NEW k \in Attempts, TakeToken(k) PROVE Goal
  <2> DEFINE t == attempt[k].tab
  <2>1. t \in Tabs /\ Owner(k) \in Emails /\ Used(k) /\ k # 0
    BY <1>6, <1>a, SessionAssumption DEF TakeToken, AttemptInv, Used, Attempts
  <2>2. /\ stored' = k /\ writer' = t
        /\ token' = [token EXCEPT ![t] = k] /\ user' = [user EXCEPT ![t] = Owner(k)]
        /\ asking' = [asking EXCEPT ![t] = asking[t] \cup {k}]
        /\ hurried' = [hurried EXCEPT ![t] = @ \/ asking[t] # {}]
    BY <1>6 DEF TakeToken, AskMe
  <2> HIDE DEF t
  <2>3. TokenInv'
    BY <1>0, <1>a, <1>k, <2>1, <2>2 DEF TokenInv
  <2>4. ProviderInv'
    BY <1>0, <1>a, <2>1, <2>2 DEF ProviderInv
  <2>5. Owner(k)' = Owner(k)
    BY <1>k, <2>1
  <2>6. ShownUserIsTokens'
    <3>1. ASSUME NEW s \in Tabs, s # t
          PROVE  /\ user'[s] = user[s] /\ token'[s] = token[s]
                 /\ asking'[s] = asking[s] /\ hurried'[s] = hurried[s]
      BY <1>0, <2>2, <3>1
    <3>2. ASSUME NEW s \in Tabs, s # t, token[s] # 0
          PROVE  attempt'[token[s]].email = attempt[token[s]].email
      BY <1>0, <1>a, <1>k, <3>2 DEF TokenInv, Owner
    <3>3. user'[t] = Owner(k) /\ token'[t] = k /\ attempt'[k].email = Owner(k)
      BY <1>0, <2>1, <2>2, <2>5 DEF Owner
    <3>4. ASSUME NEW s \in Tabs, ~hurried'[s]
          PROVE  /\ user'[s] # Nobody => token'[s] # 0 /\ user'[s] = attempt'[token'[s]].email
                 /\ token'[s] # 0 /\ asking'[s] = {} => user'[s] # Nobody
      <4>1. CASE s = t
        BY <2>1, <3>3, <4>1
      <4>2. CASE s # t
        BY <1>a, <3>1, <3>2, <3>4, <4>2 DEF ShownUserIsTokens, Owner
      <4> QED BY <4>1, <4>2
    <3> QED BY <3>4 DEF ShownUserIsTokens, Owner
  <2> QED BY <2>3, <2>4, <2>6
<1>7. ASSUME NEW k \in Attempts, Login(k) \/ SignupLookup(k) \/ SignupInsert(k) \/ Refuse(k) \/ AttemptFails(k)
      PROVE  Goal
  BY <1>2, <1>7 DEF Quiet, Login, SignupLookup, SignupInsert, Refuse, AttemptFails, ServerOnly, provider
<1>8. ASSUME NEW t \in Tabs, NEW e \in Emails, SubmitLogin(t, e) \/ SubmitSignup(t, e)
      PROVE  Goal
  BY <1>2, <1>8 DEF Quiet, SubmitLogin, SubmitSignup, Send, provider
<1>9. ASSUME NEW t \in Tabs, Navigate(t) \/ Back(t)
      PROVE  Goal
  BY <1>0, <1>2, <1>9 DEF Quiet, Navigate, Back, Show
<1>10. ASSUME UNCHANGED vars PROVE Goal
  BY <1>2, <1>10 DEF Quiet, vars
<1> QED BY <1>1, <1>3, <1>4, <1>5, <1>6, <1>7, <1>8, <1>9, <1>10 DEF Next

LEMMA SessionInvariant == Spec => []SessionInv
<1>1. Init => SessionInv
  BY InitInv DEF AccountInv
<1>2. SessionInv /\ [Next]_vars => SessionInv'
  BY TypeStep, AttemptStep, UserStep DEF SessionInv
<1> QED BY <1>1, <1>2, PTL DEF Spec

\* Every variable has its type, and a form that waits does so for an attempt
\* of its own tab that is still to be answered: whichever way the attempt
\* ends, some step is left that frees the form.
THEOREM TypesHold == Spec => []TypeOK
<1>1. SessionInv => TypeOK
  BY DEF SessionInv
<1> QED BY <1>1, SessionInvariant, PTL

\* A tab shows the user its token belongs to, unless its token changed while
\* a me() was under way (useAuth.jsx:18).
THEOREM ShownUserIsTokensHolds == Spec => []ShownUserIsTokens
<1>1. SessionInv => ShownUserIsTokens
  BY DEF SessionInv
<1> QED BY <1>1, SessionInvariant, PTL

\* The tab that wrote localStorage last asks in the name of the user it shows
\* (api.js:18), unless it was hurried.
THEOREM ActsAsShownHolds == Spec => []ActsAsShown
<1>1. SessionInv => ActsAsShown
  <2> SUFFICES ASSUME SessionInv, NEW t \in Tabs, user[t] # Nobody, writer = t, ~hurried[t]
               PROVE  stored # 0 /\ Owner(stored) = user[t]
    BY DEF ActsAsShown
  <2>1. stored = token[t]
    BY DEF SessionInv, ProviderInv
  <2>2. token[t] # 0 /\ user[t] = Owner(token[t])
    BY DEF SessionInv, ShownUserIsTokens
  <2> QED BY <2>1, <2>2
<1> QED BY <1>1, SessionInvariant, PTL

-----------------------------------------------------------------------------
(* Accounts. *)

LEMMA WonIsFinite == \A e \in Emails : IsFiniteSet(Won(e)) /\ Cardinality(Won(e)) \in Nat
<1>1. IsFiniteSet(Attempts)
  BY SessionAssumption, FS_Interval DEF Attempts
<1>2. \A e \in Emails : Won(e) \subseteq Attempts
  BY DEF Won
<1> QED BY <1>1, <1>2, FS_Subset, FS_CardinalityType

LEMMA OneSignupDef ==
    OneSignupWins <=>
        /\ UniqueIndex => \A e \in Emails : Cardinality(Won(e)) <= docs[e] /\ docs[e] <= 1
        /\ \A k \in Attempts : InState(k, {"granted"}) => docs[Owner(k)] > 0
BY DEF OneSignupWins, Won

\* No account goes away, and no step but an insert adds to those who are told
\* of a success.
LEMMA NoNewWinner ==
    ASSUME SessionInv, OneSignupWins, docs' = docs,
           \A j \in Attempts : Kept(j),
           \A j \in Attempts : InState(j, {"granted"})' =>
               /\ docs[Owner(j)'] > 0
               /\ attempt'[j].kind = "signup" =>
                      /\ InState(j, {"granted"})
                      /\ attempt[j].kind = "signup"
                      /\ Owner(j)' = Owner(j)
    PROVE  OneSignupWins'
<1>1. \A e \in Emails : Won(e)' \subseteq Won(e)
  BY DEF Won
<1>2. \A e \in Emails : Cardinality(Won(e)') <= Cardinality(Won(e)) /\ Cardinality(Won(e)') \in Nat
  BY <1>1, WonIsFinite, FS_Subset, FS_CardinalityType
<1>3. UniqueIndex => \A e \in Emails : Cardinality(Won(e)') <= docs[e] /\ docs[e] <= 1
  <2>1. \A e \in Emails : docs[e] \in Nat
    BY DEF SessionInv, TypeOK
  <2> QED BY <1>2, <2>1, OneSignupDef, WonIsFinite
<1>4. \A k \in Attempts : InState(k, {"granted"})' => docs'[Owner(k)'] > 0
  OBVIOUS
<1> QED BY <1>3, <1>4 DEF OneSignupWins, Won

LEMMA WinnerStep ==
    ASSUME AccountInv, [Next]_vars
    PROVE  OneSignupWins'
<1>0. /\ SessionInv /\ OneSignupWins
      /\ attempt \in [Attempts -> AttemptType] /\ docs \in [Emails -> Nat]
      /\ AttemptInv
      /\ \A j \in Attempts : Kept(j)
  BY AttemptStep DEF AccountInv, SessionInv, TypeOK
<1>a. \A j \in Attempts : InState(j, {"granted"}) => docs[Owner(j)] > 0
  BY <1>0, OneSignupDef
<1> USE DEF InState, Owner
<1>1. ASSUME NEW t \in Tabs, Open(t) PROVE OneSignupWins'
  <2>1. docs' = docs
    BY <1>1 DEF Open
  <2>2. ASSUME NEW j \in Attempts
        PROVE  /\ attempt'[j].email = attempt[j].email /\ attempt'[j].kind = attempt[j].kind
               /\ attempt'[j].state \in {attempt[j].state, "refused"}
    BY <1>0, <1>1, OpenAttempts, UnheardType DEF SessionInv
  <2> QED BY <1>0, <1>a, <2>1, <2>2, NoNewWinner
<1>2. ASSUME docs' = docs, attempt' = attempt PROVE OneSignupWins'
  BY <1>0, <1>a, <1>2, NoNewWinner
<1>3. ASSUME NEW t \in Tabs, NEW e \in Emails, NEW kind \in {"login", "signup"}, Send(t, e, kind)
      PROVE  OneSignupWins'
  <2>1. docs' = docs
    BY <1>3 DEF Send
  <2>2. ASSUME NEW j \in Attempts, attempt'[j].state = "granted" PROVE attempt'[j] = attempt[j]
    BY <1>0, <1>3, <2>2 DEF Send
  <2> QED BY <1>0, <1>a, <2>1, <2>2, NoNewWinner
<1>4. ASSUME NEW k \in Attempts, TakeToken(k) PROVE OneSignupWins'
  <2>1. docs' = docs
    BY <1>4 DEF TakeToken
  <2>2. ASSUME NEW j \in Attempts
        PROVE  /\ attempt'[j].email = attempt[j].email /\ attempt'[j].kind = attempt[j].kind
               /\ attempt'[j].state = attempt[j].state
    BY <1>0, <1>4, TakenAttempts DEF SessionInv
  <2> QED BY <1>0, <1>a, <2>1, <2>2, NoNewWinner
<1>5. ASSUME NEW k \in Attempts, AttemptFails(k) PROVE OneSignupWins'
  <2>1. docs' = docs
    BY <1>5 DEF AttemptFails
  <2>2. ASSUME NEW j \in Attempts
        PROVE  /\ attempt'[j].email = attempt[j].email /\ attempt'[j].kind = attempt[j].kind
               /\ attempt'[j].state \in {attempt[j].state, "refused"}
    BY <1>0, <1>5, UnheardType DEF SessionInv, AttemptFails
  <2> QED BY <1>0, <1>a, <2>1, <2>2, NoNewWinner
<1>6. ASSUME NEW k \in Attempts, SignupLookup(k) \/ Refuse(k) PROVE OneSignupWins'
  <2>1. docs' = docs
    BY <1>6 DEF SignupLookup, Refuse
  <2>2. ASSUME NEW j \in Attempts, attempt'[j].state = "granted" PROVE attempt'[j] = attempt[j]
    BY <1>0, <1>6, <2>2 DEF SignupLookup, Refuse, Reaches, AttemptType
  <2> QED BY <1>0, <1>a, <2>1, <2>2, NoNewWinner
<1>7. ASSUME NEW k \in Attempts, Login(k) PROVE OneSignupWins'
  <2>1. docs' = docs
    BY <1>7 DEF Login
  <2>2. ASSUME NEW j \in Attempts, j # k PROVE attempt'[j] = attempt[j]
    BY <1>0, <1>7, <2>2 DEF Login, Reaches
  <2>3. attempt'[k].email = attempt[k].email /\ attempt'[k].kind = "login" /\ docs[attempt[k].email] > 0
    <3>1. attempt[k] \in AttemptType
      BY <1>0
    <3>2. attempt'[k] = [attempt[k] EXCEPT !.state = "granted"]
      BY <1>0, <1>7 DEF Login, Reaches
    <3> QED BY <1>7, <3>1, <3>2 DEF Login, AttemptType
  <2> QED BY <1>0, <1>a, <2>1, <2>2, <2>3, NoNewWinner
<1>8. ASSUME NEW k \in Attempts, SignupInsert(k) PROVE OneSignupWins'
  <2>1. PICK e \in Emails : e = Owner(k)
    BY <1>0, <1>8 DEF SignupInsert, AttemptInv, Used
  <2>2. docs' = [docs EXCEPT ![e] = @ + 1]
    BY <1>8, <2>1 DEF SignupInsert
  <2>3. \A j \in Attempts : j # k => attempt'[j] = attempt[j]
    BY <1>0, <1>8 DEF SignupInsert, Reaches
  <2>4. attempt'[k].email = e /\ attempt'[k].kind = attempt[k].kind
    BY <1>0, <1>8, <2>1 DEF SignupInsert, Reaches, AttemptType
  <2>5. docs'[e] = docs[e] + 1 /\ \A d \in Emails : d # e => docs'[d] = docs[d]
    BY <1>0, <2>1, <2>2
  <2>6. \A j \in Attempts : attempt'[j].state = "granted" => docs'[attempt'[j].email] > 0
    <3>1. ASSUME NEW j \in Attempts, j # k, attempt[j].state = "granted"
          PROVE  attempt[j].email \in Emails /\ docs[attempt[j].email] > 0
      BY <1>0, <1>a, <3>1 DEF AttemptInv, Used
    <3> QED BY <1>0, <2>1, <2>3, <2>4, <2>5, <3>1
  <2>7. ASSUME UniqueIndex, NEW d \in Emails
        PROVE  Cardinality(Won(d)') <= docs'[d] /\ docs'[d] <= 1
    <3>0. Cardinality(Won(d)) <= docs[d] /\ docs[d] <= 1
      BY <1>0, <2>7, OneSignupDef
    <3>1. CASE d # e
      <4>1. Won(d)' = Won(d)
        <5>1. Owner(k) # d /\ attempt'[k].email # d
          BY <2>1, <2>4, <3>1
        <5> QED BY <2>3, <5>1 DEF Won
      <4> QED BY <2>5, <3>0, <3>1, <4>1
    <3>2. CASE d = e
      <4>1. docs[e] = 0
        <5>1. ~(docs[e] > 0) /\ docs[e] \in Nat
          BY <1>0, <1>8, <2>1, <2>7 DEF SignupInsert, IndexRefuses
        <5> QED BY <5>1
      <4>2. Won(e) = {}
        BY <2>1, <3>0, <3>2, <4>1, WonIsFinite, FS_EmptySet
      <4>3. Won(e)' \subseteq {k}
        BY <2>3, <4>2 DEF Won
      <4>4. Cardinality(Won(e)') <= 1
        <5>1. IsFiniteSet({k}) /\ Cardinality({k}) = 1
          BY FS_Singleton
        <5> QED BY <4>3, <5>1, FS_Subset
      <4>5. docs'[e] = 1
        BY <2>5, <4>1
      <4> QED BY <3>2, <4>4, <4>5
    <3> QED BY <3>1, <3>2
  <2> QED BY <2>6, <2>7 DEF OneSignupWins, Won
<1>9. ASSUME NEW t \in Tabs, NEW f \in Emails, SubmitLogin(t, f) \/ SubmitSignup(t, f)
      PROVE  OneSignupWins'
  BY <1>3, <1>9 DEF SubmitLogin, SubmitSignup
<1> QED BY <1>0, <1>1, <1>2, <1>4, <1>5, <1>6, <1>7, <1>8, <1>9
        DEF Next, vars, Navigate, Back, Logout, MeAnswered, MeFails

\* Of the signups for one address that run at the same time at most one is
\* told that it succeeded, where the unique index was created, and a token
\* always belongs to an account (auth_controller.go:34).
THEOREM OneSignupWinsHolds == Spec => []OneSignupWins
<1>1. Init => AccountInv
  BY InitInv
<1>2. AccountInv /\ [Next]_vars => AccountInv'
  BY TypeStep, AttemptStep, UserStep, WinnerStep DEF AccountInv, SessionInv
<1>3. AccountInv => OneSignupWins
  BY DEF AccountInv
<1> QED BY <1>1, <1>2, <1>3, PTL DEF Spec

=============================================================================
