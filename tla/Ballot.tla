-------------------------------- MODULE Ballot --------------------------------
(***************************************************************************)
(* What the backend promises about one poll, whatever its handlers do in   *)
(* which order: a ballot comes in only while the poll is open, one that    *)
(* was turned away is never in the box, and one that was confirmed is in   *)
(* the box until the creator sets out to delete the poll.  A deletion that *)
(* fails half-way may empty the box of a poll that stays.  Redis is not in *)
(* it.                                                                     *)
(***************************************************************************)

CONSTANT Ballots    \* the votes that are sent

VARIABLES
    phase,      \* "none" before the poll, then "open", "closed" or "gone"
    doomed,     \* whether a deletion has begun
    admitted,   \* ballots that passed the validation of the poll
    box,        \* ballots stored
    confirmed,  \* ballots answered 200
    refused     \* ballots turned away: invalid, unknown poll, or a repeat

people == <<admitted, box, confirmed, refused>>
vars   == <<phase, doomed, admitted, box, confirmed, refused>>

Init ==
    /\ phase = "none"
    /\ doomed = FALSE
    /\ admitted = {}
    /\ box = {}
    /\ confirmed = {}
    /\ refused = {}

Open ==
    /\ phase \in {"none", "closed"}
    /\ phase' = "open"
    /\ UNCHANGED <<doomed, people>>

\* By the creator, or by the clock.
Close ==
    /\ phase = "open"
    /\ phase' = "closed"
    /\ UNCHANGED <<doomed, people>>

\* The first call of a deletion, and what became of it.
Doom ==
    /\ phase # "none"
    /\ doomed' = TRUE
    /\ phase' \in {phase, "gone"}
    /\ UNCHANGED people

Admit(b) ==
    /\ phase = "open"
    /\ b \notin admitted \cup refused
    /\ admitted' = admitted \cup {b}
    /\ UNCHANGED <<phase, doomed, box, confirmed, refused>>

Refuse(b) ==
    /\ b \notin box \cup confirmed \cup refused
    /\ refused' = refused \cup {b}
    /\ UNCHANGED <<phase, doomed, admitted, box, confirmed>>

\* An admitted ballot may reach the box after the poll was closed, or is gone.
Put(b) ==
    /\ b \in admitted \ (box \cup confirmed \cup refused)
    /\ box' = box \cup {b}
    /\ UNCHANGED <<phase, doomed, admitted, confirmed, refused>>

Confirm(b) ==
    /\ b \in admitted \ (confirmed \cup refused)
    /\ b \in box \/ doomed
    /\ confirmed' = confirmed \cup {b}
    /\ UNCHANGED <<phase, doomed, admitted, box, refused>>

\* The deletion need not come to all of them.
Discard ==
    /\ doomed
    /\ box' \in SUBSET box
    /\ UNCHANGED <<phase, doomed, admitted, confirmed, refused>>

Next ==
    \/ Open
    \/ Close
    \/ Doom
    \/ Discard
    \/ \E b \in Ballots : Admit(b) \/ Refuse(b) \/ Put(b) \/ Confirm(b)

Spec == Init /\ [][Next]_vars

===============================================================================
