------------------------------ MODULE PollForm ------------------------------
(***************************************************************************)
(* Who accepts a new poll: the form of pages/CreatePollPage.jsx before it  *)
(* sends one, and CreatePoll of poll_controller.go before it stores one.   *)
(*                                                                         *)
(* Both trim and fold what was typed, JavaScript one way and Go another:   *)
(* a text is a record of what each side makes of it, "" for nothing left.  *)
(* A question is a record of its lengths, since each side takes another:   *)
(* UTF-16 units in the form, runes in the binding and bytes in the handler.*)
(***************************************************************************)
EXTENDS Integers, Sequences

CONSTANTS
    MaxOptions,   \* most options of a poll: 10 in both programs
    Texts,        \* bound: what may be typed into an option
    Questions     \* bound: and into the question

Text(typed, form, server) == [typed |-> typed, form |-> form, server |-> server]
Question(units, runes, bytes) == [units |-> units, runes |-> runes, bytes |-> bytes]

\* An input nothing was typed into; its attribute "required" stops the form.
NoText == Text(FALSE, "", "")
NoQuestion == Question(0, 0, 0)

ASSUME PollFormAssumption ==
    /\ MaxOptions \in 2 .. 10
    /\ NoText \in Texts
    /\ NoQuestion \in Questions
    /\ Questions \subseteq [units : Nat, runes : Nat, bytes : Nat]

\* Every filled-in form within the bounds.
AllForms ==
    [question : Questions, options : UNION {[1 .. n -> Texts] : n \in 2 .. MaxOptions}]

NewForm == [question |-> NoQuestion, options |-> <<NoText, NoText>>]

\* The handlers of the form's buttons and inputs, on its options.
SetAt(options, i, text) == [options EXCEPT ![i] = text]
Added(options) == IF Len(options) >= MaxOptions THEN options ELSE Append(options, NoText)
Removed(options, i) ==
    IF Len(options) <= 2 THEN options
    ELSE SubSeq(options, 1, i - 1) \o SubSeq(options, i + 1, Len(options))

\* The options the form sends: those it trims to something, filtered by a function
\* that can be reasoned about.
KeptText(o) == o.form # ""
Body(options) ==
    LET sent[n \in 0 .. Len(options)] ==
            IF n = 0 THEN <<>>
            ELSE IF KeptText(options[n]) THEN Append(sent[n - 1], options[n])
            ELSE sent[n - 1]
    IN  sent[Len(options)]

\* A form that leaves duplicates to the server.
FormDistinct_Anything(options) == TRUE

FormDistinct(options) ==
    \A i, j \in 1 .. Len(options) : options[i].form = options[j].form => i = j

FormAccepts(form) ==
    /\ form.question.units >= 5
    /\ \A i \in 1 .. Len(form.options) : form.options[i].typed
    /\ Len(Body(form.options)) >= 2
    /\ FormDistinct(Body(form.options))

ServerAccepts(question, body) ==
    /\ question.runes \in 5 .. 500
    /\ question.bytes >= 5
    /\ Len(body) \in 2 .. MaxOptions
    /\ \A i \in 1 .. Len(body) : body[i].server # ""
    /\ \A i, j \in 1 .. Len(body) : body[i].server = body[j].server => i = j

-----------------------------------------------------------------------------
\* A question or an option that the two sides read differently.
ReadDifferently(question, body) ==
    \/ question.units # question.runes
    \/ question.units # question.bytes
    \/ question.units > 500
    \/ \E i \in 1 .. Len(body) : body[i].form # body[i].server
=============================================================================
