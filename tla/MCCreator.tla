------------------------------ MODULE MCCreator ------------------------------
(* A few texts and questions the two sides of the validation may differ on,  *)
(* and the forms that lead from the new one to each outcome.                 *)
EXTENDS Creator

Plain(t) == Text(TRUE, t, t)
DottedI == Text(TRUE, "i with dot", "i")
NextLine == Text(TRUE, "next line", "")
SomeTexts == {NoText, Plain(""), Plain("i"), Plain("go"), DottedI, NextLine}

Asked == Question(8, 8, 8)
Emoji == Question(6, 3, 12)
SomeQuestions ==
    {NoQuestion, Asked, Emoji, Question(4, 4, 4), Question(5, 5, 5), Question(5, 5, 4),
     Question(500, 500, 500), Question(501, 501, 501)}

ExampleForm == [question |-> Asked, options |-> <<Plain("i"), Plain("go")>>]

FewForms ==
    {NewForm, ExampleForm, [ExampleForm EXCEPT !.options = <<Plain("i"), DottedI>>]}

\* Two actions on a poll; two submissions; every form.
SomeScopes ==
    <<[old |-> 1, all |-> 1, fetches |-> 2, acts |-> 2, forms |-> {NewForm}],
     [old |-> 0, all |-> 2, fetches |-> 1, acts |-> 0, forms |-> FewForms],
     [old |-> 0, all |-> 1, fetches |-> 0, acts |-> 0, forms |-> AllForms]>>
=============================================================================
