---------------------------- MODULE MCJobSeeker ----------------------------
(***************************************************************************)
(* The two halves of the JobSeeker, one beside the other: a behaviour      *)
(* follows the runner and its workers (JobSeeker), or the worker's work on *)
(* one form (EasyApply), which the other half knows by its outcome only.   *)
(* They share no variable, so each half is checked in full.                *)
(***************************************************************************)
EXTENDS JobSeeker

CONSTANTS Questions, Contact, Worded, Known, Blank, Unfit, Forms, Shared, MaxSteps

VARIABLES part, form, page, value, ticked, resume, gaps, open, unread, sent, steps, formPc, outcome

Apply == INSTANCE EasyApply WITH pc <- formPc

formVars == <<form, page, value, ticked, resume, gaps, open, unread, sent, steps, formPc, outcome>>
allVars == <<part, vars, formVars>>

ASSUME FormAssumption == Apply!Sound

----------------------------------------------------------------------------
(* Settings: the lists overlap.                                            *)

Four == 1..4

Overlap(n) == [l \in Labels |-> IF l = "SRE" THEN 2..n ELSE 1..n]

\* Every fault, over two days; one day of large lists with nothing lost; batches
\* of one, which a blocked record fills every round, and a page that is silent.
AllSettings ==
  {[jobsOf |-> Overlap(2), silent |-> {}, limit |-> 1, batch |-> 2, rounds |-> 2,
    faults |-> AllFaults, days |-> 2],
   [jobsOf |-> Overlap(4), silent |-> {}, limit |-> 3, batch |-> 3, rounds |-> 2,
    faults |-> {"exception", "login", "extraction"}, days |-> 1],
   [jobsOf |-> Overlap(3), silent |-> {3}, limit |-> 2, batch |-> 1, rounds |-> 2,
    faults |-> {"lists", "kill", "limit"}, days |-> 1]}

----------------------------------------------------------------------------
(* Forms.                                                                  *)

Ask(q, kind, need, fits) == [ask |-> q, need |-> need, kind |-> kind, fits |-> fits]
Sheet(controls, shows, box, submit) ==
  [controls |-> controls, shows |-> shows, box |-> box, submit |-> submit]

ReviewPage == Sheet(<<>>, "chosen", "follow", TRUE)

\* Questions that are to be answered, are blank, unfit, unknown, read for a contact's,
\* or a box to tick.
Others ==
  {Ask(q, "text", need, TRUE) : q \in {"memo", "visit", "odd"}, need \in BOOLEAN}
  \cup {Ask("odd", "check", TRUE, TRUE), Ask("state", "text", TRUE, TRUE), Ask("state", "select", TRUE, TRUE)}

\* Pages with questions in every order, a resume step, a review page.
ReviewedForms ==
  {<<Sheet(<<Ask("phone", "text", TRUE, TRUE), years, other, Ask("visa", "radio", TRUE, fits)>>, "none", box, FALSE),
     Sheet(<<>>, shows, "none", FALSE), ReviewPage>> :
     years \in {Ask("years", kind, TRUE, offers) : kind \in {"select", "bare"}, offers \in BOOLEAN},
     other \in Others, fits \in BOOLEAN, box \in {"ack", "none"}, shows \in {"list", "others"}}

\* All that is asked on the page that is sent.
OnePageForms ==
  {<<Sheet(<<Ask(q, "text", TRUE, TRUE)>>, "list", "follow", TRUE)>> : q \in {"years", "odd"}}

AllForms == ReviewedForms \cup OnePageForms

----------------------------------------------------------------------------
MCInit ==
  /\ part \in {"runner", "form"} /\ Init /\ Apply!Init
  /\ part = "runner" => form = CHOOSE f \in Forms : TRUE
  /\ part = "form" => setting = CHOOSE s \in Settings : TRUE

Half(name, step, others) == part = name /\ step /\ UNCHANGED <<part, others>>

MCNext ==
  \/ Half("runner", Next, formVars)
  \/ Half("form", Apply!Next, vars)
  \/ Half("form", formPc = "done" /\ UNCHANGED formVars, vars)

MCSpec == MCInit /\ [][MCNext]_allVars

----------------------------------------------------------------------------
(* The properties of EasyApply, by their names there.                      *)

\* No control holds the answer to another question.
AnswersMatch == Apply!AnswersMatch

\* Nothing is sent with an unknown question or without the expected resume.
SubmitsAsPromised == Apply!SubmitsAsPromised
=============================================================================
