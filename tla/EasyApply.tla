----------------------------- MODULE EasyApply -----------------------------
(***************************************************************************)
(* One Easy Apply form, as process_record in services/JobSeeker/scripts/   *)
(* linkedin_worker.py works through it: at most MaxSteps times it looks at  *)
(* the page, submits if there is a Submit button, else chooses the resume,  *)
(* answers the required questions it has answers for, one after the other, *)
(* and clicks Next.                                                        *)
(*                                                                         *)
(* A form is a sequence of pages.  The answer to a question is written as  *)
(* the question itself: a control that holds q was given the answer to q.  *)
(***************************************************************************)
EXTENDS Integers, Sequences, FiniteSetsExt

CONSTANTS
  Questions,
  Contact,    \* those fill_contact_defaults writes the answer to: telephone, email
  Worded,     \* others whose label has one of its words: "Please state ...", a
              \* list of cities, of which it takes the first
  Known,      \* those qa_match has an answer to
  Blank,      \* those whose answer in qa.json is empty
  Unfit,      \* in-person interviews, identity checks
  Forms,      \* the forms LinkedIn may show
  Shared,     \* do a control's ancestors span the neighbours' labels, or one
              \* question's text another's?
  MaxSteps    \* 15

\* bare: a list of options whose empty one does not say "Select an option"; check:
\* a checkbox other than those of "box" below.
Kinds == {"text", "select", "bare", "radio", "check"}
Empty == "empty"  \* what a control without an answer holds
Default == "default"  \* what fill_contact_defaults writes where it does not belong

\* fits: does a list or a radio group offer the answer?
Control == [ask : Questions, need : BOOLEAN, kind : Kinds, fits : BOOLEAN]

\* shows: a list of resumes with or without the expected one, the chosen one
\* only, or none; box: a checkbox to acknowledge or to follow the company.
FormPage == [controls : Seq(Control), shows : {"list", "others", "chosen", "none"},
             box : {"ack", "follow", "none"}, submit : BOOLEAN]

IsForm(f) ==
  f \in Seq(FormPage) /\ f # <<>> /\ \A n \in 1..Len(f) : f[n].submit <=> n = Len(f)

Sound ==
  MaxSteps \in Nat /\ Questions \cap {Empty, Default} = {} /\ \A f \in Forms : IsForm(f)

VARIABLES
  form, page,  \* the form and the page it shows
  value,       \* what each control holds
  ticked,      \* the pages whose checkbox is ticked
  resume,      \* the resume LinkedIn has selected: expected or another?
  gaps, open,  \* questions still to be answered, and those left unresolved
  unread,      \* pages whose questions could not be read the last time before
               \* the form was sent
  sent,        \* does LinkedIn have the application?
  steps,       \* rounds of the loop
  pc,
  outcome

asked == <<gaps, open, unread>>
vars == <<form, page, value, ticked, resume, asked, sent, steps, pc, outcome>>

----------------------------------------------------------------------------
\* applied: the page says that LinkedIn has the application, which the caller may
\* count as a success; error: an exception.
Outcomes == {"none", "sent", "unconfirmed", "applied", "resume", "question", "unfit", "stuck",
             "stopped", "error"}

\* Types; there are at most MaxSteps rounds, and an outcome at the end only.
TypeOK ==
  /\ form \in Forms /\ page \in 1..Len(form)
  /\ DOMAIN value = 1..Len(form)
  /\ \A n \in 1..Len(form) :
       /\ DOMAIN value[n] = 1..Len(form[n].controls)
       /\ \A c \in DOMAIN value[n] : value[n][c] \in Questions \cup {Empty, Default}
  /\ ticked \subseteq 1..Len(form) /\ resume \in {"expected", "other"}
  /\ gaps \subseteq 1..Len(form[page].controls) /\ (pc \notin {"fill", "done"} => gaps = {})
  /\ open \subseteq Questions /\ unread \subseteq 1..Len(form) /\ sent \in BOOLEAN
  /\ steps \in 0..MaxSteps /\ pc \in {"step", "review", "resume", "answer", "fill", "next", "done"}
  /\ outcome \in Outcomes /\ (outcome = "none" <=> pc # "done")

Init ==
  /\ form \in Forms /\ page = 1
  /\ value = [n \in 1..Len(form) |-> [c \in 1..Len(form[n].controls) |-> Empty]]
  /\ ticked = {n \in 1..Len(form) : form[n].box = "follow"}
  /\ resume = "other" /\ gaps = {} /\ open = {} /\ unread = {} /\ sent = FALSE /\ steps = 0 /\ pc = "step" /\ outcome = "none"

Page == form[page]
Controls == Page.controls
Held == value[page]

End(result) == pc' = "done" /\ outcome' = result
GoTo(label) == pc' = label /\ UNCHANGED outcome

----------------------------------------------------------------------------
\* The required controls without a value.
Missing(n) == {c \in 1..Len(form[n].controls) : form[n].controls[c].need /\ value[n][c] = Empty}

\* visible_required_questions: an unticked checkbox has a value like any other.
Gaps(n) == {c \in Missing(n) : form[n].controls[c].kind # "check"}

\* for _ in range(15)
StepsLeft == steps < MaxSteps

\* The controls fill_contact_defaults may write to, by their labels.
Named(n) ==
  {c \in 1..Len(form[n].controls) : /\ form[n].controls[c].kind \notin {"radio", "check"}
                                    /\ form[n].controls[c].ask \in Contact \cup Worded \/ Shared}

\* The top of the loop: fill_contact_defaults sets those it finds, whatever they
\* held, then the page is searched for a Submit button; its text may not be read.
LookAtPage ==
  /\ pc = "step" /\ StepsLeft
  /\ steps' = IF steps <= MaxSteps THEN steps + 1 ELSE steps  \* a bound
  /\ \E found \in SUBSET Named(page) :
       value' = [value EXCEPT ![page] = [c \in 1..Len(Controls) |->
                   CASE c \notin found -> Held[c]
                     [] c \in found /\ ~Shared /\ Controls[c].ask \in Contact -> Controls[c].ask
                     [] OTHER -> Default]]
  /\ GoTo("resume") \/ (Page.submit /\ GoTo("review"))
  /\ UNCHANGED <<form, page, ticked, resume, asked, sent>>

\* The texts the loop looks for first: limits, captchas, jobs that are closed or
\* applied for elsewhere; and "application submitted", "already applied".
MeetStop ==
  /\ pc = "step" /\ StepsLeft /\ (End("stopped") \/ End("applied"))
  /\ UNCHANGED <<form, page, value, ticked, resume, asked, sent, steps>>

\* What may be read of a page's questions: all, or after an exception none.
Readings(n) == {Gaps(n), {}}

StepLimit ==
  /\ pc = "step" /\ ~StepsLeft
  /\ \E remaining \in Readings(page) : End(IF remaining # {} THEN "question" ELSE "stuck")
  /\ UNCHANGED <<form, page, value, ticked, resume, asked, sent, steps>>

\* LinkedIn lets go of a complete page, and may let go of another.
Complete == Missing(page) = {} /\ (Page.box = "ack" => page \in ticked)

\* expected_resume in text
ShowsExpected == Page.shows = "list" \/ (Page.shows # "none" /\ resume = "expected")

\* The branch of a page with a Submit button: every ticked box is unticked, if
\* that works, then the click.  It is confirmed, or it is not, or no button took
\* it; in both cases LinkedIn may have the application.
SubmitOr(otherwise) ==
  IF ~ShowsExpected
  THEN End("resume") /\ UNCHANGED <<ticked, sent>>
  ELSE /\ ticked' \in {ticked, ticked \ {page}}
       /\ \/ End("sent") /\ sent' = TRUE
          \/ (End("unconfirmed") \/ otherwise) /\ sent' \in {sent, TRUE}

Review ==
  /\ pc = "review" /\ SubmitOr(GoTo("resume"))
  /\ UNCHANGED <<form, page, value, resume, asked, steps>>

\* select_resume: a name on the page counts as selected, also if the click on
\* it fails; else the file is uploaded, and "uploaded" anywhere on the page
\* counts as success.
SelectResume ==
  /\ pc = "resume"
  /\ \/ Page.shows = "none" /\ GoTo("answer") /\ UNCHANGED resume
     \/ Page.shows # "none" /\ GoTo("answer") /\ resume' \in {resume, "expected"}
     \/ Page.shows # "none" /\ End("resume") /\ UNCHANGED resume
  /\ UNCHANGED <<form, page, value, ticked, asked, sent, steps>>

\* The required acknowledgement, if its box is found, then the list of questions.
Answer ==
  /\ pc = "answer" /\ GoTo("fill")
  /\ ticked' \in IF Page.box = "ack" THEN {ticked, ticked \cup {page}} ELSE {ticked}
  /\ gaps' \in Readings(page) /\ open' = {}
  /\ unread' = CASE sent -> unread
                 [] ~sent /\ gaps' = Gaps(page) -> unread \ {page}
                 [] OTHER -> unread \cup {page}
  /\ UNCHANGED <<form, page, value, resume, sent, steps>>

\* In the order of the page, the radio groups last.
Before(c, d) ==
  LET radio(e) == Controls[e].kind = "radio"
  IN IF radio(c) = radio(d) THEN c < d ELSE radio(d)

\* The controls an answer can be written to: a list only if its empty option says so.
Fillable == {c \in 1..Len(Controls) : Held[c] = Empty /\ Controls[c].kind \in {"text", "select"}}

\* Mutant: the first of them, whatever its label.
FieldForFirst(q) == Fillable

\* The radio group that has the question and its answer; else those of the empty
\* controls whose ancestors' text has the question; else any of them.
FieldFor(q) ==
  LET has(c) == Shared \/ Controls[c].ask = q
      group == {c \in 1..Len(Controls) : Controls[c].kind = "radio" /\ has(c) /\ Controls[c].fits}
      labelled == {c \in Fillable : has(c)}
  IN IF group # {} THEN group ELSE IF labelled # {} THEN labelled ELSE Fillable

\* Does a list offer the answer?  That of another question may, too.
Offers(c, q) ==
  CASE Controls[c].kind # "select" -> {TRUE}
    [] Controls[c].kind = "select" /\ Controls[c].ask = q -> {Controls[c].fits}
    [] OTHER -> BOOLEAN

\* One question of fill_known_required_fields.
FillQuestion(c) ==
  /\ pc = "fill" /\ \A d \in gaps \ {c} : Before(c, d)
  /\ gaps' = gaps \ {c}
  /\ LET q == Controls[c].ask
         fields == FieldFor(q)
     IN \/ q \in Blank /\ UNCHANGED <<value, open>>
        \/ /\ q \in Known \ Blank /\ fields # {} /\ TRUE \in Offers(Min(fields), q)
           /\ value' = [value EXCEPT ![page][Min(fields)] = q] /\ UNCHANGED open
        \/ /\ q \notin Blank
           /\ q \in Known /\ fields # {} => FALSE \in Offers(Min(fields), q)
           /\ open' = open \cup {q} /\ UNCHANGED value
  /\ UNCHANGED <<form, page, ticked, resume, unread, sent, steps, pc, outcome>>

\* Mutant: what is left open is left to LinkedIn.
LeftOpenNone == {}

\* return not unresolved, unresolved
LeftOpen == open

EndAnswers ==
  /\ pc = "fill" /\ gaps = {}
  /\ IF LeftOpen = {} THEN GoTo("next")
     ELSE End(IF LeftOpen \cap Unfit # {} THEN "unfit" ELSE "question")
  /\ UNCHANGED <<form, page, value, ticked, resume, asked, sent, steps>>

\* Next; on a page with Submit, which has no such button, the second look for
\* Submit; and else nothing to do.
ClickNext ==
  /\ pc = "next"
  /\ \/ End("stuck") /\ UNCHANGED <<page, ticked, sent>>
     \/ Page.submit /\ SubmitOr(End("stuck")) /\ UNCHANGED page
     \/ ~Page.submit /\ GoTo("step") /\ page' = page + 1 /\ UNCHANGED <<ticked, sent>>
     \/ ~Page.submit /\ ~Complete /\ GoTo("step") /\ UNCHANGED <<page, ticked, sent>>
  /\ UNCHANGED <<form, value, resume, asked, steps>>

\* What is not in a try ends the job with an exception.
Raise ==
  /\ pc # "done" /\ End("error")
  /\ UNCHANGED <<form, page, value, ticked, resume, asked, sent, steps>>

Next ==
  \/ LookAtPage \/ MeetStop \/ StepLimit \/ Raise
  \/ Review \/ SelectResume \/ Answer \/ (\E c \in gaps : FillQuestion(c)) \/ EndAnswers \/ ClickNext

Spec == Init /\ [][Next]_vars

----------------------------------------------------------------------------
(* Properties.                                                             *)

\* Each question has a place of its own: neighbours' labels are not a control's, no
\* label has a word of fill_contact_defaults that is not meant, the required lists
\* have an option that says they are empty, and radio groups offer the answer.
\* Where it does not, an answer goes to another control.
OwnPlaces ==
  /\ ~Shared
  /\ \A n \in 1..Len(form) : \A c \in 1..Len(form[n].controls) :
       LET control == form[n].controls[c]
       IN /\ c \in Named(n) => control.ask \in Contact
          /\ ~(control.kind = "bare" /\ control.need)
          /\ control.kind = "radio" => control.fits

\* No control holds the answer to another question, however the gaps of a page
\* are filled ("caused wrong answers to be applied", linkedin_worker.py:254), if
\* each question has a place of its own.
AnswersMatch ==
  OwnPlaces => \A n \in 1..Len(form) : \A c \in 1..Len(form[n].controls) :
                 value[n][c] \in {Empty, form[n].controls[c].ask}

\* A required question to which nothing gives an answer.
Unknown(q) == q.need /\ q.kind # "check" /\ q.ask \notin Known \cup Blank \cup Contact

\* The page with Submit comes after the questions and the list of resumes; else
\* it is submitted before either is looked at.
Reviewed ==
  /\ form[Len(form)].shows # "list"
  /\ \A c \in 1..Len(form[Len(form)].controls) : ~Unknown(form[Len(form)].controls[c])

\* "it never submits if an unknown required question remains"
\* (linkedin_worker.py:16): no such question is left empty on any page, though
\* LinkedIn might let it pass; but for checkboxes, and for pages whose questions
\* could not be read.
NeverSubmitsUnknown ==
  sent => \A n \in (1..Len(form)) \ unread : \A c \in 1..Len(form[n].controls) :
            Unknown(form[n].controls[c]) => value[n][c] # Empty

\* "Select or upload the exact expected resume" (linkedin_worker.py:384): what is
\* sent has it, though clicks and uploads fail without a word.
SentWithExpected == sent => resume = "expected"

\* "never submits if an unknown required question remains", and only with the
\* expected resume: what the module promises of whatever LinkedIn gets after a
\* review, whether the worker knows of it or not.
SubmitsAsPromised == Reviewed => NeverSubmitsUnknown /\ SentWithExpected
=============================================================================
