----------------------------- MODULE ReportForm -------------------------------
(***************************************************************************)
(* The form in which a member writes a daily report (report-form.tsx) and  *)
(* the handlers it calls: the draft saved two seconds after the last key,  *)
(* or at once when the page is hidden or left; the submission, which       *)
(* cancels that timer and carries the text itself; the reopening.          *)
(*                                                                         *)
(* Requests and answers pass each other on their way and may be lost. The  *)
(* form knows the status of the report by what it fetched last, and never  *)
(* takes the text back from the server. The text is the number of the last *)
(* key that was typed.                                                     *)
(***************************************************************************)
EXTENDS Integers, Bags

CONSTANTS
    MaxText,    \* bound of the keys typed
    MaxReopens, \* bound of the reopenings
    MaxLost,    \* bound of lost requests and answers
    MaxHides    \* bound of the times the page is hidden

ASSUME FormAssumption ==
    /\ MaxText \in Nat /\ MaxReopens \in Nat
    /\ MaxLost \in Nat /\ MaxHides \in Nat

VARIABLES
    text,       \* local: what the form shows
    dirty,      \* dirtyRef
    timer,      \* autosaveTimerRef is set
    open,       \* the form is mounted
    known,      \* the status of the report in the query cache
    stale,      \* a write was answered: the cache is to be fetched again
    submitting, \* isSubmitting
    told,       \* the last text whose loss the member was told of
    net,        \* requests on their way to the server
    answers,    \* answers on their way back
    status,     \* daily_reports.status
    stored,     \* the answers of the report
    submitted,  \* what the form showed when the accepted submission was sent
    arrived,    \* the last text that was ever stored
    unaware,    \* a submission was accepted and its answer lost
    reopens, lost, hides

form == <<text, dirty, timer, open, known, stale, submitting, told>>
server == <<status, stored, submitted, arrived>>
formBounds == <<unaware, reopens, lost, hides>>
formVars == <<form, net, answers, server, formBounds>>

Texts == 0 .. MaxText
EDITABLE == {"DRAFT", "REOPENED"}
Kinds == {"save", "submit", "reopen"}
\* `shown` is the text on the screen, `text` what the request carries of it.
Requests == [kind : Kinds, text : Texts, shown : Texts]
Answers == [kind : Kinds, shown : Texts, ok : BOOLEAN]

FormTypeOK ==
    /\ text \in Texts /\ told \in Texts /\ stored \in Texts
    /\ submitted \in Texts /\ arrived \in Texts
    /\ {dirty, timer, open, stale, unaware} \subseteq BOOLEAN
    /\ submitting \in {"no", "sent", "answered"}
    /\ {known, status} \subseteq EDITABLE \cup {"SUBMITTED"}
    /\ IsABag(net) /\ BagToSet(net) \subseteq Requests
    /\ IsABag(answers) /\ BagToSet(answers) \subseteq Answers
    /\ reopens \in 0 .. MaxReopens /\ lost \in 0 .. MaxLost
    /\ hides \in 0 .. MaxHides

FormInit ==
    /\ text = 0 /\ told = 0 /\ stored = 0 /\ submitted = 0 /\ arrived = 0
    /\ dirty = FALSE /\ timer = FALSE /\ open = TRUE /\ stale = FALSE /\ unaware = FALSE
    /\ submitting = "no"
    /\ known = "DRAFT" /\ status = "DRAFT"
    /\ net = EmptyBag /\ answers = EmptyBag
    /\ reopens = 0 /\ lost = 0 /\ hides = 0

readOnly == known \notin EDITABLE

Request(kind, payload) == [kind |-> kind, text |-> payload, shown |-> text]
Send(request) == net' = net (+) SetToBag({request})
Answer(request, ok) ==
    answers' = answers (+)
        SetToBag({[kind |-> request.kind, shown |-> request.shown, ok |-> ok]})
Latest(a, b) == IF a > b THEN a ELSE b

-----------------------------------------------------------------------------
(* Mistakes this code could have made.                                     *)

\* The submission counts on the draft that was saved, and carries no text.
SubmitPayload_None == 0

\* A draft is written whatever the status of the report.
ClaimEditable_Unchecked == TRUE

\* A failed submission says nothing.
IsTold_SavesOnly(answer) == ~answer.ok /\ answer.kind = "save"

-----------------------------------------------------------------------------
(* The form.                                                               *)

\* changeContent, and the effect that sets the timer again after every key.
\* The fields stay writable while a submission is on its way.
ChangeContent ==
    /\ open /\ ~readOnly
    /\ text < MaxText
    /\ text' = text + 1
    /\ dirty' = TRUE
    /\ timer' = TRUE
    /\ UNCHANGED <<open, known, stale, submitting, told, net, answers, server,
                   formBounds>>

Autosave ==
    /\ timer
    /\ timer' = FALSE
    /\ dirty' = FALSE
    /\ Send(Request("save", text))
    /\ UNCHANGED <<text, open, known, stale, submitting, told, answers, server,
                   formBounds>>

\* flushRef. It leaves the timer alone.
Flush ==
    IF readOnly \/ ~dirty
    THEN UNCHANGED <<dirty, net>>
    ELSE /\ dirty' = FALSE
         /\ Send(Request("save", text))

Hide ==
    /\ open
    /\ hides < MaxHides
    /\ hides' = hides + 1
    /\ Flush
    /\ UNCHANGED <<text, timer, open, known, stale, submitting, told, answers,
                   server, unaware, reopens, lost>>

Leave ==
    /\ open
    /\ open' = FALSE
    /\ timer' = FALSE
    /\ Flush
    /\ UNCHANGED <<text, known, stale, submitting, told, answers, server,
                   formBounds>>

SubmitPayload == text

\* cancelAutosave, submitReport.
HandleSubmit ==
    /\ open /\ ~readOnly /\ submitting = "no"
    /\ timer' = FALSE
    /\ dirty' = FALSE
    /\ submitting' = "sent"
    /\ Send(Request("submit", SubmitPayload))
    /\ UNCHANGED <<text, open, known, stale, told, answers, server, formBounds>>

HandleReopen ==
    /\ open /\ readOnly
    /\ reopens < MaxReopens
    /\ reopens' = reopens + 1
    /\ Send(Request("reopen", 0))
    /\ UNCHANGED <<form, answers, server, unaware, lost, hides>>

\* onError of the save and of the submission; that of the reopening says nothing
\* of the text.
IsTold(answer) == ~answer.ok /\ answer.kind # "reopen"

\* An answer that is an error is shown; any other one makes the queries stale
\* (invalidateAfterWrite), and a submission stays pending until they are
\* fetched again.
Receive ==
    /\ \E answer \in BagToSet(answers) :
        /\ answers' = answers (-) SetToBag({answer})
        /\ told' = IF IsTold(answer) THEN Latest(told, answer.shown) ELSE told
        /\ stale' = (stale \/ answer.ok)
        /\ submitting' =
             IF answer.kind # "submit" THEN submitting
             ELSE IF answer.ok THEN "answered" ELSE "no"
    /\ UNCHANGED <<text, dirty, timer, open, known, net, server, formBounds>>

\* The effect runs again when readOnly changes.
Refetch ==
    /\ stale
    /\ stale' = FALSE
    /\ submitting' = IF submitting = "answered" THEN "no" ELSE submitting
    /\ known' = status
    /\ timer' = IF readOnly = readOnly' THEN timer ELSE open /\ ~readOnly' /\ dirty
    /\ UNCHANGED <<text, dirty, open, told, net, answers, server, formBounds>>

-----------------------------------------------------------------------------
(* The server.                                                             *)

ClaimEditable == status \in EDITABLE

Store(payload) ==
    /\ stored' = payload
    /\ arrived' = Latest(arrived, payload)

\* saveAnswers
SaveAnswers(request) ==
    /\ request.kind = "save"
    /\ IF ClaimEditable THEN Store(request.text) ELSE UNCHANGED <<stored, arrived>>
    /\ Answer(request, ClaimEditable)
    /\ UNCHANGED <<status, submitted>>

\* submit: a report that is submitted is answered as it is.
Submit(request) ==
    /\ request.kind = "submit"
    /\ IF status \in EDITABLE
       THEN /\ status' = "SUBMITTED"
            /\ submitted' = request.shown
            /\ Store(request.text)
       ELSE UNCHANGED server
    /\ Answer(request, TRUE)

\* reopen, by the owner within the day
Reopen(request) ==
    /\ request.kind = "reopen"
    /\ status' = IF status = "SUBMITTED" THEN "REOPENED" ELSE status
    /\ Answer(request, status = "SUBMITTED")
    /\ UNCHANGED <<stored, submitted, arrived>>

Handle ==
    /\ \E request \in BagToSet(net) :
        /\ net' = net (-) SetToBag({request})
        /\ SaveAnswers(request) \/ Submit(request) \/ Reopen(request)
    /\ UNCHANGED <<form, formBounds>>

\* A request, or the answer to it, is lost: the form takes it for refused.
LoseRequest ==
    /\ lost < MaxLost
    /\ lost' = lost + 1
    /\ \E request \in BagToSet(net) :
        /\ net' = net (-) SetToBag({request})
        /\ Answer(request, FALSE)
    /\ UNCHANGED <<form, server, unaware, reopens, hides>>

LoseAnswer ==
    /\ lost < MaxLost
    /\ lost' = lost + 1
    /\ \E answer \in BagToSet(answers) :
        /\ answer.ok
        /\ answers' = (answers (-) SetToBag({answer}))
                        (+) SetToBag({[answer EXCEPT !.ok = FALSE]})
        /\ unaware' = (unaware \/ answer.kind = "submit")
    /\ UNCHANGED <<form, net, server, reopens, hides>>

FormNext ==
    \/ ChangeContent \/ Autosave \/ Hide \/ Leave \/ HandleSubmit \/ HandleReopen
    \/ Receive \/ Refetch
    \/ Handle \/ LoseRequest \/ LoseAnswer

FormSpec == FormInit /\ [][FormNext]_formVars

\* The timer fires, what was sent is handled, and its answer is received.
FormFairSpec ==
    FormSpec /\ WF_formVars(Autosave) /\ WF_formVars(Handle) /\ WF_formVars(Receive)

-----------------------------------------------------------------------------
(* Properties.                                                             *)

\* A submitted report holds what its member had on the screen when submitting:
\* no draft that was on its way gets in after it, and the draft the submission
\* cancels is not missing ("Không mất chữ", cancelAutosave).
SubmittedAsShown == status = "SUBMITTED" => stored = submitted

\* Every text that is typed is stored at some time, or a later one is, or the
\* member is told that it was not: also when the page is hidden or left at
\* once, or the submission that cancels its timer fails. Two holes are left
\* out: the form that turns read-only before the timer fires, and a submission
\* that was accepted without the member knowing, after which a second one is
\* answered as if it had been stored.
TextArrives ==
    \A t \in 1 .. MaxText :
        open /\ dirty /\ text = t ~>
            arrived >= t \/ told >= t \/ readOnly \/ unaware

=============================================================================
