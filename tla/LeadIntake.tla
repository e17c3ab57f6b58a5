----------------------------- MODULE LeadIntake -----------------------------
(***************************************************************************)
(* How one person becomes a lead: the readiness assessment (autosaved      *)
(* drafts, submissions signed in or as a guest), a webinar registration,   *)
(* the public intake form, the Wix form, and staff moving the lead on.     *)
(* Every request reads rows, decides, and writes them by id; a transaction *)
(* at READ COMMITTED does not change that.  `old` in a request names the   *)
(* tables it has read and others have written since.                       *)
(***************************************************************************)
EXTENDS Naturals, Sequences

CONSTANTS
  Answers,      \* what may be answered; a score is a function of the answers
  Columns,      \* what a visit may say of its campaign: UTM fields, landing page
  LeadColumns,  \* those a lead has as well
  Values,       \* what a column may hold
  Touches,      \* the attributions visits carry
  Requests,     \* requests in flight at once
  MaxRequests,  \* bound: requests begun
  None

ASSUME IntakeAssumption ==
  /\ None \notin Answers \cup Values
  /\ LeadColumns \subseteq Columns
  /\ Touches \subseteq [Columns -> Values \cup {None}]
  /\ MaxRequests \in Nat

PreScoring == {"NEW"}     \* NEW to INTAKE_COMPLETED
Statuses == PreScoring \cup {"SCORING_DONE", "QUALIFIED", "NURTURE"}
Reusers == {"SCORECARD", "WEBINAR"}
Tables == {"draft", "contact", "lead"}

VARIABLES
  assessment,  \* scorecard_submissions, in order of creation
  contact,     \* the contact with the person's e-mail: exists, linked to the user
  lead,        \* leads of that contact, in order of creation
  account,     \* a user with the e-mail exists
  registered,  \* the webinar registration exists
  wix,         \* the lead of the Wix submission exists
  enrolled,    \* leads whose case was created on QUALIFIED
  undoable,    \* the last status change by hand
  req,         \* request-local
  begun

intakeVars ==
  <<assessment, contact, lead, account, registered, wix, enrolled, undoable, req, begun>>
people == <<contact, account, registered, wix, enrolled, undoable>>

Untouched == [c \in Columns |-> None]
Visits == Touches \cup {Untouched}
NoRequest == [op |-> "none", at |-> "idle", answers |-> None, touch |-> Untouched, row |-> 0,
         contact |-> FALSE, lead |-> 0, seen |-> None, status |-> None, read |-> {}, old |-> {}]
NoChange == [lead |-> 0, from |-> None, undo |-> FALSE]

IntakeInit ==
  /\ assessment = <<>> /\ lead = <<>>
  /\ contact = [made |-> FALSE, linked |-> FALSE]
  /\ account \in BOOLEAN
  /\ registered = FALSE /\ wix = FALSE
  /\ enrolled = {} /\ undoable = NoChange
  /\ req = [r \in Requests |-> NoRequest]
  /\ begun = 0

-----------------------------------------------------------------------------
\* Requests.

BeginRequest(r, local) ==
  /\ req[r].at = "idle" /\ begun < MaxRequests
  /\ begun' = begun + 1
  /\ req' = [req EXCEPT ![r] = local]
  /\ UNCHANGED <<assessment, lead, people>>

\* Request r goes on; what it writes makes the other requests' reads old.
Proceed(r, local, written) ==
  req' = [q \in Requests |->
       IF q = r THEN local ELSE [req[q] EXCEPT !.old = @ \cup (req[q].read \cap written)]]
Fail(r) ==
  req' = [req EXCEPT ![r] = NoRequest] /\ UNCHANGED <<assessment, lead, people, begun>>
Reading(r, local, tables) == [local EXCEPT !.read = @ \cup tables]

Is(r, op, at) == req[r].op = op /\ req[r].at = at

-----------------------------------------------------------------------------
\* Rows and rules.

\* Mutant: the isDraft filter is lost.
DraftsAndMore == DOMAIN assessment
Drafts == {d \in DOMAIN assessment: assessment[d].draft}
Latest(rows) == IF rows = {} THEN 0 ELSE CHOOSE d \in rows: \A e \in rows: e <= d

\* Mutant: a submission always makes a lead of its own.
LeadToReuseNever == 0
LeadToReuse == Len(lead)

\* On a lead the first attribution wins column by column.  Mutant: the last does.
FirstTouchLast(before, now) ==
  [c \in LeadColumns |-> IF now[c] # None THEN now[c] ELSE before[c]]
FirstTouch(before, now) ==
  [c \in LeadColumns |-> IF before[c] # None THEN before[c] ELSE now[c]]

\* shouldAdvanceLeadStatusToScoringDone.  Mutant: every submission re-opens the lead.
AdvancedAlways(status) == "SCORING_DONE"
Advanced(status) == IF status \in PreScoring THEN "SCORING_DONE" ELSE status

\* The guard of saveDraft's second write.
TouchFree(d) == assessment[d].touch = Untouched

\* isValidTransition, the states before scoring taken as one.
ValidTransitions ==
  [NEW |-> {"SCORING_DONE"}, SCORING_DONE |-> {"QUALIFIED", "NURTURE"},
   QUALIFIED |-> {}, NURTURE |-> {"NEW", "QUALIFIED"}]

NewLead(status, touch, source) ==
  [status |-> status, touch |-> [c \in LeadColumns |-> touch[c]], source |-> source]

-----------------------------------------------------------------------------
\* POST /scorecard/draft: look for the open draft, then write it by id.

SaveDraft(r, a, t) ==
  /\ account
  /\ \E d \in IF Drafts = {} THEN {0} ELSE Drafts:
       BeginRequest(r, Reading(r, [NoRequest EXCEPT !.op = "draft", !.at = "write", !.answers = a,
                                        !.touch = t, !.row = d], {"draft"}))

DraftWrite(r) ==
  LET d == req[r].row IN
  /\ Is(r, "draft", "write")
  /\ assessment' = IF d = 0
            THEN Append(assessment, [draft |-> TRUE, answers |-> req[r].answers, scored |-> None,
                              touch |-> req[r].touch, lead |-> 0])
            ELSE [assessment EXCEPT ![d].answers = req[r].answers]
  /\ Proceed(r, IF d = 0 \/ req[r].touch = Untouched THEN NoRequest ELSE [req[r] EXCEPT !.at = "touch"],
             {"draft"})
  /\ UNCHANGED <<lead, people, begun>>

\* The attribution of an existing draft, set once, in a statement of its own.
DraftTouch(r) ==
  LET d == req[r].row IN
  /\ Is(r, "draft", "touch")
  /\ assessment' = IF TouchFree(d) THEN [assessment EXCEPT ![d].touch = req[r].touch] ELSE assessment
  /\ Proceed(r, NoRequest, IF TouchFree(d) THEN {"draft"} ELSE {})
  /\ UNCHANGED <<lead, people, begun>>

-----------------------------------------------------------------------------
\* Submission, signed in or by e-mail.

Submission(a, t, at) == [NoRequest EXCEPT !.op = "submit", !.at = at, !.answers = a, !.touch = t]

Submit(r, a, t) == account /\ BeginRequest(r, Submission(a, t, "begin"))

\* submitScorecardPublic: an account is looked for ...
SubmitPublic(r, a, t) == BeginRequest(r, Submission(a, t, IF account THEN "begin" ELSE "account"))

\* ... and created, or another request has created it: then the guest is told
\* that the account exists and nothing is recorded.
CreateAccount(r) ==
  /\ Is(r, "submit", "account")
  /\ \/ account /\ Fail(r)
     \/ /\ ~account
        /\ account' = TRUE
        /\ req' = [req EXCEPT ![r].at = "begin"]
        /\ UNCHANGED <<assessment, contact, lead, registered, wix, enrolled, undoable, begun>>

\* submitScorecard reads the latest open draft, whose attribution wins as a whole ...
SubmitRead(r) ==
  LET d == Latest(Drafts) IN
  /\ Is(r, "submit", "begin")
  /\ req' = [req EXCEPT ![r] = Reading(r, [req[r] EXCEPT
       !.at = "tx", !.row = d,
       !.touch = IF d = 0 \/ TouchFree(d) THEN @ ELSE assessment[d].touch], {"draft"})]
  /\ UNCHANGED <<assessment, lead, people, begun>>

\* ... and, in the transaction, the contact and its latest lead.
ReadLead(r) ==
  /\ req[r].at = "tx"
  /\ req' = [req EXCEPT ![r] = Reading(r, [req[r] EXCEPT
       !.at = "commit", !.contact = contact.made, !.lead = LeadToReuse,
       !.seen = IF LeadToReuse = 0 THEN None ELSE lead[LeadToReuse]], {"contact", "lead"})]
  /\ UNCHANGED <<assessment, lead, people, begun>>

\* The transaction creates the contact it did not see; the unique e-mail lets
\* one of two do so and aborts the other.
ContactClash(r) == contact.made /\ ~req[r].contact

Abort(r) == req[r].at = "commit" /\ ContactClash(r) /\ Fail(r)

\* The submission graduates from the draft, or is a new row; the lead read
\* before is overwritten, its status included, or one is created.
SubmitCommit(r) ==
  LET d    == req[r].row
      l    == req[r].lead
      seen == req[r].seen
      mine == IF l = 0 THEN Len(lead) + 1 ELSE l
      done == [draft |-> FALSE, answers |-> req[r].answers, scored |-> req[r].answers,
               touch |-> req[r].touch, lead |-> mine]
  IN  /\ Is(r, "submit", "commit") /\ ~ContactClash(r)
      /\ contact' = [contact EXCEPT !.made = TRUE]
      /\ lead' = IF l = 0 THEN Append(lead, NewLead("SCORING_DONE", req[r].touch, "SCORECARD"))
                 ELSE [lead EXCEPT ![l].status = Advanced(seen.status),
                                   ![l].touch = FirstTouch(seen.touch, req[r].touch)]
      /\ assessment' = IF d = 0 THEN Append(assessment, done) ELSE [assessment EXCEPT ![d] = done]
      /\ Proceed(r, NoRequest, {"draft", "lead"} \cup (IF contact.made THEN {} ELSE {"contact"}))
      /\ UNCHANGED <<account, registered, wix, enrolled, undoable, begun>>

-----------------------------------------------------------------------------
\* The other ways in.

\* WebinarsService.register: reuse or create, and the status is left alone.
Register(r, t) ==
  /\ ~registered
  /\ BeginRequest(r, [NoRequest EXCEPT !.op = "webinar", !.at = "tx", !.touch = t])

RegisterCommit(r) ==
  LET l == req[r].lead IN
  /\ Is(r, "webinar", "commit") /\ ~ContactClash(r)
  /\ IF registered THEN Fail(r)
     ELSE /\ registered' = TRUE
          /\ contact' = [contact EXCEPT !.made = TRUE]
          /\ lead' = IF l = 0 THEN Append(lead, NewLead("NEW", req[r].touch, "WEBINAR"))
                     ELSE [lead EXCEPT ![l].touch = FirstTouch(req[r].seen.touch, req[r].touch)]
          /\ Proceed(r, NoRequest, {"lead"} \cup (IF contact.made THEN {} ELSE {"contact"}))
          /\ UNCHANGED <<assessment, account, wix, enrolled, undoable, begun>>

\* submitIntakeForm and the Wix webhook always create a lead; Wix names its
\* submission, and a repeated delivery is found by that name or refused by it.
SubmitIntakeForm(r) == BeginRequest(r, [NoRequest EXCEPT !.op = "intake", !.at = "tx"])
CaptureWix(r) == ~wix /\ BeginRequest(r, [NoRequest EXCEPT !.op = "wix", !.at = "tx"])

CreateCommit(r) ==
  LET isWix == req[r].op = "wix" IN
  /\ req[r].op \in {"intake", "wix"} /\ req[r].at = "commit" /\ ~ContactClash(r)
  /\ IF isWix /\ wix THEN Fail(r)
     ELSE /\ wix' = (wix \/ isWix)
          /\ contact' = [contact EXCEPT !.made = TRUE]
          /\ lead' = Append(lead, IF isWix THEN NewLead("NEW", Untouched, "WIX")
                                  ELSE NewLead("SCORING_DONE", Untouched, "INTAKE"))
          /\ Proceed(r, NoRequest, {"lead"} \cup (IF contact.made THEN {} ELSE {"contact"}))
          /\ UNCHANGED <<assessment, account, registered, enrolled, undoable, begun>>

\* Google sign-in links the contact it finds by e-mail.
SignIn ==
  /\ account /\ contact.made /\ ~contact.linked
  /\ contact' = [contact EXCEPT !.linked = TRUE]
  /\ UNCHANGED <<assessment, lead, account, registered, wix, enrolled, undoable, req, begun>>

-----------------------------------------------------------------------------
\* Staff: the status is read and checked, then written by id.

StatusChange(l, to, at) ==
  [NoRequest EXCEPT !.op = "status", !.at = at, !.lead = l, !.seen = lead[l], !.status = to,
               !.read = {"lead"}]

\* staff-leads: any other status.  leads: along the table, and QUALIFIED
\* provisions an account.
StaffSetStatus(r, l, to) ==
  lead[l].status # to /\ BeginRequest(r, StatusChange(l, to, "set"))
UpdateStatus(r, l, to) ==
  /\ to \in ValidTransitions[lead[l].status]
  /\ BeginRequest(r, StatusChange(l, to, IF to = "QUALIFIED" THEN "qualify" ELSE "set"))
\* Within a minute, by the person who made the change.
UndoLastChange(r) ==
  /\ undoable.lead # 0 /\ ~undoable.undo
  /\ BeginRequest(r, StatusChange(undoable.lead, undoable.from, "undo"))

StatusWrite(r) ==
  LET l == req[r].lead IN
  /\ req[r].op = "status" /\ req[r].at \in {"set", "qualify", "undo"}
  /\ lead' = [lead EXCEPT ![l].status = req[r].status]
  /\ undoable' = [lead |-> l, from |-> req[r].seen.status, undo |-> req[r].at = "undo"]
  /\ Proceed(r, IF req[r].at = "qualify" THEN [req[r] EXCEPT !.at = "provision"] ELSE NoRequest, {"lead"})
  /\ UNCHANGED <<assessment, contact, account, registered, wix, enrolled, begun>>

\* provisionStudentAccount: nothing for a linked contact; an account made by a
\* guest submission has the e-mail already, and the request fails.
Provision(r) ==
  /\ req[r].at = "provision"
  /\ IF contact.linked \/ account THEN Fail(r)
     ELSE /\ account' = TRUE
          /\ req' = [req EXCEPT ![r].at = "enrol"]
          /\ UNCHANGED <<assessment, contact, lead, registered, wix, enrolled, undoable, begun>>
Enrol(r) ==
  /\ req[r].at = "enrol"
  /\ contact' = [contact EXCEPT !.linked = TRUE]
  /\ enrolled' = enrolled \cup {req[r].lead}
  /\ req' = [req EXCEPT ![r] = NoRequest]
  /\ UNCHANGED <<assessment, lead, account, registered, wix, undoable, begun>>

IntakeStep(r) ==
  \/ DraftWrite(r) \/ DraftTouch(r)
  \/ CreateAccount(r) \/ SubmitRead(r) \/ ReadLead(r) \/ Abort(r) \/ SubmitCommit(r)
  \/ RegisterCommit(r) \/ CreateCommit(r)
  \/ StatusWrite(r) \/ Provision(r) \/ Enrol(r)

IntakeNext ==
  \/ \E r \in Requests:
       \/ IntakeStep(r)
       \/ \E a \in Answers, t \in Visits:
            SaveDraft(r, a, t) \/ Submit(r, a, t) \/ SubmitPublic(r, a, t)
       \/ \E t \in Visits: Register(r, t)
       \/ SubmitIntakeForm(r) \/ CaptureWix(r) \/ UndoLastChange(r)
       \/ \E l \in DOMAIN lead, to \in Statuses: StaffSetStatus(r, l, to) \/ UpdateStatus(r, l, to)
  \/ SignIn

IntakeSpec == IntakeInit /\ [][IntakeNext]_intakeVars

-----------------------------------------------------------------------------
\* Rows and locals are well formed, and a finished attempt has its lead.
IntakeTypeOK ==
  /\ \A d \in DOMAIN assessment:
       /\ assessment[d].draft \in BOOLEAN /\ assessment[d].answers \in Answers
       /\ assessment[d].scored \in Answers \cup {None} /\ assessment[d].touch \in Visits
       /\ assessment[d].draft <=> assessment[d].lead \notin DOMAIN lead
  /\ \A l \in DOMAIN lead:
       lead[l].status \in Statuses /\ lead[l].touch \in [LeadColumns -> Values \cup {None}]
  /\ contact.linked => contact.made
  /\ enrolled \subseteq DOMAIN lead
  /\ begun \in 0..MaxRequests

\* The step is taken by a request that has read table t, which another request
\* has written since.
Overtaken(r, t) == t \in req[r].old /\ req'[r].at # req[r].at
Late(t) == \E r \in Requests: Overtaken(r, t)

\* The score staff read was computed from the answers they read, through drafts,
\* repeated attempts and guests: a step parts them only if it is an autosave
\* whose draft was submitted after the autosave had looked for it.
Scored(d) == assessment[d].draft \/ assessment[d].scored = assessment[d].answers
ScoreMatchesAnswers ==
  [][\A d \in DOMAIN assessment':
       (d \in DOMAIN assessment => Scored(d)) =>
         \/ Scored(d)'
         \/ \E r \in Requests: Is(r, "draft", "write") /\ req[r].row = d /\ Overtaken(r, "draft")]_intakeVars

\* "The same person fragmented across two CRM records": webinars and assessments
\* add at most one lead to a contact, in whatever order the person meets them; a
\* second one comes only of a request that looked before the first was made.
NotFragmented ==
  [][\A k \in DOMAIN lead, l \in DOMAIN lead' \ DOMAIN lead:
       {lead[k].source, lead'[l].source} \subseteq Reusers => Late("lead")]_intakeVars

\* "First-attribution-wins ... only fill a column that's currently empty": what a
\* lead says of its campaign is never replaced, whichever way in comes next,
\* except by a request that read the lead before another wrote it.
FirstTouchStays ==
  [][\A l \in DOMAIN lead: \A c \in LeadColumns:
       lead[l].touch[c] # None => lead'[l].touch[c] = lead[l].touch[c] \/ Late("lead")]_intakeVars

\* "Never partially mixed with a different touch's values": a lead's columns all
\* come from one visit.  Known disagreement: a later campaign fills the columns
\* the first left empty.
NeverMixed ==
  \A l \in DOMAIN lead: \E t \in Visits: \A c \in LeadColumns: lead[l].touch[c] = t[c]

\* "The whole bundle is frozen": however autosaves race, and however they race
\* a submission, a row that stays a draft keeps its first attribution.
DraftTouchStays ==
  [][\A d \in DOMAIN assessment: ~TouchFree(d) /\ assessment'[d].draft
       => assessment'[d].touch = assessment[d].touch]_intakeVars

\* "A Lead that already progressed further ... is never regressed by a Scorecard
\* resubmission": a scored lead moves by a person's hand only, or by a request
\* that read it before another wrote it.
MovedByHand ==
  [][\A l \in DOMAIN lead:
       lead[l].status \notin PreScoring /\ lead'[l].status # lead[l].status =>
         \/ \E r \in Requests: req[r].op = "status" /\ req'[r].at # req[r].at
         \/ Late("lead")]_intakeVars
=============================================================================
