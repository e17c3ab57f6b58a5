---------------------------- MODULE CaseStaffing ----------------------------
(***************************************************************************)
(* Who works on a case.  A case has five slots; four are filled            *)
(* automatically by the least loaded active member of a role (support only *)
(* once the visa is issued, VisaOutcome), and all are moved by hand by a   *)
(* manager.  Both read first and update by id later.                       *)
(* The cases are those of one lead; what else the staff have on their      *)
(* desks is arbitrary at every pick.                                       *)
(***************************************************************************)
EXTENDS Naturals, Sequences, FiniteSets

CONSTANTS
  Cases,           \* rows of cases that may be created for the lead
  Staff,
  RoleOf,          \* users.role of a staff member
  Hired,           \* users.createdAt, as a rank
  Speaks,          \* languages of a staff member
  ClientLanguage,  \* preferredLanguage of the lead's contact
  LeadOwner,       \* lead.ownerId, copied to a case created by staff, or None
  Workers,         \* requests in flight at once
  MaxMishaps,      \* bound: reassignments, departures and, elsewhere, failures and interference
  None

Slots == {"lia", "consultant", "owner", "finance", "support"}

\* The auth role each slot is filled from.
SlotRole == [lia |-> "LIA", consultant |-> "CLIENT_CONSULTANT", owner |-> "CONSULTANT",
             finance |-> "FINANCE", support |-> "SUPPORT"]

ASSUME StaffingAssumption ==
  /\ None \notin Cases \cup Staff
  /\ Hired \in [Staff -> Nat]
  /\ LeadOwner \in Staff \cup {None}
  /\ MaxMishaps \in Nat

VARIABLES
  case,    \* rows of cases: stage and slot holders
  active,  \* staff who are neither deactivated nor archived
  mishaps,
  work     \* request-local: steps still to do, the case, the person picked

staffingVars == <<case, active, mishaps, work>>

Vacant == [slot \in Slots |-> None]
NoCase == [stage |-> "none", holder |-> Vacant]
Idle == [todo |-> <<>>, case |-> None, slot |-> "none", pick |-> None]

StaffingInit ==
  /\ case = [c \in Cases |-> NoCase]
  /\ active = Staff
  /\ mishaps = 0
  /\ work = [w \in Workers |-> Idle]

Existing == {c \in Cases: case[c].stage # "none"}

IsIdle(w) == work[w] = Idle
Doing(w, step) == work[w].todo # <<>> /\ Head(work[w].todo) = step
\* The request goes on to the given steps, or has none left.
Goto(w, steps) ==
  work' = [work EXCEPT ![w] =
    IF steps = <<>> THEN Idle ELSE [@ EXCEPT !.todo = steps, !.pick = None]]
Onward(w) == Goto(w, Tail(work[w].todo))
StartWork(w, local) ==
  IsIdle(w) /\ work' = IF local.todo = <<>> THEN work ELSE [work EXCEPT ![w] = local]

-----------------------------------------------------------------------------
\* Pools and picks.

Members(role) == {s \in active: RoleOf[s] = role}
FindActiveLias == Members("LIA")
FindActiveConsultants == Members("CLIENT_CONSULTANT")
FindActiveAdmissionSpecialists == Members("CONSULTANT")
FindActiveFinanceStaff == Members("FINANCE")

Speakers(pool, language) == {s \in pool: language \in Speaks[s]}

\* Client language first, then English, then anybody.
ConsultantPool ==
  LET all     == FindActiveConsultants
      foreign == Speakers(all, ClientLanguage)
      english == Speakers(all, "en")
  IN  IF ClientLanguage # "en" /\ foreign # {} THEN foreign
      ELSE IF english # {} THEN english ELSE all

Pool(slot) ==
  CASE slot = "lia" -> FindActiveLias
    [] slot = "consultant" -> ConsultantPool
    [] slot = "owner" -> FindActiveAdmissionSpecialists
    [] slot = "finance" -> FindActiveFinanceStaff

\* Open cases the person already holds in this slot.
Load(slot, s, elsewhere) ==
  elsewhere[s] +
  Cardinality({c \in Existing: case[c].holder[slot] = s /\ case[c].stage = "open"})

\* Lowest load, then the oldest hire.
LeastLoaded(slot, s, elsewhere) ==
  \A t \in Pool(slot):
    \/ Load(slot, s, elsewhere) < Load(slot, t, elsewhere)
    \/ /\ Load(slot, s, elsewhere) = Load(slot, t, elsewhere)
       /\ Hired[s] <= Hired[t]
Pick(slot, s) ==
  s \in Pool(slot) /\ \E elsewhere \in [Pool(slot) -> 0..1]: LeastLoaded(slot, s, elsewhere)

\* Only an owner who is an admission specialist counts: a case made by staff
\* starts with the lead's sales owner.
Filled(c, slot) ==
  IF slot = "owner" THEN case[c].holder.owner # None /\ RoleOf[case[c].holder.owner] = "CONSULTANT"
  ELSE case[c].holder[slot] # None

-----------------------------------------------------------------------------
\* Automatic assignment: nothing to do, or read and pick, then update by id.

AssignRead(w, slot) ==
  LET c == work[w].case IN
  /\ Doing(w, slot)
  /\ work[w].pick = None
  /\ IF c = None \/ Pool(slot) = {} THEN Onward(w)
     ELSE IF Filled(c, slot) THEN Onward(w)
     ELSE \E s \in Staff: Pick(slot, s) /\ work' = [work EXCEPT ![w].pick = s]
  /\ UNCHANGED <<case, active, mishaps>>

AssignWrite(w, slot) ==
  /\ Doing(w, slot)
  /\ work[w].pick # None
  /\ case' = [case EXCEPT ![work[w].case].holder[slot] = work[w].pick]
  /\ Onward(w)
  /\ UNCHANGED <<active, mishaps>>

Assign(w, slot) == AssignRead(w, slot) \/ AssignWrite(w, slot)

AssignLiaToCase(w) == Assign(w, "lia")
AssignConsultantToCase(w) == Assign(w, "consultant")
AssignAdmissionToCase(w) == Assign(w, "owner")
AssignFinanceToCase(w) == Assign(w, "finance")

-----------------------------------------------------------------------------
\* Reassignment by a manager: the target is read and checked, then written
\* whatever the slot holds by then.

MayHold(slot, s) == s = None \/ s \in Members(SlotRole[slot])

Reassign(w, c, slot, s) ==
  /\ mishaps < MaxMishaps
  /\ c \in Existing
  /\ MayHold(slot, s)
  /\ StartWork(w, [todo |-> <<"move">>, case |-> c, slot |-> slot, pick |-> s])
  /\ mishaps' = mishaps + 1
  /\ UNCHANGED <<case, active>>

ManualReassign(w, c, s) == Reassign(w, c, "lia", s)
ReassignConsultant(w, c, s) == Reassign(w, c, "consultant", s)
ReassignOwner(w, c, s) == Reassign(w, c, "owner", s)
ReassignFinance(w, c, s) == Reassign(w, c, "finance", s)
ReassignSupport(w, c, s) == Reassign(w, c, "support", s)

ReassignWrite(w) ==
  /\ Doing(w, "move")
  /\ case' = [case EXCEPT ![work[w].case].holder[work[w].slot] = work[w].pick]
  /\ Onward(w)
  /\ UNCHANGED <<active, mishaps>>

\* A staff member is deactivated or archived, by whatever screen.
Leaves(s) ==
  /\ mishaps < MaxMishaps
  /\ s \in active
  /\ active' = active \ {s}
  /\ mishaps' = mishaps + 1
  /\ UNCHANGED <<case, work>>

-----------------------------------------------------------------------------
\* createCase, shared by staff and by the signing webhook: the row, then a
\* consultant.  Nothing in the schema makes leadId unique.

CreateCaseRow(w, owner, then) ==
  \E c \in Cases:
    /\ case[c].stage = "none"
    /\ case' = [case EXCEPT ![c] = [stage |-> "open", holder |-> [Vacant EXCEPT !.owner = owner]]]
    /\ work' = [work EXCEPT ![w] = [todo |-> <<"consultant">> \o then, case |-> c,
                                    slot |-> "none", pick |-> None]]
=============================================================================
