-------------------------- MODULE Contracts_proofs --------------------------
(***************************************************************************)
(* Signatures, sends and access for any number of submissions, cases,      *)
(* staff and requests, with either provider and any number of mishaps.     *)
(*                                                                         *)
(* A handler acts on a picture of the contract that other deliveries have  *)
(* outdated meanwhile.  What saves it is that everything it relies upon    *)
(* only grows: signatures at the provider, the row's existence, its case.  *)
(* The invariant says, for the steps a request has left, what its picture  *)
(* still guarantees; a send relies on being alone with its submission.     *)
(* The last part follows the obligation that a signature creates, from the *)
(* delivery the provider owes to the request that serves the contract.     *)
(***************************************************************************)
EXTENDS Contracts, TLAPS

-----------------------------------------------------------------------------
\* What a request may have left to do.

\* prepareEngagementSend, for a case or from "submit" on for a lead.
ToCase == <<"lia", "owner", "finance", "submit", "insert">>
Sending == {ToCase, <<"owner", "finance", "submit", "insert">>, <<"finance", "submit", "insert">>,
            <<"submit", "insert">>, <<"insert">>}

\* The head of the two webhooks.
Seal == {<<"fetch", "sync", "branch">>, <<"sync", "branch">>, <<"branch">>}
ToFetch == <<"fetch", "recipients", "sync", "status">>
Envelopes == {ToFetch, <<"recipients", "sync", "status">>, <<"sync", "status">>, <<"status">>}

\* ensureCaseForLeadBasedContract, once a case is chosen.
Pointing == {<<"consultant", "backfill", "point">>, <<"backfill", "point">>, <<"point">>}

\* Downstream of a signature.
Marking == <<"mark", "store", "lia", "owner", "finance", "promote", "invoice">>
Serving ==
  {Marking, <<"store", "lia", "owner", "finance", "promote", "invoice">>,
   <<"lia", "owner", "finance", "promote", "invoice">>, <<"owner", "finance", "promote", "invoice">>,
   <<"finance", "promote", "invoice">>,
   <<"lia", "owner", "finance", "store", "promote", "invoice">>,
   <<"owner", "finance", "store", "promote", "invoice">>, <<"finance", "store", "promote", "invoice">>,
   <<"store", "promote", "invoice">>, <<"promote", "invoice">>, <<"invoice">>,
   <<"promote", "invoice", "owner">>, <<"invoice", "owner">>, <<"owner">>}

\* Requests that read nothing of the contract.
Elsewhere == {<<"create">>, <<"consultant">>, <<"enrol">>, <<"move">>, <<"lia", "owner", "finance">>,
              <<"owner", "finance">>, <<"finance">>}

Scripts == {<<>>, <<"find">>} \cup Sending \cup Seal \cup Envelopes \cup Pointing \cup Serving \cup Elsewhere

-----------------------------------------------------------------------------
\* The inductive invariant.

HookLocals ==
  [sub: Submissions \cup {None}, delivery: BOOLEAN, status: {"none", "SENT", "DECLINED", "SIGNED"},
   seen: 0..3, state: {"none", "SENT", "DECLINED", "SIGNED"}, hasLia: BOOLEAN,
   lia: Staff \cup {None}, countersigned: BOOLEAN]
WorkLocals == [todo: Scripts, case: Cases \cup {None}, slot: Slots \cup {"none"}, pick: Staff \cup {None}]

Typed ==
  /\ TypeOK
  /\ via \in {"docuseal", "docusign"}
  /\ gate \in [free15: BOOLEAN, flagged: BOOLEAN, verdict: {"none", "APPROVED", "REJECTED"},
               cleared: BOOLEAN, exec: BOOLEAN]
  /\ envelope \in [Submissions -> [made: BOOLEAN, signed: 0..3, halted: BOOLEAN]]
  /\ work \in [Workers -> WorkLocals] /\ hook \in [Workers -> HookLocals]

Cleared == gate.free15 /\ (gate.flagged => gate.cleared)

\* A row is empty until it is inserted, for a submission that was made.
FreshRows ==
  /\ gate.verdict = "APPROVED" => gate.cleared
  /\ \A s \in Submissions:
       /\ contract[s].status = "none" => contract[s] = NoContract
       /\ ~envelope[s].made => contract[s].status = "none"

\* What a delivery knows of its contract stays true.
Informed(w) ==
  LET h == hook[w] IN
  h.delivery =>
    /\ work[w].todo # <<>>
    /\ h.sub \in Submissions /\ contract[h.sub].status # "none"
    /\ h.seen <= envelope[h.sub].signed
    /\ h.state = "SIGNED" => envelope[h.sub].signed = Director

\* What the steps a request has left need.
Prepared(w) ==
  LET t == work[w].todo  h == hook[w] IN
  /\ t \in Sending =>
       /\ ~h.delivery
       /\ t # <<"insert">> => Cleared
       /\ t = ToCase => work[w].case \in Cases
       /\ t # ToCase => h.lia \in Staff
       /\ t = <<"insert">> =>
            h.sub \in Submissions /\ envelope[h.sub].made /\ contract[h.sub].status = "none"
  /\ t \in {<<"find">>} \cup Seal \cup Envelopes \cup Pointing \cup Serving => h.delivery
  /\ t \in Seal /\ work[w].case # None => contract[h.sub].case # None
  /\ t \in Envelopes => via = "docusign" /\ (t # ToFetch => h.state # "none")
  /\ t \in Pointing => work[w].case \in Cases
  /\ t = <<"point">> => contract[h.sub].case # None
  /\ t = Marking => contract[h.sub].case # None /\ envelope[h.sub].signed = Director
  /\ t = <<"move">> => work[w].slot \in Slots /\ ~h.delivery

\* Each submission about to be recorded is in one request's hands.
InsertsApart ==
  \A v, w \in Workers:
    work[v].todo = <<"insert">> /\ work[w].todo = <<"insert">> /\ hook[v].sub = hook[w].sub => v = w

Rows == FreshRows /\ AccessWasSigned /\ SignedIsComplete /\ OneLiveContract /\ SentWasCleared

IInv ==
  /\ Typed /\ Rows /\ InsertsApart
  /\ \A w \in Workers: Informed(w) /\ Prepared(w)

-----------------------------------------------------------------------------
\* Scripts: what is done next, and what remains.

LEMMA SendingSteps ==
  ASSUME NEW t \in Sending
  PROVE  /\ t # <<>> /\ Tail(t) # ToCase
         /\ Tail(t) \in Sending \/ t = <<"insert">>
         /\ t # <<"insert">> => Head(t) # "insert" /\ Tail(t) \in Sending
         /\ Head(t) \in {"lia", "owner", "finance", "submit", "insert"}
         /\ Head(t) = "lia" => t = ToCase
         /\ Head(t) = "submit" => Tail(t) = <<"insert">>
         /\ Head(t) # "submit" => Tail(t) # <<"insert">>
         /\ t = <<"insert">> => Tail(t) = <<>>
         /\ t[Len(t)] = "insert"
<1>1. CASE t = ToCase
  BY <1>1 DEF Sending, ToCase
<1>2. CASE t = <<"owner", "finance", "submit", "insert">>
  BY <1>2 DEF Sending, ToCase
<1>3. CASE t = <<"finance", "submit", "insert">>
  BY <1>3 DEF Sending, ToCase
<1>4. CASE t = <<"submit", "insert">>
  BY <1>4 DEF Sending, ToCase
<1>5. CASE t = <<"insert">>
  BY <1>5 DEF Sending, ToCase
<1> QED BY <1>1, <1>2, <1>3, <1>4, <1>5 DEF Sending

LEMMA SealSteps ==
  ASSUME NEW t \in Seal
  PROVE  /\ t # <<>>
         /\ Head(t) \in {"fetch", "sync", "branch"}
         /\ Head(t) = "branch" => Tail(t) = <<>>
         /\ Head(t) # "branch" => Tail(t) \in Seal
         /\ t[Len(t)] = "branch"
<1>1. CASE t = <<"fetch", "sync", "branch">>
  BY <1>1 DEF Seal
<1>2. CASE t = <<"sync", "branch">>
  BY <1>2 DEF Seal
<1>3. CASE t = <<"branch">>
  BY <1>3 DEF Seal
<1> QED BY <1>1, <1>2, <1>3 DEF Seal

LEMMA EnvelopesSteps ==
  ASSUME NEW t \in Envelopes
  PROVE  /\ t # <<>>
         /\ Head(t) \in {"fetch", "recipients", "sync", "status"}
         /\ Head(t) = "fetch" <=> t = ToFetch
         /\ Head(t) # "status" => Tail(t) \in Envelopes /\ Tail(t) # ToFetch
         /\ Head(t) = "status" => Tail(t) = <<>>
         /\ t[Len(t)] = "status"
<1>1. CASE t = ToFetch
  BY <1>1 DEF Envelopes, ToFetch
<1>2. CASE t = <<"recipients", "sync", "status">>
  BY <1>2 DEF Envelopes, ToFetch
<1>3. CASE t = <<"sync", "status">>
  BY <1>3 DEF Envelopes, ToFetch
<1>4. CASE t = <<"status">>
  BY <1>4 DEF Envelopes, ToFetch
<1> QED BY <1>1, <1>2, <1>3, <1>4 DEF Envelopes

LEMMA PointingSteps ==
  ASSUME NEW t \in Pointing
  PROVE  /\ t # <<>>
         /\ Head(t) \in {"consultant", "backfill", "point"}
         /\ Head(t) = "point" <=> t = <<"point">>
         /\ Head(t) = "backfill" => Tail(t) = <<"point">>
         /\ Head(t) = "consultant" => Tail(t) \in Pointing /\ Tail(t) # <<"point">>
         /\ Head(t) = "point" => Tail(t) = <<>>
         /\ t[Len(t)] = "point"
<1>1. CASE t = <<"consultant", "backfill", "point">>
  BY <1>1 DEF Pointing
<1>2. CASE t = <<"backfill", "point">>
  BY <1>2 DEF Pointing
<1>3. CASE t = <<"point">>
  BY <1>3 DEF Pointing
<1> QED BY <1>1, <1>2, <1>3 DEF Pointing

LEMMA ServingSteps ==
  ASSUME NEW t \in Serving
  PROVE  /\ t # <<>>
         /\ Head(t) \in {"mark", "store", "lia", "owner", "finance", "promote", "invoice"}
         /\ Head(t) = "mark" <=> t = Marking
         /\ Tail(t) = <<>> \/ Tail(t) \in Serving \ {Marking}
         /\ t[Len(t)] \in {"invoice", "owner"}
<1>1. CASE t = Marking
  BY <1>1 DEF Serving, Marking
<1>2. CASE t = <<"store", "lia", "owner", "finance", "promote", "invoice">>
  BY <1>2 DEF Serving, Marking
<1>3. CASE t = <<"lia", "owner", "finance", "promote", "invoice">>
  BY <1>3 DEF Serving, Marking
<1>4. CASE t = <<"owner", "finance", "promote", "invoice">>
  BY <1>4 DEF Serving, Marking
<1>5. CASE t = <<"finance", "promote", "invoice">>
  BY <1>5 DEF Serving, Marking
<1>6. CASE t = <<"lia", "owner", "finance", "store", "promote", "invoice">>
  BY <1>6 DEF Serving, Marking
<1>7. CASE t = <<"owner", "finance", "store", "promote", "invoice">>
  BY <1>7 DEF Serving, Marking
<1>8. CASE t = <<"finance", "store", "promote", "invoice">>
  BY <1>8 DEF Serving, Marking
<1>9. CASE t = <<"store", "promote", "invoice">>
  BY <1>9 DEF Serving, Marking
<1>10. CASE t = <<"promote", "invoice">>
  BY <1>10 DEF Serving, Marking
<1>11. CASE t = <<"invoice">>
  BY <1>11 DEF Serving, Marking
<1>12. CASE t = <<"promote", "invoice", "owner">>
  BY <1>12 DEF Serving, Marking
<1>13. CASE t = <<"invoice", "owner">>
  BY <1>13 DEF Serving, Marking
<1>14. CASE t = <<"owner">>
  BY <1>14 DEF Serving, Marking
<1> QED BY <1>1, <1>2, <1>3, <1>4, <1>5, <1>6, <1>7, <1>8, <1>9, <1>10, <1>11, <1>12, <1>13, <1>14 DEF Serving

LEMMA ElsewhereSteps ==
  ASSUME NEW t \in Elsewhere
  PROVE  /\ t # <<>>
         /\ Head(t) \in {"create", "consultant", "enrol", "move", "lia", "owner", "finance"}
         /\ Head(t) = "move" <=> t = <<"move">>
         /\ Head(t) \in {"create", "enrol", "consultant", "move"} => Tail(t) = <<>>
         /\ Tail(t) = <<>> \/ Tail(t) \in {<<"owner", "finance">>, <<"finance">>}
         /\ t[Len(t)] \in {"create", "consultant", "enrol", "move", "finance"}
<1>1. CASE t = <<"create">>
  BY <1>1 DEF Elsewhere
<1>2. CASE t = <<"consultant">>
  BY <1>2 DEF Elsewhere
<1>3. CASE t = <<"enrol">>
  BY <1>3 DEF Elsewhere
<1>4. CASE t = <<"move">>
  BY <1>4 DEF Elsewhere
<1>5. CASE t = <<"lia", "owner", "finance">>
  BY <1>5 DEF Elsewhere
<1>6. CASE t = <<"owner", "finance">>
  BY <1>6 DEF Elsewhere
<1>7. CASE t = <<"finance">>
  BY <1>7 DEF Elsewhere
<1> QED BY <1>1, <1>2, <1>3, <1>4, <1>5, <1>6, <1>7 DEF Elsewhere

\* The families tell each other apart by their last step.
LEMMA FindSteps == /\ <<"find">> # <<>> /\ Head(<<"find">>) = "find" /\ Tail(<<"find">>) = <<>>
                   /\ <<"find">>[Len(<<"find">>)] = "find"
  OBVIOUS

LEMMA Apart ==
  ASSUME NEW t \in Scripts
  PROVE  /\ t \in Sending => t \notin {<<>>, <<"find">>} \cup Seal \cup Envelopes \cup Pointing \cup Serving \cup Elsewhere
         /\ t \in Seal => t \notin {<<>>, <<"find">>} \cup Envelopes \cup Pointing \cup Serving \cup Elsewhere
         /\ t \in Envelopes => t \notin {<<>>, <<"find">>} \cup Pointing \cup Serving \cup Elsewhere
         /\ t \in Pointing => t \notin {<<>>, <<"find">>} \cup Serving \cup Elsewhere
         /\ t \in Serving => t \notin {<<>>, <<"find">>} \cup Elsewhere
         /\ t \in Elsewhere => t \notin {<<>>, <<"find">>}
<1>1. /\ t \in Sending => t # <<>> /\ t[Len(t)] = "insert"
      /\ t \in Seal => t # <<>> /\ t[Len(t)] = "branch"
      /\ t \in Envelopes => t # <<>> /\ t[Len(t)] = "status"
      /\ t \in Pointing => t # <<>> /\ t[Len(t)] = "point"
      /\ t \in Serving => t # <<>> /\ t[Len(t)] \in {"invoice", "owner"}
      /\ t \in Elsewhere => t # <<>> /\ t[Len(t)] \in {"create", "consultant", "enrol", "move", "finance"}
      /\ t = <<"find">> => t[Len(t)] = "find"
  BY SendingSteps, SealSteps, EnvelopesSteps, PointingSteps, ServingSteps, ElsewhereSteps, FindSteps
<1> HIDE DEF Sending, Seal, Envelopes, Pointing, Serving, Elsewhere
<1> QED BY <1>1

\* Where the named scripts belong.
LEMMA Belongs ==
  /\ ToCase \in Sending /\ <<"submit", "insert">> \in Sending /\ <<"insert">> \in Sending
  /\ <<"insert">> # ToCase /\ <<"submit", "insert">> # <<"insert">> /\ <<"submit", "insert">> # ToCase
  /\ <<"fetch", "sync", "branch">> \in Seal /\ ToFetch \in Envelopes
  /\ <<"consultant", "backfill", "point">> \in Pointing /\ <<"backfill", "point">> \in Pointing
  /\ <<"point">> \in Pointing /\ <<"consultant", "backfill", "point">> # <<"point">>
  /\ <<"backfill", "point">> # <<"point">>
  /\ Marking \in Serving /\ <<"promote", "invoice", "owner">> \in Serving
  /\ <<"lia", "owner", "finance", "store", "promote", "invoice">> \in Serving
  /\ <<"promote", "invoice">> \in Serving
  /\ <<"promote", "invoice", "owner">> # Marking /\ <<"promote", "invoice">> # Marking
  /\ <<"lia", "owner", "finance", "store", "promote", "invoice">> # Marking
  /\ <<"create">> \in Elsewhere /\ <<"consultant">> \in Elsewhere /\ <<"enrol">> \in Elsewhere
  /\ <<"move">> \in Elsewhere /\ <<"lia", "owner", "finance">> \in Elsewhere
  /\ <<"create">> # <<"move">> /\ <<"consultant">> # <<"move">> /\ <<"enrol">> # <<"move">>
  /\ <<"lia", "owner", "finance">> # <<"move">>
BY DEF Sending, Seal, Envelopes, Pointing, Serving, Elsewhere, ToCase, ToFetch, Marking

\* What the head step of a request tells about all of what it has left.
LEMMA ByHead ==
  ASSUME NEW t \in Scripts, t # <<>>
  PROVE  /\ Head(t) \in {"submit", "insert"} => t \in Sending
         /\ Head(t) = "recipients" => t \in Envelopes
         /\ Head(t) \in {"fetch", "sync"} => t \in Seal \cup Envelopes
         /\ Head(t) = "branch" => t \in Seal
         /\ Head(t) = "status" => t \in Envelopes
         /\ Head(t) \in {"backfill", "point"} => t \in Pointing
         /\ Head(t) \in {"mark", "store", "promote", "invoice"} => t \in Serving
         /\ Head(t) = "find" => t = <<"find">>
         /\ Head(t) \in {"create", "enrol", "move"} => t \in Elsewhere
         /\ Head(t) = "consultant" => t \in Pointing \cup Elsewhere
         /\ Head(t) \in {"lia", "owner", "finance"} => t \in Sending \cup Serving \cup Elsewhere
<1>1. /\ t \in Sending => Head(t) \in {"lia", "owner", "finance", "submit", "insert"}
      /\ t \in Seal => Head(t) \in {"fetch", "sync", "branch"}
      /\ t \in Envelopes => Head(t) \in {"fetch", "recipients", "sync", "status"}
      /\ t \in Pointing => Head(t) \in {"consultant", "backfill", "point"}
      /\ t \in Serving => Head(t) \in {"mark", "store", "lia", "owner", "finance", "promote", "invoice"}
      /\ t \in Elsewhere => Head(t) \in {"create", "consultant", "enrol", "move", "lia", "owner", "finance"}
      /\ t = <<"find">> => Head(t) = "find"
  BY SendingSteps, SealSteps, EnvelopesSteps, PointingSteps, ServingSteps, ElsewhereSteps, FindSteps
<1>2. t = <<"find">> \/ t \in Sending \/ t \in Seal \/ t \in Envelopes \/ t \in Pointing \/ t \in Serving
      \/ t \in Elsewhere
  BY DEF Scripts
<1> QED BY <1>1, <1>2

\* The tail of a script is a script.
LEMMA ScriptTail == ASSUME NEW t \in Scripts, t # <<>> PROVE Tail(t) \in Scripts
<1>1. CASE t \in Sending
  BY <1>1, SendingSteps DEF Scripts
<1>2. CASE t \in Seal
  BY <1>2, SealSteps DEF Scripts
<1>3. CASE t \in Envelopes
  BY <1>3, EnvelopesSteps DEF Scripts
<1>4. CASE t \in Pointing
  BY <1>4, PointingSteps, Belongs DEF Scripts
<1>5. CASE t \in Serving
  BY <1>5, ServingSteps DEF Scripts
<1>6. CASE t \in Elsewhere
  <2>1. <<"owner", "finance">> \in Elsewhere /\ <<"finance">> \in Elsewhere
    BY DEF Elsewhere
  <2> QED BY <1>6, <2>1, ElsewhereSteps DEF Scripts
<1>7. CASE t = <<"find">>
  BY <1>7, FindSteps DEF Scripts
<1> QED BY <1>1, <1>2, <1>3, <1>4, <1>5, <1>6, <1>7 DEF Scripts

-----------------------------------------------------------------------------
\* What has to be shown of the steps left, family by family.

LEMMA PreparedRest ==
  ASSUME NEW w \in Workers, work'[w].todo = <<>> \/ work'[w].todo \in Elsewhere \ {<<"move">>}
  PROVE  Prepared(w)'
<1> DEFINE t == work'[w].todo
<1>1. t \in Scripts
  BY DEF Scripts
<1>2. t \notin {<<"find">>} \cup Sending \cup Seal \cup Envelopes \cup Pointing \cup Serving
  BY <1>1, Apart
<1>3. t # <<"point">> /\ t # Marking
  BY <1>2, Belongs
<1>4. <<>> # <<"move">>
  OBVIOUS
<1> QED BY <1>2, <1>3, <1>4 DEF Prepared

LEMMA PreparedMove ==
  ASSUME NEW w \in Workers, work'[w].todo = <<"move">>, work'[w].slot \in Slots, ~hook'[w].delivery
  PROVE  Prepared(w)'
<1> DEFINE t == work'[w].todo
<1>1. t \in Scripts /\ t \in Elsewhere
  BY Belongs DEF Scripts
<1>2. t \notin {<<"find">>} \cup Sending \cup Seal \cup Envelopes \cup Pointing \cup Serving
  BY <1>1, Apart
<1>3. t # <<"point">> /\ t # Marking
  BY <1>2, Belongs
<1> QED BY <1>2, <1>3 DEF Prepared

LEMMA PreparedSending ==
  ASSUME NEW w \in Workers, work'[w].todo \in Sending, ~hook'[w].delivery,
         work'[w].todo # <<"insert">> => Cleared',
         work'[w].todo = ToCase => work'[w].case \in Cases,
         work'[w].todo # ToCase => hook'[w].lia \in Staff,
         work'[w].todo = <<"insert">> =>
           hook'[w].sub \in Submissions /\ envelope'[hook'[w].sub].made /\ contract'[hook'[w].sub].status = "none"
  PROVE  Prepared(w)'
<1> DEFINE t == work'[w].todo
<1>1. t \in Scripts
  BY DEF Scripts
<1>2. t \notin {<<>>, <<"find">>} \cup Seal \cup Envelopes \cup Pointing \cup Serving \cup Elsewhere
  BY <1>1, Apart
<1>3. t # <<"point">> /\ t # Marking /\ t # <<"move">>
  BY <1>2, Belongs
<1> QED BY <1>2, <1>3 DEF Prepared

LEMMA PreparedSeal ==
  ASSUME NEW w \in Workers, work'[w].todo \in Seal \cup {<<"find">>}, hook'[w].delivery,
         work'[w].todo \in Seal /\ work'[w].case # None => contract'[hook'[w].sub].case # None
  PROVE  Prepared(w)'
<1> DEFINE t == work'[w].todo
<1>1. t \in Scripts
  BY DEF Scripts
<1>2. t \notin Sending \cup Envelopes \cup Pointing \cup Serving \cup Elsewhere
  BY <1>1, Apart
<1>3. t # <<"point">> /\ t # Marking /\ t # <<"move">>
  BY <1>2, Belongs
<1> QED BY <1>2, <1>3 DEF Prepared

LEMMA PreparedEnvelopes ==
  ASSUME NEW w \in Workers, work'[w].todo \in Envelopes, hook'[w].delivery,
         via' = "docusign", work'[w].todo # ToFetch => hook'[w].state # "none"
  PROVE  Prepared(w)'
<1> DEFINE t == work'[w].todo
<1>1. t \in Scripts
  BY DEF Scripts
<1>2. t \notin {<<>>, <<"find">>} \cup Sending \cup Seal \cup Pointing \cup Serving \cup Elsewhere
  BY <1>1, Apart
<1>3. t # <<"point">> /\ t # Marking /\ t # <<"move">>
  BY <1>2, Belongs
<1> QED BY <1>2, <1>3 DEF Prepared

LEMMA PreparedPointing ==
  ASSUME NEW w \in Workers, work'[w].todo \in Pointing, hook'[w].delivery,
         work'[w].case \in Cases,
         work'[w].todo = <<"point">> => contract'[hook'[w].sub].case # None
  PROVE  Prepared(w)'
<1> DEFINE t == work'[w].todo
<1>1. t \in Scripts
  BY DEF Scripts
<1>2. t \notin {<<>>, <<"find">>} \cup Sending \cup Seal \cup Envelopes \cup Serving \cup Elsewhere
  BY <1>1, Apart
<1>3. t # Marking /\ t # <<"move">>
  BY <1>2, Belongs
<1> QED BY <1>2, <1>3 DEF Prepared

LEMMA PreparedServing ==
  ASSUME NEW w \in Workers, work'[w].todo \in Serving, hook'[w].delivery,
         work'[w].todo = Marking =>
           contract'[hook'[w].sub].case # None /\ envelope'[hook'[w].sub].signed = Director
  PROVE  Prepared(w)'
<1> DEFINE t == work'[w].todo
<1>1. t \in Scripts
  BY DEF Scripts
<1>2. t \notin {<<>>, <<"find">>} \cup Sending \cup Seal \cup Envelopes \cup Pointing \cup Elsewhere
  BY <1>1, Apart
<1>3. t # <<"point">> /\ t # <<"move">>
  BY <1>2, Belongs
<1> QED BY <1>2, <1>3 DEF Prepared

-----------------------------------------------------------------------------
\* The initial state.
LEMMA IdleTyped == Idle \in WorkLocals /\ Idle.todo = <<>> /\ NoHook \in HookLocals /\ ~NoHook.delivery
<1>1. <<>> \in Scripts
  BY DEF Scripts
<1> QED BY <1>1 DEF Idle, WorkLocals, NoHook, HookLocals

LEMMA InitInv == Init => IInv
<1> SUFFICES ASSUME Init PROVE IInv
  OBVIOUS
<1>1. work \in [Workers -> WorkLocals] /\ hook \in [Workers -> HookLocals]
      /\ \A w \in Workers: work[w].todo = <<>> /\ ~hook[w].delivery
  BY IdleTyped DEF Init, StaffingInit
<1>2. Typed
  <2>1. case \in [Cases -> [stage: {"none", "open"}, holder: [Slots -> Staff \cup {None}]]]
    <3>1. Vacant \in [Slots -> Staff \cup {None}]
      BY DEF Vacant
    <3> QED BY <3>1 DEF Init, StaffingInit, NoCase
  <2>2. active \subseteq Staff /\ mishaps \in 0..MaxMishaps
    BY StaffingAssumption DEF Init, StaffingInit
  <2>3. /\ contract \in [Submissions -> [status: {"none", "SENT", "DECLINED", "SIGNED"},
             byLead: BOOLEAN, case: Cases \cup {None}, lia: Staff \cup {None}, signed: 0..3, signedAt: BOOLEAN]]
        /\ Sent = {}
    BY DEF Init, NoContract, Sent
  <2>4. \A w \in Workers: work[w].case \in Cases \cup {None} /\ work[w].pick \in Staff \cup {None}
    BY <1>1 DEF WorkLocals
  <2>5. TypeOK
    BY <2>1, <2>2, <2>3, <2>4, ContractsAssumption DEF Init, TypeOK
  <2>6. gate \in [free15: BOOLEAN, flagged: BOOLEAN, verdict: {"none", "APPROVED", "REJECTED"},
                 cleared: BOOLEAN, exec: BOOLEAN]
    BY ContractsAssumption DEF Init
  <2>7. envelope \in [Submissions -> [made: BOOLEAN, signed: 0..3, halted: BOOLEAN]]
    BY DEF Init
  <2> QED BY <1>1, <2>5, <2>6, <2>7, ContractsAssumption DEF Init, Typed
<1>3. Rows
  BY DEF Init, Rows, FreshRows, AccessWasSigned, SignedIsComplete, OneLiveContract, SentWasCleared,
     NoContract, Sent
<1>4. InsertsApart /\ \A w \in Workers: Informed(w)
  <2>1. <<>> # <<"insert">>
    OBVIOUS
  <2>2. \A w \in Workers: work[w].todo # <<"insert">>
    BY <1>1, <2>1
  <2>3. InsertsApart
    BY <2>2 DEF InsertsApart
  <2>4. \A w \in Workers: Informed(w)
    BY <1>1 DEF Informed
  <2> QED BY <2>3, <2>4
<1>5. \A w \in Workers: Prepared(w)
  <2> SUFFICES ASSUME NEW w \in Workers PROVE Prepared(w)
    OBVIOUS
  <2>1. work[w].todo = <<>> /\ <<>> \in Scripts
    BY <1>1 DEF Scripts
  <2>2. <<>> \notin {<<"find">>} \cup Sending \cup Seal \cup Envelopes \cup Pointing \cup Serving \cup Elsewhere
    BY <2>1, Apart
  <2> QED BY <2>1, <2>2, Belongs DEF Prepared
<1> QED BY <1>2, <1>3, <1>4, <1>5 DEF IInv

-----------------------------------------------------------------------------
\* What every step leaves true for the requests that do not take it.
Keeps ==
  /\ via' = via /\ (Cleared => Cleared')
  /\ \A s \in Submissions:
       /\ contract[s].status # "none" => contract'[s].status # "none"
       /\ contract[s].case # None => contract'[s].case # None
       /\ envelope[s].made => envelope'[s].made
       /\ envelope[s].signed <= envelope'[s].signed

\* The submission a request is about to record has no row yet.
NotTaken(v) == work[v].todo = <<"insert">> => contract'[hook[v].sub].status = "none"

LEMMA OthersKeep ==
  ASSUME IInv, Keeps, Typed', NEW v \in Workers, work'[v] = work[v], hook'[v] = hook[v], NotTaken(v)
  PROVE  Informed(v)' /\ Prepared(v)'
<1> DEFINE t == work[v].todo  h == hook[v]
<1>1. /\ Informed(v) /\ Prepared(v) /\ t \in Scripts
      /\ envelope \in [Submissions -> [made: BOOLEAN, signed: 0..3, halted: BOOLEAN]]
      /\ envelope' \in [Submissions -> [made: BOOLEAN, signed: 0..3, halted: BOOLEAN]]
      /\ h.seen \in 0..3
  BY DEF IInv, Typed, WorkLocals, HookLocals
<1>2. Informed(v)'
  <2>1. h.delivery =>
          /\ t # <<>> /\ h.sub \in Submissions /\ contract[h.sub].status # "none"
          /\ h.seen <= envelope[h.sub].signed
          /\ h.state = "SIGNED" => envelope[h.sub].signed = Director
    BY <1>1 DEF Informed
  <2>2. h.delivery =>
          /\ contract'[h.sub].status # "none" /\ envelope[h.sub].signed <= envelope'[h.sub].signed
          /\ envelope[h.sub].signed \in 0..3 /\ envelope'[h.sub].signed \in 0..3
    BY <1>1, <2>1 DEF Keeps
  <2>3. h.delivery => h.seen <= envelope'[h.sub].signed
    BY <1>1, <2>1, <2>2
  <2>4. h.delivery => (h.state = "SIGNED" => envelope'[h.sub].signed = Director)
    BY <2>1, <2>2 DEF Director
  <2> QED BY <2>1, <2>2, <2>3, <2>4 DEF Informed
<1>3. h.delivery => h.sub \in Submissions
  BY <1>1 DEF Informed
<1>4. t \in Sending => Prepared(v)'
  <2>1. t \in Sending =>
          /\ ~h.delivery
          /\ t # <<"insert">> => Cleared'
          /\ t = ToCase => work[v].case \in Cases
          /\ t # ToCase => h.lia \in Staff
          /\ t = <<"insert">> => h.sub \in Submissions /\ envelope'[h.sub].made /\ contract'[h.sub].status = "none"
    BY <1>1 DEF Prepared, Keeps, NotTaken
  <2> QED BY <2>1, PreparedSending
<1>5. t \in Seal \cup {<<"find">>} => Prepared(v)'
  <2>1. t \in Seal \cup {<<"find">>} =>
          h.delivery /\ (t \in Seal /\ work[v].case # None => contract'[h.sub].case # None)
    BY <1>1, <1>3 DEF Prepared, Keeps
  <2> QED BY <2>1, PreparedSeal
<1>6. t \in Envelopes => Prepared(v)'
  <2>1. t \in Envelopes => h.delivery /\ via' = "docusign" /\ (t # ToFetch => h.state # "none")
    BY <1>1 DEF Prepared, Keeps
  <2> QED BY <2>1, PreparedEnvelopes
<1>7. t \in Pointing => Prepared(v)'
  <2>1. t \in Pointing =>
          h.delivery /\ work[v].case \in Cases /\ (t = <<"point">> => contract'[h.sub].case # None)
    BY <1>1, <1>3 DEF Prepared, Keeps
  <2> QED BY <2>1, PreparedPointing
<1>8. t \in Serving => Prepared(v)'
  <2>1. t \in Serving =>
          h.delivery /\ (t = Marking => contract'[h.sub].case # None /\ envelope'[h.sub].signed = Director)
    BY <1>1, <1>3 DEF Prepared, Keeps, Director
  <2> QED BY <2>1, PreparedServing
<1>9. t = <<>> \/ t \in Elsewhere \ {<<"move">>} => Prepared(v)'
  BY PreparedRest
<1>10. t = <<"move">> => Prepared(v)'
  BY <1>1, PreparedMove DEF Prepared
<1> QED BY <1>1, <1>2, <1>4, <1>5, <1>6, <1>7, <1>8, <1>9, <1>10 DEF Scripts

\* One request moves: what has to be shown.
LEMMA OneMoves ==
  ASSUME IInv, Keeps, Typed', Rows', NEW w \in Workers,
         \A v \in Workers \ {w}: work'[v] = work[v] /\ hook'[v] = hook[v] /\ NotTaken(v),
         Informed(w)', Prepared(w)',
         work'[w].todo = <<"insert">> =>
           \A v \in Workers \ {w}: work[v].todo = <<"insert">> => hook[v].sub # hook'[w].sub
  PROVE  IInv'
<1>1. \A v \in Workers: Informed(v)' /\ Prepared(v)'
  BY OthersKeep
<1>2. InsertsApart'
  <2> SUFFICES ASSUME NEW u \in Workers, NEW v \in Workers, u # v,
                      work'[u].todo = <<"insert">>, work'[v].todo = <<"insert">>,
                      hook'[u].sub = hook'[v].sub
               PROVE  FALSE
    BY DEF InsertsApart
  <2>1. CASE u # w /\ v # w
    BY <2>1 DEF IInv, InsertsApart
  <2>2. CASE u = w
    BY <2>2
  <2>3. CASE v = w
    BY <2>3
  <2> QED BY <2>1, <2>2, <2>3
<1> QED BY <1>1, <1>2 DEF IInv

\* No request moves.
LEMMA NobodyMoves ==
  ASSUME IInv, Keeps, Typed', Rows', work' = work, hook' = hook, \A v \in Workers: NotTaken(v)
  PROVE  IInv'
<1>1. \A v \in Workers: Informed(v)' /\ Prepared(v)'
  BY OthersKeep
<1>2. InsertsApart'
  BY DEF IInv, InsertsApart
<1> QED BY <1>1, <1>2 DEF IInv

\* What the sent contracts, signatures and access depend on is left alone.
Untouched == UNCHANGED <<via, gate, envelope, contract, invoice, promoted>>

LEMMA UntouchedKeeps ==
  ASSUME IInv, Untouched
  PROVE  Keeps /\ Rows' /\ \A v \in Workers: NotTaken(v)
<1>1. Rows'
  BY DEF Untouched, IInv, Rows, FreshRows, AccessWasSigned, SignedIsComplete, OneLiveContract,
     SentWasCleared, Sent
<1>2. Keeps
  BY DEF Untouched, Keeps, Cleared, IInv, Typed
<1>3. ASSUME NEW v \in Workers PROVE NotTaken(v)
  BY Belongs DEF NotTaken, Untouched, IInv, Prepared
<1> QED BY <1>1, <1>2, <1>3

\* The types of the rows that a step may write beside the contract.
CaseRows == [Cases -> [stage: {"none", "open"}, holder: [Slots -> Staff \cup {None}]]]
BesideTyped ==
  /\ case' \in CaseRows /\ active' \subseteq Staff /\ mishaps' \in 0..MaxMishaps
  /\ filed' \in [Cases -> SUBSET {"visaType", "pdf"}] /\ account' \in {"none", "LEAD", "STUDENT"}
LocalsTyped == work' \in [Workers -> WorkLocals] /\ hook' \in [Workers -> HookLocals]

LEMMA UntouchedTyped ==
  ASSUME IInv, Untouched, BesideTyped, LocalsTyped
  PROVE  Typed'
<1>1. \A w \in Workers: work'[w].case \in Cases \cup {None} /\ work'[w].pick \in Staff \cup {None}
  BY DEF LocalsTyped, WorkLocals
<1>2. TypeOK'
  BY <1>1 DEF IInv, Typed, TypeOK, Untouched, BesideTyped, CaseRows, Sent
<1> QED BY <1>2 DEF IInv, Typed, Untouched, LocalsTyped

LEMMA QuietStep ==
  ASSUME IInv, Untouched, BesideTyped, LocalsTyped, NEW w \in Workers,
         \A v \in Workers \ {w}: work'[v] = work[v] /\ hook'[v] = hook[v],
         Informed(w)', Prepared(w)', work'[w].todo # <<"insert">>
  PROVE  IInv'
  BY UntouchedKeeps, UntouchedTyped, OneMoves

-----------------------------------------------------------------------------
\* How a request moves on.
LEMMA GotoMoves ==
  ASSUME IInv, NEW w \in Workers, NEW steps \in Scripts, Goto(w, steps)
  PROVE  /\ work' \in [Workers -> WorkLocals] /\ work'[w].todo = steps
         /\ steps # <<>> => /\ work'[w].case = work[w].case /\ work'[w].slot = work[w].slot
                            /\ work'[w] # Idle
         /\ steps = <<>> => work'[w] = Idle
         /\ \A v \in Workers \ {w}: work'[v] = work[v]
<1> DEFINE l == IF steps = <<>> THEN Idle ELSE [work[w] EXCEPT !.todo = steps, !.pick = None]
<1>1. work \in [Workers -> WorkLocals] /\ work[w] \in WorkLocals
  BY DEF IInv, Typed
<1>2. work' = [work EXCEPT ![w] = l]
  BY <1>1 DEF Goto
<1>3. /\ l \in WorkLocals /\ l.todo = steps
      /\ steps # <<>> => l.case = work[w].case /\ l.slot = work[w].slot
  BY <1>1, IdleTyped DEF WorkLocals
<1>4. steps = <<>> => l = Idle
  OBVIOUS
<1> HIDE DEF l
<1> QED BY <1>1, <1>2, <1>3, <1>4, IdleTyped

LEMMA ForgetMoves ==
  ASSUME IInv, NEW w \in Workers, Forget(w)
  PROVE  /\ hook' \in [Workers -> HookLocals]
         /\ \A v \in Workers \ {w}: hook'[v] = hook[v]
         /\ work'[w] = Idle => hook'[w] = NoHook
         /\ work'[w] # Idle => hook'[w] = hook[w]
  BY IdleTyped DEF IInv, Typed, Forget

LEMMA FinishMoves ==
  ASSUME IInv, NEW w \in Workers, Finish(w)
  PROVE  /\ LocalsTyped
         /\ \A v \in Workers \ {w}: work'[v] = work[v] /\ hook'[v] = hook[v]
         /\ work'[w] = Idle /\ hook'[w] = NoHook
         /\ Informed(w)' /\ Prepared(w)' /\ work'[w].todo # <<"insert">>
<1>1. /\ LocalsTyped
      /\ \A v \in Workers \ {w}: work'[v] = work[v] /\ hook'[v] = hook[v]
      /\ work'[w] = Idle /\ hook'[w] = NoHook
  BY IdleTyped DEF IInv, Typed, Finish, LocalsTyped
<1>2. <<>> # <<"insert">>
  OBVIOUS
<1> QED BY <1>1, <1>2, IdleTyped, PreparedRest DEF Informed

-----------------------------------------------------------------------------
\* The lead and the provider: no request moves.

GateRows == [free15: BOOLEAN, flagged: BOOLEAN, verdict: {"none", "APPROVED", "REJECTED"},
             cleared: BOOLEAN, exec: BOOLEAN]
EnvelopeRows == [Submissions -> [made: BOOLEAN, signed: 0..3, halted: BOOLEAN]]

LEMMA GateStep ==
  ASSUME IInv, UNCHANGED <<case, active, work, via, envelope, contract, invoice, filed, account, promoted, hook>>,
         mishaps' \in 0..MaxMishaps, gate' \in GateRows,
         Cleared => Cleared', gate'.verdict = "APPROVED" => gate'.cleared
  PROVE  IInv'
<1>1. Typed'
  BY DEF IInv, Typed, TypeOK, Sent, GateRows
<1>2. Rows'
  BY DEF IInv, Rows, FreshRows, AccessWasSigned, SignedIsComplete, OneLiveContract,
     SentWasCleared, Sent, Cleared
<1>3. Keeps
  BY DEF Keeps, IInv, Typed
<1>4. ASSUME NEW v \in Workers PROVE NotTaken(v)
  BY Belongs DEF NotTaken, IInv, Prepared
<1> QED BY <1>1, <1>2, <1>3, <1>4, NobodyMoves

LEMMA FreeSessionCompletedInv == IInv /\ FreeSessionCompleted => IInv'
<1> SUFFICES ASSUME IInv, FreeSessionCompleted PROVE IInv'
  OBVIOUS
<1>1. gate \in GateRows /\ mishaps \in 0..MaxMishaps /\ (gate.verdict = "APPROVED" => gate.cleared)
  BY DEF IInv, Typed, TypeOK, GateRows, Rows, FreshRows
<1>2. gate' \in GateRows /\ (gate'.verdict = "APPROVED" => gate'.cleared)
      /\ (Cleared => Cleared')
  BY <1>1 DEF FreeSessionCompleted, GateRows, Cleared
<1> QED BY <1>1, <1>2, GateStep DEF FreeSessionCompleted, staffingVars

LEMMA LiaDecidesInv ==
  ASSUME IInv, NEW verdict \in {"APPROVED", "REJECTED"}, LiaDecides(verdict) PROVE IInv'
<1>1. gate \in GateRows /\ mishaps \in 0..MaxMishaps /\ MaxMishaps \in Nat
  BY StaffingAssumption DEF IInv, Typed, TypeOK, GateRows
<1>2. gate' \in GateRows /\ (gate'.verdict = "APPROVED" => gate'.cleared)
      /\ (Cleared => Cleared')
  BY <1>1 DEF LiaDecides, GateRows, Cleared
<1>3. mishaps' \in 0..MaxMishaps
  BY <1>1 DEF LiaDecides, GateRows
<1> QED BY <1>2, <1>3, GateStep DEF LiaDecides

LEMMA HardStopInv == IInv /\ HardStop => IInv'
<1> SUFFICES ASSUME IInv, HardStop PROVE IInv'
  OBVIOUS
<1>1. gate \in GateRows /\ mishaps \in 0..MaxMishaps /\ MaxMishaps \in Nat
      /\ (gate.verdict = "APPROVED" => gate.cleared)
  BY StaffingAssumption DEF IInv, Typed, TypeOK, GateRows, Rows, FreshRows
<1>2. gate' \in GateRows /\ (gate'.verdict = "APPROVED" => gate'.cleared)
      /\ (Cleared => Cleared')
  BY <1>1 DEF HardStop, GateRows, Cleared
<1>3. mishaps' \in 0..MaxMishaps
  BY <1>1 DEF HardStop
<1> QED BY <1>2, <1>3, GateStep DEF HardStop

\* Steps that leave alone the contract, what it rests on, and every request.
LEMMA AsideStep ==
  ASSUME IInv, Untouched, BesideTyped, work' = work, hook' = hook PROVE IInv'
<1>1. LocalsTyped
  BY DEF IInv, Typed, LocalsTyped
<1> QED BY <1>1, UntouchedKeeps, UntouchedTyped, NobodyMoves

LEMMA ClientRegistersInv == IInv /\ ClientRegisters => IInv'
<1> SUFFICES ASSUME IInv, ClientRegisters PROVE IInv'
  OBVIOUS
<1>1. Untouched /\ BesideTyped /\ work' = work /\ hook' = hook
  BY DEF ClientRegisters, Untouched, BesideTyped, staffingVars, IInv, Typed, TypeOK, CaseRows
<1> QED BY <1>1, AsideStep

LEMMA DeliverUnknownInv == ASSUME IInv, NEW s \in Submissions, DeliverUnknown(s) PROVE IInv'
<1>1. Untouched /\ BesideTyped /\ work' = work /\ hook' = hook
  BY DEF DeliverUnknown, Untouched, BesideTyped, staffingVars, IInv, Typed, TypeOK, CaseRows
<1> QED BY <1>1, AsideStep

LEMMA LeavesInv == ASSUME IInv, NEW s \in Staff, Leaves(s), UNCHANGED <<docVars, hook>> PROVE IInv'
<1>1. Untouched /\ BesideTyped /\ work' = work /\ hook' = hook
  BY StaffingAssumption DEF Leaves, docVars, Untouched, BesideTyped, IInv, Typed, TypeOK, CaseRows
<1> QED BY <1>1, AsideStep

\* The provider moves on: more signatures, or a refusal.
LEMMA ProviderStep ==
  ASSUME IInv, UNCHANGED <<case, active, work, via, gate, contract, invoice, filed, account, promoted, hook>>,
         mishaps' \in 0..MaxMishaps, envelope' \in EnvelopeRows,
         \A s \in Submissions: envelope'[s].made = envelope[s].made /\ envelope[s].signed <= envelope'[s].signed
  PROVE  IInv'
<1>1. Typed'
  BY DEF IInv, Typed, TypeOK, Sent, EnvelopeRows
<1>2. envelope \in EnvelopeRows /\ contract' = contract
      /\ \A s \in Submissions: contract[s].signed \in 0..3
  BY DEF IInv, Typed, TypeOK, EnvelopeRows
<1>3. /\ \A s \in Submissions: envelope[s].signed \in 0..3 /\ envelope'[s].signed \in 0..3
  BY <1>2 DEF EnvelopeRows
<1>4. AccessWasSigned'
  <2>1. AccessWasSigned
    BY DEF IInv, Rows
  <2>2. \A s \in Submissions: contract'[s].signed <= envelope'[s].signed
    BY <1>2, <1>3, <2>1 DEF AccessWasSigned
  <2>3. \A s \in Submissions, n \in 0..3: envelope[s].signed >= n => envelope'[s].signed >= n
    BY <1>3
  <2> QED BY <2>1, <2>2, <2>3 DEF AccessWasSigned, Client, Lia
<1>5. SignedIsComplete'
  <2>1. \A s \in Submissions: envelope[s].signed = 3 => envelope'[s].signed = 3
    BY <1>3
  <2> QED BY <2>1 DEF IInv, Rows, SignedIsComplete, Sent, Director
<1>6. Rows'
  BY <1>4, <1>5 DEF IInv, Rows, FreshRows, OneLiveContract, SentWasCleared, Sent
<1>7. Keeps
  BY DEF Keeps, Cleared
<1>8. ASSUME NEW v \in Workers PROVE NotTaken(v)
  BY Belongs DEF NotTaken, IInv, Prepared
<1> QED BY <1>1, <1>6, <1>7, <1>8, NobodyMoves

LEMMA SignInv == ASSUME IInv, NEW s \in Submissions, Sign(s) PROVE IInv'
<1>1. envelope \in EnvelopeRows
  BY DEF IInv, Typed, EnvelopeRows
<1>2. envelope[s] \in [made: BOOLEAN, signed: 0..3, halted: BOOLEAN] /\ envelope[s].signed + 1 \in 0..3
  BY <1>1 DEF EnvelopeRows, Sign, Director
<1>3. envelope' \in EnvelopeRows
      /\ \A t \in Submissions: envelope'[t].made = envelope[t].made /\ envelope[t].signed <= envelope'[t].signed
  BY <1>1, <1>2 DEF EnvelopeRows, Sign
<1>4. mishaps' \in 0..MaxMishaps
  BY DEF IInv, Typed, TypeOK, Sign, staffingVars
<1> QED BY <1>3, <1>4, ProviderStep DEF Sign, staffingVars

LEMMA DeclineInv == ASSUME IInv, NEW s \in Submissions, Decline(s) PROVE IInv'
<1>1. envelope \in EnvelopeRows /\ mishaps \in 0..MaxMishaps /\ MaxMishaps \in Nat
  BY StaffingAssumption DEF IInv, Typed, TypeOK, EnvelopeRows
<1>2. /\ envelope' \in EnvelopeRows
      /\ \A t \in Submissions: envelope'[t].made = envelope[t].made /\ envelope[t].signed <= envelope'[t].signed
  <2>1. \A t \in Submissions: envelope[t].signed \in 0..3
    BY <1>1 DEF EnvelopeRows
  <2>2. \A t \in Submissions: envelope'[t].made = envelope[t].made /\ envelope'[t].signed = envelope[t].signed
    BY <1>1 DEF EnvelopeRows, Decline
  <2>3. envelope' \in EnvelopeRows
    BY <1>1 DEF EnvelopeRows, Decline
  <2> QED BY <2>1, <2>2, <2>3
<1>3. mishaps' \in 0..MaxMishaps
  BY <1>1 DEF Decline
<1> QED BY <1>2, <1>3, ProviderStep DEF Decline

-----------------------------------------------------------------------------
\* How a request starts, and moves on to its next step.

LEMMA StartMoves ==
  ASSUME IInv, NEW w \in Workers, NEW l \in WorkLocals, StartWork(w, l)
  PROVE  /\ work[w] = Idle /\ work' \in [Workers -> WorkLocals]
         /\ work'[w].todo = l.todo /\ (l.todo # <<>> => work'[w] = l)
         /\ \A v \in Workers \ {w}: work'[v] = work[v]
<1>1. work \in [Workers -> WorkLocals] /\ work[w] \in WorkLocals
  BY DEF IInv, Typed
<1> QED BY <1>1, IdleTyped DEF StartWork, IsIdle

\* A request without steps is not a delivery.
LEMMA IdleHook == ASSUME IInv, NEW w \in Workers, work[w] = Idle PROVE ~hook[w].delivery
  BY IdleTyped DEF IInv, Informed

LEMMA OnwardMoves ==
  ASSUME IInv, NEW w \in Workers, work[w].todo # <<>>, Onward(w)
  PROVE  /\ work' \in [Workers -> WorkLocals] /\ work'[w].todo = Tail(work[w].todo)
         /\ Tail(work[w].todo) # <<>> =>
              work'[w].case = work[w].case /\ work'[w].slot = work[w].slot /\ work'[w] # Idle
         /\ Tail(work[w].todo) = <<>> => work'[w] = Idle
         /\ \A v \in Workers \ {w}: work'[v] = work[v]
<1>1. Tail(work[w].todo) \in Scripts
  BY ScriptTail DEF IInv, Typed, WorkLocals
<1> QED BY <1>1, GotoMoves DEF Onward

\* What is known of a request that is about to take a step.
LEMMA Ready ==
  ASSUME IInv, NEW w \in Workers
  PROVE  /\ work[w] \in WorkLocals /\ hook[w] \in HookLocals /\ work[w].todo \in Scripts
         /\ work \in [Workers -> WorkLocals] /\ hook \in [Workers -> HookLocals]
         /\ Informed(w) /\ Prepared(w)
         /\ contract \in [Submissions -> [status: {"none", "SENT", "DECLINED", "SIGNED"},
               byLead: BOOLEAN, case: Cases \cup {None}, lia: Staff \cup {None}, signed: 0..3, signedAt: BOOLEAN]]
         /\ envelope \in EnvelopeRows /\ case \in CaseRows /\ active \subseteq Staff
         /\ mishaps \in 0..MaxMishaps /\ MaxMishaps \in Nat
         /\ filed \in [Cases -> SUBSET {"visaType", "pdf"}] /\ account \in {"none", "LEAD", "STUDENT"}
         /\ invoice \in [Cases -> {"none", "SENT", "PAID"}] /\ via \in {"docuseal", "docusign"}
  BY StaffingAssumption DEF IInv, Typed, TypeOK, WorkLocals, CaseRows, EnvelopeRows

-----------------------------------------------------------------------------
\* Sending.

LEMMA SendToLeadInv == ASSUME IInv, NEW w \in Workers, SendToLead(w) PROVE IInv'
<1> DEFINE l == [Idle EXCEPT !.todo = <<"submit", "insert">>]
<1>1. l \in WorkLocals /\ l.todo = <<"submit", "insert">> /\ l.todo # <<>>
  <2>1. <<"submit", "insert">> \in Scripts
    BY Belongs DEF Scripts
  <2> QED BY <2>1, IdleTyped DEF WorkLocals
<1>2. /\ work[w] = Idle /\ work' \in [Workers -> WorkLocals] /\ work'[w].todo = <<"submit", "insert">>
      /\ \A v \in Workers \ {w}: work'[v] = work[v]
  <2> HIDE DEF l
  <2>1. StartWork(w, l)
    BY DEF SendToLead, l
  <2> QED BY <1>1, <2>1, StartMoves
<1>3. PICK s \in Staff: Pick("lia", s) /\ hook' = [hook EXCEPT ![w].lia = s]
  BY DEF SendToLead
<1>4. /\ hook' \in [Workers -> HookLocals] /\ hook'[w].lia \in Staff /\ ~hook'[w].delivery
      /\ \A v \in Workers \ {w}: hook'[v] = hook[v]
  <2>1. ~hook[w].delivery /\ hook \in [Workers -> HookLocals]
    BY <1>2, IdleHook, Ready
  <2> QED BY <1>3, <2>1 DEF HookLocals
<1>5. Cleared'
  BY DEF SendToLead, docVars, SendAllowed, Cleared, IInv, Rows, FreshRows
<1>6. Informed(w)' /\ Prepared(w)'
  BY <1>2, <1>4, <1>5, Belongs, PreparedSending DEF Informed
<1>7. Untouched /\ BesideTyped /\ LocalsTyped
  BY <1>2, <1>4, Ready DEF SendToLead, docVars, Untouched, BesideTyped, LocalsTyped
<1> QED BY <1>2, <1>4, <1>6, <1>7, Belongs, QuietStep

LEMMA SendToCaseInv == ASSUME IInv, NEW w \in Workers, NEW c \in Cases, SendToCase(w, c) PROVE IInv'
<1> DEFINE l == [Idle EXCEPT !.todo = ToCase, !.case = c]
<1>1. l \in WorkLocals /\ l.todo = ToCase /\ l.todo # <<>> /\ l.case = c
  <2>1. ToCase \in Scripts /\ ToCase # <<>>
    BY Belongs DEF Scripts, ToCase
  <2> QED BY <2>1, IdleTyped DEF WorkLocals
<1>2. /\ work[w] = Idle /\ work' \in [Workers -> WorkLocals] /\ work'[w].todo = ToCase /\ work'[w].case = c
      /\ \A v \in Workers \ {w}: work'[v] = work[v]
  <2>1. StartWork(w, l)
    BY DEF SendToCase, ToCase
  <2> HIDE DEF l
  <2> QED BY <1>1, <2>1, StartMoves
<1>4. hook' = hook /\ ~hook[w].delivery /\ hook \in [Workers -> HookLocals]
  BY <1>2, IdleHook, Ready DEF SendToCase
<1>5. Cleared'
  BY DEF SendToCase, docVars, SendAllowed, Cleared, IInv, Rows, FreshRows
<1>6. Informed(w)' /\ Prepared(w)'
  BY <1>2, <1>4, <1>5, Belongs, PreparedSending DEF Informed
<1>7. Untouched /\ BesideTyped /\ LocalsTyped
  BY <1>2, <1>4, Ready DEF SendToCase, docVars, Untouched, BesideTyped, LocalsTyped
<1> QED BY <1>2, <1>4, <1>6, <1>7, Belongs, QuietStep

\* A step that only ends the request.
LEMMA EndStep ==
  ASSUME IInv, NEW w \in Workers, Finish(w), Untouched, BesideTyped PROVE IInv'
  BY FinishMoves, QuietStep

LEMMA SubmitInv == ASSUME IInv, NEW w \in Workers, Submit(w) PROVE IInv'
<1>1. ASSUME Finish(w), UNCHANGED envelope PROVE IInv'
  <2>1. Untouched /\ BesideTyped
    BY <1>1, Ready DEF Submit, Untouched, BesideTyped
  <2> QED BY <1>1, <2>1, EndStep
<1>2. ASSUME NEW s \in Submissions, ~envelope[s].made, envelope' = [envelope EXCEPT ![s].made = TRUE],
             hook' = [hook EXCEPT ![w].sub = s], Onward(w)
      PROVE  IInv'
  <2> DEFINE t == work[w].todo
  <2>1. t \in Sending /\ t # <<>> /\ Head(t) = "submit" /\ t # <<"insert">> /\ t # ToCase
        /\ Tail(t) = <<"insert">> /\ Tail(t) # <<>>
    <3>1. t # <<>> /\ Head(t) = "submit"
      BY DEF Submit, Doing
    <3>2. t \in Sending /\ t # <<"insert">> /\ t # ToCase
      BY <3>1, ByHead, Ready, SendingSteps DEF ToCase
    <3> QED BY <3>1, <3>2, SendingSteps
  <2>2. /\ work' \in [Workers -> WorkLocals] /\ work'[w].todo = <<"insert">>
        /\ \A v \in Workers \ {w}: work'[v] = work[v]
    BY <1>2, <2>1, OnwardMoves
  <2>3. /\ Cleared /\ ~hook[w].delivery /\ hook[w].lia \in Staff
    BY <2>1, Ready DEF Prepared
  <2>4. /\ hook' \in [Workers -> HookLocals] /\ hook'[w].lia \in Staff /\ ~hook'[w].delivery
        /\ hook'[w].sub = s
        /\ \A v \in Workers \ {w}: hook'[v] = hook[v]
    BY ZenonT(60), <1>2, <2>3, Ready DEF HookLocals
  <2>5. /\ envelope' \in EnvelopeRows
        /\ envelope'[s].made
        /\ \A u \in Submissions: (envelope[u].made => envelope'[u].made) /\ envelope'[u].signed = envelope[u].signed
        /\ \A u \in Submissions \ {s}: envelope'[u] = envelope[u]
        /\ \A u \in Submissions: envelope[u].signed \in 0..3
    BY ZenonT(60), <1>2, Ready DEF EnvelopeRows
  <2>6. contract[s].status = "none" /\ contract' = contract
    BY <1>2 DEF Submit, IInv, Rows, FreshRows
  <2>7. Typed'
    <3>1. \A v \in Workers: work'[v].case \in Cases \cup {None} /\ work'[v].pick \in Staff \cup {None}
      BY <2>2 DEF WorkLocals
    <3> QED BY <2>2, <2>4, <2>5, <3>1 DEF IInv, Typed, TypeOK, Submit, Sent, EnvelopeRows
  <2>8. Cleared'
    BY <2>3 DEF Submit, Cleared
  <2>9. Rows'
    <3>1. FreshRows' /\ SentWasCleared'
      BY <2>5, <2>6, <2>8 DEF IInv, Rows, FreshRows, SentWasCleared, Submit, Cleared
    <3>2. AccessWasSigned'
      BY <2>5, <2>6 DEF IInv, Rows, AccessWasSigned, Submit
    <3>3. SignedIsComplete' /\ OneLiveContract'
      BY <2>5, <2>6 DEF IInv, Rows, SignedIsComplete, OneLiveContract, Submit, Sent
    <3> QED BY <3>1, <3>2, <3>3 DEF Rows
  <2>10. Keeps
    BY <2>5, <2>6, <2>8 DEF Keeps, Submit
  <2>11. \A v \in Workers: NotTaken(v)
    BY <2>6, Belongs DEF NotTaken, IInv, Prepared
  <2>12. Informed(w)' /\ Prepared(w)'
    BY <2>2, <2>4, <2>5, <2>6, <2>8, Belongs, PreparedSending DEF Informed
  <2>13. \A v \in Workers \ {w}: work[v].todo = <<"insert">> => hook[v].sub # s
    BY <1>2, Belongs DEF IInv, Prepared
  <2> QED BY <2>2, <2>4, <2>7, <2>9, <2>10, <2>11, <2>12, <2>13, OneMoves
<1> QED BY <1>1, <1>2 DEF Submit

LEMMA InsertContractInv == ASSUME IInv, NEW w \in Workers, InsertContract(w) PROVE IInv'
<1> DEFINE t == work[w].todo  s == hook[w].sub  c == work[w].case
<1>1. t = <<"insert">> /\ s \in Submissions /\ envelope[s].made /\ contract[s].status = "none"
      /\ hook[w].lia \in Staff
  <2>1. t # <<>> /\ Head(t) = "insert"
    BY DEF InsertContract, Doing
  <2>2. t = <<"insert">> /\ t \in Sending /\ t # ToCase
    BY <2>1, ByHead, Ready, SendingSteps, Belongs
  <2> QED BY <2>2, Ready DEF Prepared
<1>2. CASE LiveContract(c)
  <2>1. Finish(w) /\ Untouched /\ BesideTyped
    BY <1>2, Ready DEF InsertContract, Untouched, BesideTyped
  <2> QED BY <2>1, EndStep
<1>3. CASE ~LiveContract(c)
  <2> DEFINE row == [NoContract EXCEPT !.status = "SENT", !.byLead = c = None, !.case = c, !.lia = hook[w].lia]
  <2>1. /\ row \in [status: {"none", "SENT", "DECLINED", "SIGNED"}, byLead: BOOLEAN,
                    case: Cases \cup {None}, lia: Staff \cup {None}, signed: 0..3, signedAt: BOOLEAN]
        /\ row.status = "SENT" /\ row.case = c /\ row.signed = 0 /\ ~row.signedAt /\ row.lia \in Staff
    <3> DEFINE byLead == c = None
    <3>1. row = [NoContract EXCEPT !.status = "SENT", !.byLead = byLead, !.case = c, !.lia = hook[w].lia]
      OBVIOUS
    <3>2. c \in Cases \cup {None} /\ byLead \in BOOLEAN /\ hook[w].lia \in Staff
      BY <1>1, Ready DEF WorkLocals
    <3> HIDE DEF byLead, row
    <3>3. row.status = "SENT" /\ row.case = c /\ row.signed = 0 /\ ~row.signedAt /\ row.lia \in Staff
      BY <1>1, <3>1 DEF NoContract
    <3>4. row = [status |-> "SENT", byLead |-> byLead, case |-> c, lia |-> hook[w].lia,
                 signed |-> 0, signedAt |-> FALSE]
      BY <3>1 DEF NoContract
    <3> QED BY <3>2, <3>3, <3>4
  <2>2. contract' = [contract EXCEPT ![s] = row] /\ Finish(w)
    BY <1>3 DEF InsertContract
  <2> HIDE DEF row
  <2>3. contract'[s] = row /\ \A u \in Submissions \ {s}: contract'[u] = contract[u]
    BY <1>1, <2>2, Ready
  <2>4. Sent' = Sent \cup {s} /\ s \notin Sent
    BY <1>1, <2>1, <2>3 DEF Sent
  <2>5. /\ LocalsTyped /\ Informed(w)' /\ Prepared(w)' /\ work'[w].todo # <<"insert">>
        /\ \A v \in Workers \ {w}: work'[v] = work[v] /\ hook'[v] = hook[v]
    BY <2>2, FinishMoves
  <2>6. Typed'
    <3>1. contract' \in [Submissions -> [status: {"none", "SENT", "DECLINED", "SIGNED"}, byLead: BOOLEAN,
                    case: Cases \cup {None}, lia: Staff \cup {None}, signed: 0..3, signedAt: BOOLEAN]]
      BY <2>1, <2>2, Ready
    <3>2. \A u \in Sent': contract'[u].lia \in Staff
      BY <2>1, <2>3, <2>4 DEF IInv, Typed, TypeOK, Sent
    <3>3. \A v \in Workers: work'[v].case \in Cases \cup {None} /\ work'[v].pick \in Staff \cup {None}
      BY <2>5 DEF LocalsTyped, WorkLocals
    <3>4. TypeOK'
      BY <3>1, <3>2, <3>3 DEF IInv, Typed, TypeOK, InsertContract
    <3> QED BY <2>5, <3>4 DEF IInv, Typed, InsertContract, LocalsTyped
  <2>7. Rows'
    <3>1. FreshRows'
      <4>1. gate'.verdict = "APPROVED" => gate'.cleared
        BY DEF IInv, Rows, FreshRows, InsertContract
      <4>2. ASSUME NEW u \in Submissions
            PROVE  /\ contract'[u].status = "none" => contract'[u] = NoContract
                   /\ ~envelope'[u].made => contract'[u].status = "none"
        BY <1>1, <2>1, <2>3 DEF IInv, Rows, FreshRows, InsertContract
      <4> QED BY <4>1, <4>2 DEF FreshRows
    <3>2. AccessWasSigned'
      <4>1. \A u \in Submissions: contract'[u].signed <= envelope'[u].signed
        <5>1. envelope' = envelope /\ \A u \in Submissions: envelope[u].signed >= 0
          BY Ready DEF InsertContract, EnvelopeRows
        <5>2. \A u \in Submissions: contract[u].signed <= envelope[u].signed
          BY DEF IInv, Rows, AccessWasSigned
        <5>3. contract'[s].signed <= envelope[s].signed
          BY <1>1, <2>1, <2>3, <5>1
        <5> QED BY <2>3, <5>1, <5>2, <5>3
      <4> QED BY <4>1 DEF IInv, Rows, AccessWasSigned, InsertContract
    <3>3. SignedIsComplete'
      <4>1. \A u \in Sent \ {s}: contract'[u] = contract[u]
        BY <2>3 DEF Sent
      <4>2. envelope' = envelope /\ via' = via
        BY DEF InsertContract
      <4> QED BY <2>1, <2>3, <2>4, <4>1, <4>2 DEF IInv, Rows, SignedIsComplete
    <3>4. OneLiveContract'
      BY <1>3, <2>1, <2>3, <2>4 DEF IInv, Rows, OneLiveContract, Sent, LiveContract
    <3>5. SentWasCleared'
      BY DEF IInv, Rows, SentWasCleared, InsertContract
    <3> QED BY <3>1, <3>2, <3>3, <3>4, <3>5 DEF Rows
  <2>8. Keeps
    <3>1. \A u \in Submissions:
            /\ contract[u].status # "none" => contract'[u].status # "none"
            /\ contract[u].case # None => contract'[u].case # None
      BY <1>1, <2>1, <2>3 DEF IInv, Rows, FreshRows, NoContract
    <3>2. envelope' = envelope /\ via' = via /\ gate' = gate
      BY DEF InsertContract
    <3>3. \A u \in Submissions: envelope[u].signed \in 0..3
      BY Ready DEF EnvelopeRows
    <3>4. \A u \in Submissions: envelope[u].signed <= envelope'[u].signed
      BY <3>2, <3>3
    <3>5. Cleared => Cleared'
      BY <3>2 DEF Cleared
    <3>6. \A u \in Submissions: envelope[u].made => envelope'[u].made
      BY <3>2
    <3>7. ASSUME NEW u \in Submissions
          PROVE  /\ contract[u].status # "none" => contract'[u].status # "none"
                 /\ contract[u].case # None => contract'[u].case # None
                 /\ envelope[u].made => envelope'[u].made
                 /\ envelope[u].signed <= envelope'[u].signed
      BY <3>1, <3>4, <3>6
    <3> QED BY <3>2, <3>5, <3>7 DEF Keeps
  <2>9. ASSUME NEW v \in Workers \ {w} PROVE NotTaken(v)
    <3>1. work[v].todo = <<"insert">> => hook[v].sub # s /\ hook[v].sub \in Submissions
                                         /\ contract[hook[v].sub].status = "none"
      BY <1>1, Belongs DEF IInv, InsertsApart, Prepared
    <3> QED BY <2>3, <3>1 DEF NotTaken
  <2> QED BY <2>5, <2>6, <2>7, <2>8, <2>9, OneMoves
<1> QED BY <1>2, <1>3

-----------------------------------------------------------------------------
\* A delivery reads its row, and asks the provider.

LEMMA DeliverInv == ASSUME IInv, NEW w \in Workers, NEW s \in Submissions, Deliver(w, s) PROVE IInv'
<1> DEFINE steps == IF via = "docuseal" THEN <<"fetch", "sync", "branch">> ELSE ToFetch
           l == [Idle EXCEPT !.case = contract[s].case, !.todo = steps]
           h == [NoHook EXCEPT !.sub = s, !.delivery = TRUE, !.status = contract[s].status]
<1>1. /\ l \in WorkLocals /\ l.todo = steps /\ l.todo # <<>> /\ l.case = contract[s].case
      /\ steps \in Seal \cup Envelopes /\ (steps \in Envelopes => via = "docusign" /\ steps = ToFetch)
      /\ steps # <<"insert">>
  <2>1. steps \in Seal \cup Envelopes /\ (via = "docuseal" => steps \in Seal) /\ steps # <<>>
    BY Belongs DEF ToFetch
  <2>2. steps \in Scripts /\ steps # <<"insert">>
    BY <2>1, Belongs, Apart DEF Scripts
  <2>3. via # "docuseal" => steps = ToFetch /\ via = "docusign"
    BY Ready
  <2>4. via = "docuseal" => steps \notin Envelopes
    BY <2>1, <2>2, Apart
  <2> HIDE DEF steps
  <2> QED BY <2>1, <2>2, <2>3, <2>4, IdleTyped, Ready DEF WorkLocals
<1>2. h \in HookLocals /\ h.delivery /\ h.sub = s /\ h.seen = 0 /\ h.state = "none"
  <2>1. contract[s].status \in {"none", "SENT", "DECLINED", "SIGNED"}
    BY Ready
  <2> QED BY <2>1, IdleTyped DEF NoHook, HookLocals
<1>3. StartWork(w, l) /\ hook' = [hook EXCEPT ![w] = h] /\ contract[s].status # "none"
  BY DEF Deliver, ToFetch
<1> HIDE DEF steps, l, h
<1>4. /\ work' \in [Workers -> WorkLocals] /\ work'[w].todo = steps /\ work'[w].case = contract[s].case
      /\ \A v \in Workers \ {w}: work'[v] = work[v]
  BY <1>1, <1>3, StartMoves
<1>5. /\ hook' \in [Workers -> HookLocals] /\ hook'[w] = h
      /\ \A v \in Workers \ {w}: hook'[v] = hook[v]
  BY <1>2, <1>3, Ready
<1>6. Untouched /\ BesideTyped /\ LocalsTyped
  BY <1>4, <1>5, Ready DEF Deliver, Untouched, BesideTyped, LocalsTyped
<1>7. Informed(w)'
  <2>1. envelope'[s].signed \in 0..3
    BY Ready DEF Deliver, EnvelopeRows
  <2>2. work'[w].todo # <<>> /\ hook'[w].sub = s /\ hook'[w].seen = 0 /\ hook'[w].state = "none"
    BY <1>1, <1>2, <1>4, <1>5
  <2>3. contract'[s].status # "none"
    BY <1>3 DEF Deliver
  <2>4. hook'[w].seen <= envelope'[s].signed
    BY <2>1, <2>2
  <2> QED BY <2>2, <2>3, <2>4 DEF Informed
<1>8. Prepared(w)'
  <2>1. CASE steps \in Seal
    BY <1>2, <1>4, <1>5, <2>1, PreparedSeal DEF Deliver
  <2>2. CASE steps \in Envelopes
    BY <1>1, <1>2, <1>4, <1>5, <2>2, PreparedEnvelopes DEF Deliver
  <2> QED BY <1>1, <2>1, <2>2
<1> QED BY <1>1, <1>4, <1>5, <1>6, <1>7, <1>8, QuietStep

\* What stays of a step's script is not a send.
LEMMA NotInsert ==
  ASSUME NEW t \in Scripts, t \notin Sending PROVE t # <<"insert">>
  BY Belongs

LEMMA FetchInv == ASSUME IInv, NEW w \in Workers, Fetch(w) PROVE IInv'
<1> DEFINE t == work[w].todo  s == hook[w].sub
           h == [hook[w] EXCEPT !.seen = envelope[s].signed,
                   !.state = IF via = "docuseal" THEN "none" ELSE EnvelopeStatus(envelope[s])]
<1>1. t # <<>> /\ Head(t) = "fetch" /\ t \in Scripts /\ t \in Seal \cup Envelopes
  BY Ready, ByHead DEF Fetch, Doing
<1>2. hook[w].delivery /\ s \in Submissions /\ contract[s].status # "none"
  BY <1>1, Ready DEF Informed, Prepared
<1>3. /\ Tail(t) # <<>> /\ Tail(t) # <<"insert">>
      /\ t \in Seal => Tail(t) \in Seal
      /\ t \in Envelopes => Tail(t) \in Envelopes /\ Tail(t) # ToFetch
  <2>1. /\ t \in Seal => Tail(t) \in Seal
        /\ t \in Envelopes => Tail(t) \in Envelopes /\ Tail(t) # ToFetch
    BY <1>1, SealSteps, EnvelopesSteps
  <2>2. Tail(t) \in Scripts /\ Tail(t) # <<>> /\ Tail(t) \notin Sending
    BY <1>1, <2>1, Apart, ScriptTail
  <2> QED BY <2>1, <2>2, NotInsert
<1>4. /\ work' \in [Workers -> WorkLocals] /\ work'[w].todo = Tail(t) /\ work'[w].case = work[w].case
      /\ \A v \in Workers \ {w}: work'[v] = work[v]
  BY <1>1, <1>3, OnwardMoves DEF Fetch
<1>5. /\ h \in HookLocals /\ h.delivery /\ h.sub = s /\ h.seen = envelope[s].signed
      /\ envelope[s].signed \in 0..3
      /\ h.state = "SIGNED" => envelope[s].signed = Director
      /\ via = "docusign" => h.state # "none"
  <2>1. envelope[s].signed \in 0..3 /\ EnvelopeStatus(envelope[s]) \in {"SENT", "DECLINED", "SIGNED"}
        /\ (EnvelopeStatus(envelope[s]) = "SIGNED" => envelope[s].signed = Director)
    BY <1>2, Ready DEF EnvelopeRows, EnvelopeStatus
  <2> QED BY ZenonT(60), <1>2, <2>1, Ready DEF HookLocals
<1>6. hook' = [hook EXCEPT ![w] = h]
  BY Ready DEF Fetch, HookLocals
<1> HIDE DEF h
<1>7. /\ hook' \in [Workers -> HookLocals] /\ hook'[w] = h
      /\ \A v \in Workers \ {w}: hook'[v] = hook[v]
  BY <1>5, <1>6, Ready
<1>8. Untouched /\ BesideTyped /\ LocalsTyped
  BY <1>4, <1>7, Ready DEF Fetch, docVars, Untouched, BesideTyped, LocalsTyped
<1>9. Informed(w)'
  <2>1. envelope' = envelope /\ contract' = contract
    BY DEF Fetch, docVars
  <2>2. h.seen <= envelope[s].signed
    BY <1>5
  <2> QED BY <1>2, <1>3, <1>4, <1>5, <1>7, <2>1, <2>2 DEF Informed
<1>10. Prepared(w)'
  <2>1. CASE t \in Seal
    <3>1. work[w].case # None => contract[s].case # None
      BY <2>1, Ready DEF Prepared
    <3> QED BY ZenonT(60), <1>3, <1>4, <1>5, <1>7, <2>1, <3>1, PreparedSeal DEF Fetch, docVars
  <2>2. CASE t \in Envelopes
    <3>1. via = "docusign"
      BY <2>2, Ready DEF Prepared
    <3> QED BY <1>3, <1>4, <1>5, <1>7, <2>2, <3>1, PreparedEnvelopes DEF Fetch, docVars
  <2> QED BY <1>1, <2>1, <2>2
<1> QED BY <1>3, <1>4, <1>7, <1>8, <1>9, <1>10, QuietStep

LEMMA FetchRecipientsInv == ASSUME IInv, NEW w \in Workers, FetchRecipients(w) PROVE IInv'
<1> DEFINE t == work[w].todo  s == hook[w].sub
           h == [hook[w] EXCEPT !.seen = envelope[s].signed]
<1>1. t # <<>> /\ Head(t) = "recipients" /\ t \in Scripts /\ t \in Envelopes
  BY Ready, ByHead DEF FetchRecipients, Doing
<1>2. /\ hook[w].delivery /\ s \in Submissions /\ contract[s].status # "none"
      /\ hook[w].state = "SIGNED" => envelope[s].signed = Director
      /\ via = "docusign" /\ t # ToFetch /\ hook[w].state # "none"
  <2>1. t # ToFetch
    BY <1>1, EnvelopesSteps
  <2> QED BY <1>1, <2>1, Ready DEF Informed, Prepared
<1>3. Tail(t) # <<>> /\ Tail(t) # <<"insert">> /\ Tail(t) \in Envelopes /\ Tail(t) # ToFetch
  <2>1. Tail(t) \in Envelopes /\ Tail(t) # ToFetch
    BY <1>1, EnvelopesSteps
  <2>2. Tail(t) \in Scripts /\ Tail(t) # <<>> /\ Tail(t) \notin Sending
    BY <1>1, <2>1, Apart, ScriptTail
  <2> QED BY <2>1, <2>2, NotInsert
<1>4. /\ work' \in [Workers -> WorkLocals] /\ work'[w].todo = Tail(t)
      /\ \A v \in Workers \ {w}: work'[v] = work[v]
  BY <1>1, <1>3, OnwardMoves DEF FetchRecipients
<1>5. /\ h \in HookLocals /\ h.delivery /\ h.sub = s /\ h.seen = envelope[s].signed
      /\ envelope[s].signed \in 0..3 /\ h.state = hook[w].state
  <2>1. envelope[s].signed \in 0..3
    BY <1>2, Ready DEF EnvelopeRows
  <2> QED BY ZenonT(60), <1>2, <2>1, Ready DEF HookLocals
<1>6. hook' = [hook EXCEPT ![w] = h]
  BY Ready DEF FetchRecipients, HookLocals
<1> HIDE DEF h
<1>7. /\ hook' \in [Workers -> HookLocals] /\ hook'[w] = h
      /\ \A v \in Workers \ {w}: hook'[v] = hook[v]
  BY <1>5, <1>6, Ready
<1>8. Untouched /\ BesideTyped /\ LocalsTyped
  BY <1>4, <1>7, Ready DEF FetchRecipients, docVars, Untouched, BesideTyped, LocalsTyped
<1>9. Informed(w)'
  BY <1>2, <1>3, <1>4, <1>5, <1>7 DEF Informed, FetchRecipients, docVars
<1>10. Prepared(w)'
  BY <1>2, <1>3, <1>4, <1>5, <1>7, PreparedEnvelopes DEF FetchRecipients, docVars
<1> QED BY <1>3, <1>4, <1>7, <1>8, <1>9, <1>10, QuietStep

-----------------------------------------------------------------------------
\* One row of a contract is rewritten.

ContractRow == [status: {"none", "SENT", "DECLINED", "SIGNED"}, byLead: BOOLEAN,
                case: Cases \cup {None}, lia: Staff \cup {None}, signed: 0..3, signedAt: BOOLEAN]

LEMMA RowStep ==
  ASSUME IInv, UNCHANGED <<via, gate, envelope, invoice, promoted>>, BesideTyped, LocalsTyped,
         NEW s \in Submissions, NEW row \in ContractRow, contract' = [contract EXCEPT ![s] = row],
         contract[s].status # "none", row.status # "none", row.lia = contract[s].lia,
         row.signed <= envelope[s].signed,
         contract[s].case # None => row.case # None,
         row.signedAt => envelope[s].signed = Director /\ (via = "docuseal" => row.case # None),
         \A other \in Sent \ {s}: contract[other].case # row.case
  PROVE  Typed' /\ Rows' /\ Keeps /\ \A v \in Workers: NotTaken(v)
<1>1. contract \in [Submissions -> ContractRow] /\ contract' \in [Submissions -> ContractRow]
  BY Ready DEF IInv, Typed, TypeOK, ContractRow
<1>2. contract'[s] = row /\ \A u \in Submissions \ {s}: contract'[u] = contract[u]
  BY <1>1
<1>3. Sent' = Sent /\ s \in Sent
  BY <1>2 DEF Sent
<1>4. Typed'
  <2>1. \A u \in Sent': contract'[u].lia \in Staff
    BY <1>2, <1>3 DEF IInv, Typed, TypeOK
  <2>2. \A v \in Workers: work'[v].case \in Cases \cup {None} /\ work'[v].pick \in Staff \cup {None}
    BY DEF LocalsTyped, WorkLocals
  <2>3. TypeOK'
    BY <1>1, <2>1, <2>2 DEF IInv, Typed, TypeOK, BesideTyped, CaseRows, ContractRow
  <2> QED BY <2>3 DEF IInv, Typed, LocalsTyped
<1>5. Rows'
  <2>1. FreshRows'
    BY <1>2 DEF IInv, Rows, FreshRows
  <2>2. AccessWasSigned'
    BY <1>2 DEF IInv, Rows, AccessWasSigned
  <2>3. SignedIsComplete'
    BY <1>2, <1>3 DEF IInv, Rows, SignedIsComplete, Sent
  <2>4. OneLiveContract'
    BY <1>2, <1>3 DEF IInv, Rows, OneLiveContract, Sent
  <2>5. SentWasCleared'
    BY DEF IInv, Rows, SentWasCleared
  <2> QED BY <2>1, <2>2, <2>3, <2>4, <2>5 DEF Rows
<1>6. Keeps
  <2>1. \A u \in Submissions: envelope[u].signed \in 0..3
    BY DEF IInv, Typed
  <2>2. ASSUME NEW u \in Submissions
        PROVE  /\ contract[u].status # "none" => contract'[u].status # "none"
               /\ contract[u].case # None => contract'[u].case # None
               /\ envelope[u].made => envelope'[u].made
               /\ envelope[u].signed <= envelope'[u].signed
    BY <1>2, <2>1
  <2>3. Cleared => Cleared'
    BY DEF Cleared
  <2> QED BY <2>2, <2>3 DEF Keeps
<1>7. ASSUME NEW v \in Workers PROVE NotTaken(v)
  <2>1. work[v].todo = <<"insert">> => hook[v].sub \in Submissions /\ contract[hook[v].sub].status = "none"
    BY Belongs DEF IInv, Prepared
  <2> QED BY <1>2, <2>1 DEF NotTaken
<1> QED BY <1>4, <1>5, <1>6, <1>7

\* Its row has been read, so it exists; what else holds of it.
LEMMA RowOf ==
  ASSUME IInv, NEW w \in Workers, hook[w].delivery
  PROVE  LET s == hook[w].sub IN
         /\ s \in Submissions /\ s \in Sent /\ contract[s].status # "none" /\ contract[s] \in ContractRow
         /\ contract[s].signed <= envelope[s].signed /\ hook[w].seen <= envelope[s].signed
         /\ hook[w].state = "SIGNED" => envelope[s].signed = Director
         /\ contract[s].signedAt =>
              envelope[s].signed = Director /\ (via = "docuseal" => contract[s].case # None)
         /\ \A other \in Sent \ {s}: contract[other].case # contract[s].case
         /\ envelope[s].signed \in 0..3 /\ hook[w].seen \in 0..3
<1> DEFINE s == hook[w].sub
<1>1. /\ s \in Submissions /\ contract[s].status # "none" /\ hook[w].seen <= envelope[s].signed
      /\ hook[w].state = "SIGNED" => envelope[s].signed = Director
  BY DEF IInv, Informed
<1>2. contract[s] \in ContractRow /\ envelope[s].signed \in 0..3 /\ hook[w].seen \in 0..3
  BY <1>1, Ready DEF ContractRow, EnvelopeRows, HookLocals
<1>3. s \in Sent
  BY <1>1 DEF Sent
<1> QED BY <1>1, <1>2, <1>3 DEF IInv, Rows, AccessWasSigned, SignedIsComplete, OneLiveContract, Sent

LEMMA SyncSignersInv == ASSUME IInv, NEW w \in Workers, SyncSigners(w) PROVE IInv'
<1> DEFINE t == work[w].todo  s == hook[w].sub
           row == [contract[s] EXCEPT !.signed = Synced(@, hook[w].seen)]
<1>1. t # <<>> /\ Head(t) = "sync" /\ t \in Scripts /\ t \in Seal \cup Envelopes
  BY Ready, ByHead DEF SyncSigners, Doing
<1>2. hook[w].delivery /\ hook \in [Workers -> HookLocals] /\ hook' = hook
  BY <1>1, Ready DEF Prepared, SyncSigners
<1>3. /\ Tail(t) # <<>> /\ Tail(t) # <<"insert">>
      /\ t \in Seal => Tail(t) \in Seal
      /\ t \in Envelopes => Tail(t) \in Envelopes /\ t # ToFetch
  <2>1. /\ t \in Seal => Tail(t) \in Seal
        /\ t \in Envelopes => Tail(t) \in Envelopes /\ t # ToFetch
    BY <1>1, SealSteps, EnvelopesSteps
  <2>2. Tail(t) \in Scripts /\ Tail(t) # <<>> /\ Tail(t) \notin Sending
    BY <1>1, <2>1, Apart, ScriptTail
  <2> QED BY <2>1, <2>2, NotInsert
<1>4. /\ work' \in [Workers -> WorkLocals] /\ work'[w].todo = Tail(t) /\ work'[w].case = work[w].case
      /\ \A v \in Workers \ {w}: work'[v] = work[v]
  BY <1>1, <1>3, OnwardMoves DEF SyncSigners
<1>5. /\ row \in ContractRow /\ row.status = contract[s].status /\ row.lia = contract[s].lia
      /\ row.case = contract[s].case /\ row.signedAt = contract[s].signedAt
      /\ row.signed <= envelope[s].signed
  <2>1. contract[s] \in ContractRow /\ Synced(contract[s].signed, hook[w].seen) \in 0..3
        /\ Synced(contract[s].signed, hook[w].seen) <= envelope[s].signed
    BY <1>2, RowOf DEF Synced, ContractRow
  <2> QED BY <2>1 DEF ContractRow
<1>6. contract' = [contract EXCEPT ![s] = row]
  BY <1>2, RowOf, Ready DEF SyncSigners
<1> HIDE DEF row
<1>7. LocalsTyped /\ BesideTyped
  BY <1>2, <1>4, Ready DEF LocalsTyped, BesideTyped, SyncSigners
<1>8. Typed' /\ Rows' /\ Keeps /\ \A v \in Workers: NotTaken(v)
  <2>1. /\ s \in Submissions /\ contract[s].status # "none"
        /\ row.signedAt => envelope[s].signed = Director /\ (via = "docuseal" => row.case # None)
        /\ \A other \in Sent \ {s}: contract[other].case # row.case
    BY <1>2, <1>5, RowOf
  <2>2. UNCHANGED <<via, gate, envelope, invoice, promoted>>
    BY DEF SyncSigners
  <2> QED BY <1>5, <1>6, <1>7, <2>1, <2>2, RowStep
<1>9. contract'[s].status # "none" /\ (contract[s].case # None => contract'[s].case # None)
  BY <1>2, <1>8, RowOf DEF Keeps
<1>10. Informed(w)'
  BY <1>2, <1>3, <1>4, <1>9, RowOf DEF Informed, SyncSigners
<1>11. Prepared(w)'
  <2>1. CASE t \in Seal
    <3>1. work[w].case # None => contract[s].case # None
      BY <2>1, Ready DEF Prepared
    <3> QED BY <1>2, <1>3, <1>4, <1>9, <2>1, <3>1, PreparedSeal
  <2>2. CASE t \in Envelopes
    <3>1. via = "docusign" /\ hook[w].state # "none"
      BY <1>3, <2>2, Ready DEF Prepared
    <3> QED BY <1>2, <1>3, <1>4, <2>2, <3>1, PreparedEnvelopes DEF SyncSigners
  <2> QED BY <1>1, <2>1, <2>2
<1> QED BY <1>2, <1>3, <1>4, <1>8, <1>10, <1>11, OneMoves

\* A request that knows what follows, forgets.
LEMMA SettleMoves ==
  ASSUME IInv, NEW w \in Workers, NEW h \in HookLocals, SettleOn(w, h)
  PROVE  /\ hook' \in [Workers -> HookLocals]
         /\ \A v \in Workers \ {w}: hook'[v] = hook[v]
         /\ work'[w] = Idle => hook'[w] = NoHook
         /\ work'[w] # Idle =>
              /\ hook'[w].sub = h.sub /\ hook'[w].delivery = h.delivery
              /\ work'[w].todo = <<"find">> => hook'[w] = h
              /\ work'[w].todo # <<"find">> => hook'[w].seen = 0 /\ hook'[w].state = "none"
<1>1. Decided(h) \in HookLocals /\ Decided(h).sub = h.sub /\ Decided(h).delivery = h.delivery
      /\ Decided(h).seen = 0 /\ Decided(h).state = "none"
  BY IdleTyped DEF Decided, HookLocals, NoHook
<1>2. hook' = [hook EXCEPT ![w] = IF work'[w] = Idle THEN NoHook
                                  ELSE IF work'[w].todo = <<"find">> THEN h ELSE Decided(h)]
  <2>1. Idle.todo # <<"find">>
    BY DEF Idle
  <2>2. CASE work'[w] = Idle
    BY <2>1, <2>2 DEF SettleOn
  <2>3. CASE work'[w] # Idle /\ work'[w].todo = <<"find">>
    BY <2>3 DEF SettleOn
  <2>4. CASE work'[w] # Idle /\ work'[w].todo # <<"find">>
    BY <2>4 DEF SettleOn
  <2> QED BY <2>2, <2>3, <2>4
<1> QED BY <1>1, <1>2, IdleTyped, Ready

\* A request of a delivery that ends, or goes on to serve its contract.
LEMMA OnToServe ==
  ASSUME IInv, NEW w \in Workers, hook[w].delivery, NEW steps \in {<<>>, <<"find">>} \cup Serving,
         Goto(w, steps), NEW h \in HookLocals, SettleOn(w, h),
         h.delivery, h.sub = hook[w].sub, h.seen <= envelope[h.sub].signed, UNCHANGED envelope,
         h.state = "SIGNED" => envelope[h.sub].signed = Director,
         contract'[h.sub].status # "none",
         steps = Marking => contract'[h.sub].case # None /\ envelope[h.sub].signed = Director
  PROVE  /\ LocalsTyped /\ Informed(w)' /\ Prepared(w)' /\ work'[w].todo # <<"insert">>
         /\ \A v \in Workers \ {w}: work'[v] = work[v] /\ hook'[v] = hook[v]
<1>1. steps \in Scripts /\ steps # <<"insert">> /\ steps \notin Seal
  <2>1. steps \in Scripts
    BY DEF Scripts
  <2>2. steps \notin Sending \cup Seal
    BY <2>1, Apart
  <2> QED BY <2>1, <2>2, NotInsert
<1>2. /\ work' \in [Workers -> WorkLocals] /\ work'[w].todo = steps
      /\ steps # <<>> => work'[w] # Idle
      /\ steps = <<>> => work'[w] = Idle
      /\ \A v \in Workers \ {w}: work'[v] = work[v]
  BY <1>1, GotoMoves
<1>3. /\ hook' \in [Workers -> HookLocals]
      /\ \A v \in Workers \ {w}: hook'[v] = hook[v]
      /\ work'[w] = Idle => hook'[w] = NoHook
      /\ work'[w] # Idle =>
              /\ hook'[w].sub = h.sub /\ hook'[w].delivery = h.delivery
              /\ work'[w].todo = <<"find">> => hook'[w] = h
              /\ work'[w].todo # <<"find">> => hook'[w].seen = 0 /\ hook'[w].state = "none"
  BY SettleMoves
<1>4. CASE steps = <<>>
  BY <1>1, <1>2, <1>3, <1>4, IdleTyped, PreparedRest DEF LocalsTyped, Informed
<1>5. CASE steps # <<>>
  <2>1. /\ hook'[w].sub = h.sub /\ hook'[w].delivery
        /\ steps = <<"find">> => hook'[w] = h
        /\ steps # <<"find">> => hook'[w].seen = 0 /\ hook'[w].state = "none"
    BY <1>2, <1>3, <1>5
  <2>2. h.sub \in Submissions /\ envelope[h.sub].signed \in 0..3
    BY RowOf
  <2>3. /\ hook'[w].seen <= envelope'[h.sub].signed
        /\ hook'[w].state = "SIGNED" => envelope'[h.sub].signed = Director
    BY <2>1, <2>2
  <2>4. Informed(w)'
    BY <1>2, <1>5, <2>1, <2>2, <2>3 DEF Informed
  <2>5. ASSUME steps = <<"find">> PROVE Prepared(w)'
    <3>1. work'[w].todo \in Seal \cup {<<"find">>} /\ work'[w].todo \notin Seal
      BY <1>1, <1>2, <2>5
    <3> QED BY <2>1, <3>1, PreparedSeal
  <2>6. ASSUME steps \in Serving PROVE Prepared(w)'
    <3>1. work'[w].todo \in Serving
      BY <1>2, <2>6
    <3>2. work'[w].todo = Marking =>
            contract'[hook'[w].sub].case # None /\ envelope'[hook'[w].sub].signed = Director
      BY <1>2, <2>1
    <3> QED BY <2>1, <3>1, <3>2, PreparedServing
  <2> QED BY <1>1, <1>2, <1>3, <1>5, <2>4, <2>5, <2>6 DEF LocalsTyped
<1> QED BY <1>4, <1>5

\* What Downstream may answer.
LEMMA DownstreamSteps ==
  ASSUME NEW h, NEW c
  PROVE  /\ Downstream(h, c) \in {<<>>} \cup Serving
         /\ Downstream(h, c) = Marking => c # None /\ h.seen = Director
<1>1. <<>> # Marking
  BY DEF Marking
<1>2. CASE c = None
  BY <1>1, <1>2 DEF Downstream
<1>3. CASE c # None /\ Completed(h.seen)
  BY <1>3, Belongs DEF Downstream, Marking, Completed
<1>4. CASE c # None /\ ~Completed(h.seen)
  BY <1>1, <1>4, Belongs DEF Downstream
<1> QED BY <1>2, <1>3, <1>4

LEMMA BranchInv == ASSUME IInv, NEW w \in Workers, Branch(w) PROVE IInv'
<1> DEFINE t == work[w].todo  s == hook[w].sub  row == contract[s]
           now == [hook[w] EXCEPT !.countersigned = row.signed >= Lia]
           steps == IF work[w].case = None /\ (row.signed >= Client \/ Completed(now.seen))
                    THEN <<"find">> ELSE Downstream(now, work[w].case)
<1>1. t # <<>> /\ t \in Scripts /\ t \in Seal
  BY Ready, ByHead DEF Branch, Doing
<1>2. hook[w].delivery /\ (work[w].case # None => contract[s].case # None)
  BY <1>1, Ready DEF Prepared
<1>3. /\ now \in HookLocals /\ now.delivery /\ now.sub = s /\ now.seen = hook[w].seen
      /\ now.state = hook[w].state
  <2> DEFINE both == row.signed >= Lia
  <2>1. both \in BOOLEAN
    OBVIOUS
  <2>2. now = [hook[w] EXCEPT !.countersigned = both]
    OBVIOUS
  <2> HIDE DEF both, now
  <2> QED BY SMTT(30), <1>2, <2>1, <2>2, Ready DEF HookLocals
<1>4. Goto(w, steps) /\ SettleOn(w, now)
  BY DEF Branch
<1> HIDE DEF now
<1>5. /\ steps \in {<<>>, <<"find">>} \cup Serving
      /\ steps = Marking => work[w].case # None /\ now.seen = Director
  <2>1. <<"find">> # Marking
    BY DEF Marking
  <2> QED BY <2>1, DownstreamSteps
<1> HIDE DEF steps
<1>6. Untouched /\ BesideTyped
  BY Ready DEF Branch, docVars, Untouched, BesideTyped
<1>7. /\ now.seen <= envelope[s].signed /\ contract'[s].status # "none"
      /\ now.state = "SIGNED" => envelope[s].signed = Director
      /\ steps = Marking => contract'[s].case # None /\ envelope[s].signed = Director
  BY <1>2, <1>3, <1>5, <1>6, RowOf DEF Untouched, Director
<1>8. /\ LocalsTyped /\ Informed(w)' /\ Prepared(w)' /\ work'[w].todo # <<"insert">>
      /\ \A v \in Workers \ {w}: work'[v] = work[v] /\ hook'[v] = hook[v]
  BY <1>2, <1>3, <1>4, <1>5, <1>6, <1>7, OnToServe DEF Untouched
<1> QED BY <1>6, <1>8, QuietStep

LEMMA PointLiaInv == ASSUME IInv, NEW w \in Workers, PointLia(w) PROVE IInv'
<1> DEFINE t == work[w].todo  s == hook[w].sub  c == work[w].case  steps == Downstream(hook[w], c)
<1>1. t # <<>> /\ Head(t) = "point" /\ t \in Pointing /\ t = <<"point">>
  BY Ready, ByHead, PointingSteps DEF PointLia, Doing
<1>2. hook[w].delivery /\ c \in Cases /\ contract[s].case # None
  BY <1>1, Ready DEF Prepared
<1>3. Goto(w, steps) /\ SettleOn(w, hook[w])
  BY DEF PointLia
<1>4. /\ steps \in {<<>>} \cup Serving
      /\ steps = Marking => hook[w].seen = Director
  BY DownstreamSteps
<1> HIDE DEF steps
<1>5. Untouched
  BY DEF PointLia, docVars, Untouched
<1>6. BesideTyped
  <2>1. case' \in CaseRows
    <3>1. contract[s].lia \in Staff \cup {None}
      BY <1>2, RowOf DEF ContractRow
    <3> QED BY ZenonT(60), <3>1, Ready DEF PointLia, CaseRows
  <2> QED BY <2>1, Ready DEF PointLia, docVars, BesideTyped
<1>7. /\ hook[w] \in HookLocals /\ hook[w].seen <= envelope[s].signed /\ contract'[s].status # "none"
      /\ hook[w].state = "SIGNED" => envelope[s].signed = Director
      /\ steps = Marking => contract'[s].case # None /\ envelope[s].signed = Director
  BY <1>2, <1>4, <1>5, RowOf, Ready DEF Untouched, Director
<1>8. /\ LocalsTyped /\ Informed(w)' /\ Prepared(w)' /\ work'[w].todo # <<"insert">>
      /\ \A v \in Workers \ {w}: work'[v] = work[v] /\ hook'[v] = hook[v]
  BY <1>2, <1>3, <1>4, <1>5, <1>7, OnToServe DEF Untouched
<1> QED BY <1>5, <1>6, <1>8, QuietStep

LEMMA UpdateStatusInv == ASSUME IInv, NEW w \in Workers, UpdateStatus(w) PROVE IInv'
<1> DEFINE t == work[w].todo  s == hook[w].sub  h == hook[w]  g == [h EXCEPT !.status = "none"]
           steps == IF work[w].case = None THEN <<>>
                    ELSE IF h.state = "SIGNED"
                         THEN <<"lia", "owner", "finance", "store", "promote", "invoice">>
                    ELSE <<"promote", "invoice">>
           signedAt == contract[s].signedAt \/ h.state = "SIGNED"
           row == IF h.state = h.status THEN contract[s]
                  ELSE [contract[s] EXCEPT !.status = h.state, !.signedAt = signedAt]
<1>1. t # <<>> /\ t \in Envelopes /\ t # ToFetch
  BY Ready, ByHead, EnvelopesSteps DEF UpdateStatus, Doing
<1>2. h.delivery /\ via = "docusign" /\ h.state # "none"
  BY <1>1, Ready DEF Prepared
<1>3. Goto(w, steps) /\ SettleOn(w, g)
  BY DEF UpdateStatus
<1>4. steps \in {<<>>} \cup Serving /\ steps # Marking
  <2>1. <<>> # Marking
    BY DEF Marking
  <2> QED BY <2>1, Belongs
<1>5. contract' = [contract EXCEPT ![s] = row]
  <2>1. contract[s] \in ContractRow /\ s \in Submissions
    BY <1>2, RowOf
  <2> QED BY <2>1, Ready DEF UpdateStatus, ContractRow
<1>6. /\ row \in ContractRow /\ row.status # "none" /\ row.lia = contract[s].lia
      /\ row.case = contract[s].case /\ row.signed = contract[s].signed
      /\ row.signedAt => contract[s].signedAt \/ h.state = "SIGNED"
  <2>1. contract[s] \in ContractRow /\ signedAt \in BOOLEAN /\ h.state \in {"SENT", "DECLINED", "SIGNED"}
        /\ contract[s].status # "none"
    BY <1>2, RowOf, Ready DEF HookLocals
  <2>2. CASE h.state = h.status
    BY <2>1, <2>2 DEF ContractRow
  <2>3. CASE h.state # h.status
    <3> HIDE DEF signedAt
    <3>1. row = [contract[s] EXCEPT !.status = h.state, !.signedAt = signedAt]
      BY <2>3
    <3>2. row \in ContractRow /\ row.status # "none" /\ row.lia = contract[s].lia
          /\ row.case = contract[s].case /\ row.signed = contract[s].signed /\ row.signedAt = signedAt
      BY <2>1, <3>1 DEF ContractRow
    <3> QED BY <3>2 DEF signedAt
  <2> QED BY <2>2, <2>3
<1>7. g \in HookLocals /\ g.delivery /\ g.sub = s /\ g.seen = h.seen /\ g.state = h.state
  BY ZenonT(60), <1>2, Ready DEF HookLocals
<1> HIDE DEF row, g, steps
<1>8. BesideTyped
  BY Ready DEF BesideTyped, UpdateStatus
<1>9. /\ s \in Submissions /\ contract[s].status # "none"
      /\ contract'[s].status # "none" /\ g.seen <= envelope[s].signed
      /\ g.state = "SIGNED" => envelope[s].signed = Director
  BY <1>2, <1>5, <1>6, <1>7, RowOf, Ready
<1>10. /\ LocalsTyped /\ Informed(w)' /\ Prepared(w)' /\ work'[w].todo # <<"insert">>
       /\ \A v \in Workers \ {w}: work'[v] = work[v] /\ hook'[v] = hook[v]
  <2>1. UNCHANGED envelope
    BY DEF UpdateStatus
  <2>2. steps \in {<<>>, <<"find">>} \cup Serving
    BY <1>4
  <2> QED BY <1>2, <1>3, <1>4, <1>7, <1>9, <2>1, <2>2, OnToServe
<1>11. Typed' /\ Rows' /\ Keeps /\ \A v \in Workers: NotTaken(v)
  <2>1. /\ row.signed <= envelope[s].signed
        /\ row.signedAt => envelope[s].signed = Director /\ (via = "docuseal" => row.case # None)
        /\ \A other \in Sent \ {s}: contract[other].case # row.case
    BY <1>2, <1>6, RowOf
  <2>2. UNCHANGED <<via, gate, envelope, invoice, promoted>>
    BY DEF UpdateStatus
  <2>3. LocalsTyped /\ (contract[s].case # None => row.case # None)
    BY <1>6, <1>10
  <2> HIDE DEF s
  <2> QED BY <1>5, <1>6, <1>8, <1>9, <2>1, <2>2, <2>3, RowStep
<1> QED BY <1>10, <1>11, OneMoves

LEMMA MarkSignedInv == ASSUME IInv, NEW w \in Workers, MarkSigned(w) PROVE IInv'
<1> DEFINE t == work[w].todo  s == hook[w].sub  h == hook[w]  g == [h EXCEPT !.status = "none"]
           row == IF h.status = "SIGNED" THEN contract[s]
                  ELSE [contract[s] EXCEPT !.status = "SIGNED", !.signedAt = TRUE]
<1>1. t # <<>> /\ t \in Serving /\ t = Marking
  BY Ready, ByHead, ServingSteps DEF MarkSigned, Doing
<1>2. h.delivery /\ contract[s].case # None /\ envelope[s].signed = Director
  BY <1>1, Ready DEF Prepared
<1>3. Goto(w, Tail(t)) /\ SettleOn(w, g)
  BY DEF MarkSigned, Onward
<1>4. Tail(t) \in {<<>>} \cup Serving /\ Tail(t) # Marking
  <2>1. <<>> # Marking
    BY DEF Marking
  <2> QED BY <1>1, <2>1, ServingSteps
<1>5. contract' = [contract EXCEPT ![s] = row]
  <2>1. contract[s] \in ContractRow /\ s \in Submissions
    BY <1>2, RowOf
  <2> QED BY <2>1, Ready DEF MarkSigned, ContractRow
<1>6. /\ row \in ContractRow /\ row.status # "none" /\ row.lia = contract[s].lia
      /\ row.case = contract[s].case /\ row.signed = contract[s].signed
  BY <1>2, RowOf DEF ContractRow
<1>7. g \in HookLocals /\ g.delivery /\ g.sub = s /\ g.seen = h.seen /\ g.state = h.state
  BY <1>2, Ready DEF HookLocals
<1> HIDE DEF row, g
<1>8. BesideTyped
  BY Ready DEF BesideTyped, MarkSigned
<1>9. /\ s \in Submissions /\ contract[s].status # "none"
      /\ contract'[s].status # "none" /\ g.seen <= envelope[s].signed
      /\ g.state = "SIGNED" => envelope[s].signed = Director
  BY <1>2, <1>5, <1>6, <1>7, RowOf, Ready
<1>10. /\ LocalsTyped /\ Informed(w)' /\ Prepared(w)' /\ work'[w].todo # <<"insert">>
       /\ \A v \in Workers \ {w}: work'[v] = work[v] /\ hook'[v] = hook[v]
  <2>1. UNCHANGED envelope
    BY DEF MarkSigned
  <2>2. Tail(t) \in {<<>>, <<"find">>} \cup Serving
    BY <1>4
  <2> QED BY <1>2, <1>3, <1>4, <1>7, <1>9, <2>1, <2>2, OnToServe
<1>11. Typed' /\ Rows' /\ Keeps /\ \A v \in Workers: NotTaken(v)
  <2>1. /\ row.signed <= envelope[s].signed
        /\ row.signedAt => envelope[s].signed = Director /\ (via = "docuseal" => row.case # None)
        /\ \A other \in Sent \ {s}: contract[other].case # row.case
    BY <1>2, <1>6, RowOf
  <2>2. UNCHANGED <<via, gate, envelope, invoice, promoted>>
    BY DEF MarkSigned
  <2>3. LocalsTyped /\ (contract[s].case # None => row.case # None)
    BY <1>6, <1>10
  <2> HIDE DEF s
  <2> QED BY <1>5, <1>6, <1>8, <1>9, <2>1, <2>2, <2>3, RowStep
<1> QED BY <1>10, <1>11, OneMoves

-----------------------------------------------------------------------------
\* The case of a contract.

LEMMA ConsultantFirst ==
  /\ <<"consultant">> \o <<"backfill", "point">> = <<"consultant", "backfill", "point">>
  /\ <<"consultant">> \o <<>> = <<"consultant">>
<1> DEFINE s == <<"consultant">> \o <<"backfill", "point">>
           t == <<"consultant", "backfill", "point">>
           S == Seq({"consultant", "backfill", "point"})
<1>1. s \in S /\ Len(s) = 3 /\ s[1] = "consultant" /\ s[2] = "backfill" /\ s[3] = "point"
  OBVIOUS
<1>2. t \in S /\ Len(t) = 3 /\ t[1] = "consultant" /\ t[2] = "backfill" /\ t[3] = "point"
  OBVIOUS
<1> HIDE DEF s, t
<1>3. s = [i \in 1..3 |-> s[i]] /\ t = [i \in 1..3 |-> t[i]]
  BY <1>1, <1>2
<1>4. \A i \in 1..3: i = 1 \/ i = 2 \/ i = 3
  OBVIOUS
<1>5. \A i \in 1..3: s[i] = t[i]
  BY <1>1, <1>2, <1>4
<1>6. s = t
  BY <1>3, <1>5
<1> QED BY <1>6 DEF s, t

\* A delivery that goes on, its picture of the contract unchanged.
LEMMA StaysInformed ==
  ASSUME IInv, NEW w \in Workers, UNCHANGED <<envelope, contract>>, work'[w].todo # <<>>,
         hook'[w].delivery = hook[w].delivery, hook'[w].sub = hook[w].sub,
         hook'[w].seen = hook[w].seen, hook'[w].state = hook[w].state
  PROVE  Informed(w)'
<1>1. Informed(w)
  BY DEF IInv
<1> QED BY <1>1 DEF Informed

LEMMA FindCaseInv == ASSUME IInv, NEW w \in Workers, FindCase(w) PROVE IInv'
<1> DEFINE t == work[w].todo
<1>1. t = <<"find">> /\ t # <<>> /\ hook[w].delivery
  <2>1. t = <<"find">> /\ t # <<>>
    BY Ready, ByHead DEF FindCase, Doing
  <2> QED BY <2>1, Ready DEF Prepared
<1>2. Untouched /\ BesideTyped
  BY Ready DEF FindCase, docVars, Untouched, BesideTyped
<1>3. ASSUME NEW c \in Existing,
             work' = [work EXCEPT ![w].todo = <<"backfill", "point">>, ![w].case = c],
             hook' = [hook EXCEPT ![w].hasLia = case[c].holder.lia # None]
      PROVE  IInv'
  <2>1. <<"backfill", "point">> \in Scripts /\ <<"backfill", "point">> # <<>>
        /\ <<"backfill", "point">> # <<"insert">>
    BY Belongs DEF Scripts
  <2>2. /\ work' \in [Workers -> WorkLocals] /\ work'[w].todo = <<"backfill", "point">>
        /\ work'[w].case = c /\ c \in Cases
        /\ \A v \in Workers \ {w}: work'[v] = work[v]
    BY ZenonT(60), <1>3, <2>1, Ready DEF WorkLocals, Existing
  <2>3. /\ hook' \in [Workers -> HookLocals]
        /\ hook'[w].delivery = hook[w].delivery /\ hook'[w].sub = hook[w].sub
        /\ hook'[w].seen = hook[w].seen /\ hook'[w].state = hook[w].state
        /\ \A v \in Workers \ {w}: hook'[v] = hook[v]
    <3> DEFINE had == case[c].holder.lia # None
    <3>1. had \in BOOLEAN /\ hook' = [hook EXCEPT ![w].hasLia = had]
      BY <1>3
    <3> HIDE DEF had
    <3> QED BY ZenonT(60), <3>1, Ready DEF HookLocals
  <2>4. Informed(w)'
    BY <1>2, <2>1, <2>2, <2>3, StaysInformed DEF Untouched
  <2>5. Prepared(w)'
    BY <1>1, <2>2, <2>3, Belongs, PreparedPointing
  <2> QED BY <1>2, <2>1, <2>2, <2>3, <2>4, <2>5, QuietStep DEF LocalsTyped
<1>4. ASSUME Goto(w, <<"create">>), UNCHANGED hook PROVE IInv'
  <2>1. <<"create">> \in Scripts /\ <<"create">> # <<>> /\ <<"create">> # <<"insert">>
    BY Belongs DEF Scripts
  <2>2. /\ work' \in [Workers -> WorkLocals] /\ work'[w].todo = <<"create">>
        /\ \A v \in Workers \ {w}: work'[v] = work[v]
    BY <1>4, <2>1, GotoMoves
  <2>3. Informed(w)'
    BY <1>2, <1>4, <2>1, <2>2, StaysInformed DEF Untouched
  <2>4. Prepared(w)'
    BY <2>2, Belongs, PreparedRest
  <2> QED BY <1>2, <1>4, <2>1, <2>2, <2>3, <2>4, Ready, QuietStep DEF LocalsTyped
<1> QED BY <1>2, <1>3, <1>4, EndStep DEF FindCase

\* createCase, by a delivery or by staff.
LEMMA CreateStep ==
  ASSUME IInv, NEW w \in Workers, NEW owner \in Staff \cup {None}, NEW then,
         CreateCaseRow(w, owner, then), UNCHANGED <<active, mishaps, docVars, hook>>,
         then = <<>> \/ (hook[w].delivery /\ then = <<"backfill", "point">>)
  PROVE  IInv'
<1>1. PICK c \in Cases:
        /\ case' = [case EXCEPT ![c] = [stage |-> "open", holder |-> [Vacant EXCEPT !.owner = owner]]]
        /\ work' = [work EXCEPT ![w] = [todo |-> <<"consultant">> \o then, case |-> c,
                                        slot |-> "none", pick |-> None]]
  BY DEF CreateCaseRow
<1>2. <<"consultant">> \o then \in {<<"consultant">>, <<"consultant", "backfill", "point">>}
      /\ (then # <<>> => hook[w].delivery /\ <<"consultant">> \o then = <<"consultant", "backfill", "point">>)
      /\ (then = <<>> => <<"consultant">> \o then = <<"consultant">>)
  BY ConsultantFirst
<1> DEFINE steps == <<"consultant">> \o then
<1>3. steps \in Scripts /\ steps # <<>> /\ steps # <<"insert">>
  <2>1. steps \in Scripts /\ steps \in Pointing \cup Elsewhere
    BY <1>2, Belongs DEF Scripts
  <2>2. steps \notin Sending /\ steps # <<>>
    BY <2>1, Apart
  <2> QED BY <2>1, <2>2, NotInsert
<1>4. /\ work' \in [Workers -> WorkLocals] /\ work'[w].todo = steps /\ work'[w].case = c
      /\ \A v \in Workers \ {w}: work'[v] = work[v]
  <2> HIDE DEF steps
  <2>1. work' = [work EXCEPT ![w] = [todo |-> steps, case |-> c, slot |-> "none", pick |-> None]]
    BY <1>1 DEF steps
  <2> QED BY <1>3, <2>1, Ready DEF WorkLocals
<1>5. case' \in CaseRows
  <2>1. [Vacant EXCEPT !.owner = owner] \in [Slots -> Staff \cup {None}]
    BY DEF Vacant
  <2> QED BY <1>1, <2>1, Ready DEF CaseRows
<1>6. Untouched /\ BesideTyped /\ LocalsTyped
  BY <1>4, <1>5, Ready DEF docVars, Untouched, BesideTyped, LocalsTyped
<1>7. Informed(w)'
  BY <1>3, <1>4, <1>6, StaysInformed DEF Untouched
<1>8. Prepared(w)'
  <2>1. CASE then # <<>>
    BY <1>2, <1>4, <2>1, Belongs, PreparedPointing
  <2>2. CASE then = <<>>
    BY <1>2, <1>4, <2>2, Belongs, PreparedRest
  <2> QED BY <2>1, <2>2
<1> HIDE DEF steps
<1> QED BY <1>3, <1>4, <1>6, <1>7, <1>8, QuietStep

LEMMA CreateCaseInv == ASSUME IInv, NEW w \in Workers, CreateCase(w) PROVE IInv'
  BY StaffingAssumption, CreateStep DEF CreateCase

LEMMA EnrolCaseInv == ASSUME IInv, NEW w \in Workers, EnrolCase(w) PROVE IInv'
  BY CreateStep DEF EnrolCase

LEMMA BackfillCaseInv == ASSUME IInv, NEW w \in Workers, BackfillCase(w) PROVE IInv'
<1> DEFINE t == work[w].todo  s == hook[w].sub  c == work[w].case
           row == [contract[s] EXCEPT !.case = c]
<1>1. t # <<>> /\ t \in Pointing /\ Tail(t) = <<"point">>
  BY Ready, ByHead, PointingSteps DEF BackfillCase, Doing
<1>2. hook[w].delivery /\ c \in Cases /\ c # None
  BY <1>1, Ready, StaffingAssumption DEF Prepared
<1>3. BesideTyped
  BY Ready DEF BackfillCase, BesideTyped
<1>4. CASE \E other \in Sent \ {s}: contract[other].case = c
  <2>1. Finish(w) /\ Untouched
    BY <1>4 DEF BackfillCase, Untouched
  <2> QED BY <1>3, <2>1, EndStep
<1>5. CASE ~\E other \in Sent \ {s}: contract[other].case = c
  <2>1. Onward(w) /\ hook' = hook
    BY <1>5 DEF BackfillCase
  <2>2. contract' = [contract EXCEPT ![s] = row]
    <3>1. contract[s] \in ContractRow /\ s \in Submissions
      BY <1>2, RowOf
    <3> QED BY <1>5, <3>1, Ready DEF BackfillCase
  <2>3. /\ row \in ContractRow /\ row.status = contract[s].status /\ row.lia = contract[s].lia
        /\ row.case = c /\ row.signed = contract[s].signed /\ row.signedAt = contract[s].signedAt
    <3>1. contract[s] \in ContractRow
      BY <1>2, RowOf
    <3> QED BY <1>2, <3>1 DEF ContractRow
  <2> HIDE DEF row
  <2>4. <<"point">> # <<>> /\ <<"point">> # <<"insert">>
    BY Belongs
  <2>5. /\ work' \in [Workers -> WorkLocals] /\ work'[w].todo = <<"point">> /\ work'[w].case = c
        /\ \A v \in Workers \ {w}: work'[v] = work[v]
    BY <1>1, <2>1, <2>4, OnwardMoves
  <2>6. LocalsTyped
    BY <2>1, <2>5, Ready DEF LocalsTyped
  <2>7. /\ s \in Submissions /\ contract[s].status # "none" /\ row.signed <= envelope[s].signed
        /\ row.signedAt => envelope[s].signed = Director /\ (via = "docuseal" => row.case # None)
        /\ \A other \in Sent \ {s}: contract[other].case # row.case
        /\ hook[w].seen <= envelope[s].signed
        /\ hook[w].state = "SIGNED" => envelope[s].signed = Director
    BY <1>2, <1>5, <2>3, RowOf
  <2>8. UNCHANGED <<via, gate, envelope, invoice, promoted>>
    BY DEF BackfillCase
  <2>9. Typed' /\ Rows' /\ Keeps /\ \A v \in Workers: NotTaken(v)
    BY <1>2, <1>3, <2>2, <2>3, <2>6, <2>7, <2>8, RowStep
  <2>10. contract'[s].status # "none" /\ contract'[s].case # None
    BY <1>2, <2>2, <2>3, <2>7, Ready
  <2>11. Informed(w)'
    BY <2>1, <2>4, <2>5, <2>7, <2>8, <2>10 DEF Informed
  <2>12. Prepared(w)'
    BY <1>2, <2>1, <2>5, <2>10, Belongs, PreparedPointing
  <2> QED BY <2>1, <2>4, <2>5, <2>9, <2>11, <2>12, OneMoves
<1> QED BY <1>4, <1>5

-----------------------------------------------------------------------------
\* Staff, filing and access.

\* A request goes on to its next step, or ends.
LEMMA Proceeds ==
  ASSUME IInv, NEW w \in Workers, UNCHANGED <<via, gate, envelope, contract>>,
         Head(work[w].todo) \in {"consultant", "lia", "owner", "finance", "store", "promote", "invoice", "move"},
         work[w].todo # <<>>, work[w].todo \in Sending => Head(work[w].todo) # "lia",
         Onward(w), Forget(w)
  PROVE  /\ LocalsTyped /\ Informed(w)' /\ Prepared(w)' /\ work'[w].todo # <<"insert">>
         /\ \A v \in Workers \ {w}: work'[v] = work[v] /\ hook'[v] = hook[v]
<1> DEFINE t == work[w].todo
<1>1. /\ work' \in [Workers -> WorkLocals] /\ work'[w].todo = Tail(t)
      /\ Tail(t) # <<>> => work'[w].case = work[w].case /\ work'[w] # Idle
      /\ Tail(t) = <<>> => work'[w] = Idle
      /\ \A v \in Workers \ {w}: work'[v] = work[v]
  BY OnwardMoves
<1>2. /\ hook' \in [Workers -> HookLocals]
      /\ \A v \in Workers \ {w}: hook'[v] = hook[v]
      /\ work'[w] = Idle => hook'[w] = NoHook
      /\ work'[w] # Idle => hook'[w] = hook[w]
  BY ForgetMoves
<1>3. Informed(w)'
  BY <1>1, <1>2, IdleTyped, StaysInformed DEF Informed
<1>4. ASSUME t \in Sending PROVE Prepared(w)' /\ Tail(t) # <<"insert">>
  <2>1. t # <<"insert">> /\ t # ToCase /\ Tail(t) \in Sending /\ Tail(t) # ToCase /\ Tail(t) # <<"insert">>
    BY <1>4, SendingSteps DEF ToCase
  <2>2. Tail(t) # <<>>
    BY <2>1, SendingSteps
  <2>3. ~hook[w].delivery /\ Cleared /\ hook[w].lia \in Staff
    BY <1>4, <2>1, Ready DEF Prepared
  <2>4. Cleared'
    BY <2>3 DEF Cleared
  <2> QED BY <1>1, <1>2, <2>1, <2>2, <2>3, <2>4, PreparedSending
<1>5. ASSUME t \in Pointing PROVE Prepared(w)' /\ Tail(t) # <<"insert">>
  <2>1. Tail(t) \in Pointing /\ Tail(t) # <<"point">>
    BY <1>5, PointingSteps
  <2>2. Tail(t) \in Scripts
    BY <1>5, Ready, ScriptTail, PointingSteps
  <2>3. Tail(t) # <<>> /\ Tail(t) # <<"insert">>
    BY <2>1, <2>2, Apart, NotInsert
  <2>4. hook[w].delivery /\ work[w].case \in Cases
    BY <1>5, Ready DEF Prepared
  <2> QED BY <1>1, <1>2, <2>1, <2>3, <2>4, PreparedPointing
<1>6. ASSUME t \in Serving PROVE Prepared(w)' /\ Tail(t) # <<"insert">>
  <2>1. Tail(t) = <<>> \/ Tail(t) \in Serving \ {Marking}
    BY <1>6, ServingSteps
  <2>2. hook[w].delivery
    BY <1>6, Ready DEF Prepared
  <2>3. CASE Tail(t) = <<>>
    <3>1. <<>> # <<"insert">>
      OBVIOUS
    <3> QED BY <1>1, <2>3, <3>1, PreparedRest
  <2>4. CASE Tail(t) \in Serving \ {Marking}
    <3>1. Tail(t) # <<>> /\ Tail(t) # <<"insert">>
      <4>1. Tail(t) \in Scripts
        BY <2>4 DEF Scripts
      <4> QED BY <2>4, <4>1, Apart, NotInsert
    <3> QED BY <1>1, <1>2, <2>2, <2>4, <3>1, PreparedServing
  <2> QED BY <2>1, <2>3, <2>4
<1>7. ASSUME t \in Elsewhere PROVE Prepared(w)' /\ Tail(t) # <<"insert">>
  <2>1. Tail(t) \in {<<>>, <<"owner", "finance">>, <<"finance">>}
    BY <1>7, ElsewhereSteps
  <2>2. /\ <<"owner", "finance">> \in Elsewhere \ {<<"move">>} /\ <<"finance">> \in Elsewhere \ {<<"move">>}
    BY DEF Elsewhere
  <2>3. <<"owner", "finance">> # <<"insert">> /\ <<"finance">> # <<"insert">> /\ <<>> # <<"insert">>
    OBVIOUS
  <2> QED BY <1>1, <2>1, <2>2, <2>3, PreparedRest
<1>8. t \in Sending \cup Serving \cup Elsewhere \cup Pointing
  BY Ready, ByHead
<1> QED BY <1>1, <1>2, <1>3, <1>4, <1>5, <1>6, <1>7, <1>8 DEF LocalsTyped

\* A person is picked: nothing else moves.
LEMMA Picks ==
  ASSUME IInv, NEW w \in Workers, UNCHANGED <<via, gate, envelope, contract>>,
         work[w].todo # <<>>, work[w].todo # <<"insert">>,
         NEW s \in Staff, work' = [work EXCEPT ![w].pick = s],
         hook' = hook \/ \E l \in Staff \cup {None}: work[w].todo = ToCase /\ hook' = [hook EXCEPT ![w].lia = l]
  PROVE  /\ LocalsTyped /\ Informed(w)' /\ Prepared(w)' /\ work'[w].todo # <<"insert">>
         /\ \A v \in Workers \ {w}: work'[v] = work[v] /\ hook'[v] = hook[v]
<1>1. /\ work' \in [Workers -> WorkLocals] /\ work'[w].todo = work[w].todo
      /\ work'[w].case = work[w].case /\ work'[w].slot = work[w].slot
      /\ \A v \in Workers \ {w}: work'[v] = work[v]
  BY SMTT(30), Ready DEF WorkLocals
<1>2. /\ hook' \in [Workers -> HookLocals]
      /\ hook'[w].delivery = hook[w].delivery /\ hook'[w].sub = hook[w].sub
      /\ hook'[w].seen = hook[w].seen /\ hook'[w].state = hook[w].state
      /\ work[w].todo # ToCase => hook'[w].lia = hook[w].lia
      /\ \A v \in Workers \ {w}: hook'[v] = hook[v]
  <2>1. CASE hook' = hook
    BY <2>1, Ready
  <2>2. ASSUME NEW l \in Staff \cup {None}, work[w].todo = ToCase, hook' = [hook EXCEPT ![w].lia = l]
        PROVE  /\ hook' \in [Workers -> HookLocals]
               /\ hook'[w].delivery = hook[w].delivery /\ hook'[w].sub = hook[w].sub
               /\ hook'[w].seen = hook[w].seen /\ hook'[w].state = hook[w].state
               /\ \A v \in Workers \ {w}: hook'[v] = hook[v]
    BY ZenonT(60), <2>2, Ready DEF HookLocals
  <2> QED BY <2>1, <2>2
<1>3. Informed(w)'
  BY <1>1, <1>2, StaysInformed
<1>4. Prepared(w)'
  BY <1>1, <1>2, Ready DEF Prepared, Cleared
<1> QED BY <1>1, <1>2, <1>3, <1>4 DEF LocalsTyped

\* An automatic assignment outside of a send, with what becomes of the case.
LEMMA HolderWritten ==
  ASSUME IInv, NEW c, NEW slot \in Slots, NEW s \in Staff \cup {None}
  PROVE  [case EXCEPT ![c].holder[slot] = s] \in CaseRows
<1>1. case \in CaseRows
  BY DEF IInv, Typed, TypeOK, CaseRows
<1>2. CASE c \notin Cases
  BY <1>1, <1>2 DEF CaseRows
<1>3. CASE c \in Cases
  <2> DEFINE holder == [case[c].holder EXCEPT ![slot] = s]
  <2>1. holder \in [Slots -> Staff \cup {None}]
    BY <1>1, <1>3 DEF CaseRows
  <2>2. [case EXCEPT ![c].holder[slot] = s] = [case EXCEPT ![c].holder = holder]
    OBVIOUS
  <2> HIDE DEF holder
  <2>3. [case EXCEPT ![c].holder = holder] \in CaseRows
    BY <1>1, <1>3, <2>1 DEF CaseRows
  <2> QED BY <2>2, <2>3
<1> QED BY <1>2, <1>3

LEMMA AssignTyped ==
  ASSUME IInv, NEW w \in Workers, NEW slot \in Slots, Assign(w, slot)
  PROVE  case' \in CaseRows /\ UNCHANGED <<active, mishaps>>
<1>1. CASE AssignRead(w, slot)
  BY <1>1, Ready DEF AssignRead
<1>2. CASE AssignWrite(w, slot)
  BY <1>2, Ready, HolderWritten DEF AssignWrite, WorkLocals
<1> QED BY <1>1, <1>2 DEF Assign

LEMMA Assigns ==
  ASSUME IInv, NEW w \in Workers, NEW slot \in {"lia", "owner", "finance", "consultant"},
         Assign(w, slot), Forget(w), UNCHANGED docVars, work[w].todo \in Sending => slot # "lia"
  PROVE  IInv'
<1>1. work[w].todo # <<>> /\ Head(work[w].todo) = slot
  BY DEF Assign, AssignRead, AssignWrite, Doing
<1>2. case' \in CaseRows /\ UNCHANGED <<active, mishaps>>
  BY AssignTyped DEF Slots
<1>3. Untouched /\ BesideTyped
  BY <1>2, Ready DEF Untouched, docVars, BesideTyped
<1>4. CASE Onward(w)
  BY <1>1, <1>3, <1>4, Proceeds, QuietStep DEF Untouched
<1>5. ASSUME NEW s \in Staff, work' = [work EXCEPT ![w].pick = s] PROVE IInv'
  <2>1. work[w].todo # <<"insert">>
    BY <1>1
  <2>2. hook' = hook
    <3>1. work'[w].todo # <<>>
      BY <1>1, <1>5, Ready DEF WorkLocals
    <3> QED BY <3>1, IdleTyped DEF Forget
  <2> QED BY <1>1, <1>3, <1>5, <2>1, <2>2, Picks, QuietStep DEF Untouched
<1> QED BY <1>4, <1>5 DEF Assign, AssignRead, AssignWrite

LEMMA AppointOthersInv == ASSUME IInv, NEW w \in Workers, AppointOthers(w) PROVE IInv'
  BY Assigns DEF AppointOthers, AssignAdmissionToCase, AssignFinanceToCase, AssignConsultantToCase

LEMMA AppointLiaInv == ASSUME IInv, NEW w \in Workers, AppointLia(w) PROVE IInv'
<1> DEFINE t == work[w].todo  sending == Doing(w, "lia") /\ t[Len(t)] = "insert"
<1>1. t \in Scripts /\ (t \in Sending => t # <<>> /\ t[Len(t)] = "insert")
  BY Ready, SendingSteps
<1>2. CASE ~sending
  <2>1. AssignLiaToCase(w) /\ Forget(w) /\ UNCHANGED docVars
    BY <1>2 DEF AppointLia
  <2>2. t \notin Sending
    <3>1. Doing(w, "lia")
      BY <2>1 DEF AssignLiaToCase, Assign, AssignRead, AssignWrite
    <3> QED BY <1>1, <1>2, <3>1
  <2> QED BY <2>1, <2>2, Assigns DEF AssignLiaToCase
<1>3. CASE sending
  <2>1. t # <<>> /\ Head(t) = "lia" /\ t \in Sending /\ t = ToCase
    <3>1. t # <<>> /\ Head(t) = "lia" /\ t[Len(t)] = "insert"
      BY <1>3 DEF Doing
    <3>2. t \in Sending
      BY <1>1, <3>1, ByHead, ServingSteps, ElsewhereSteps
    <3> QED BY <3>1, <3>2, SendingSteps
  <2>2. ~hook[w].delivery /\ Cleared /\ work[w].case \in Cases /\ work[w].case # None
    <3>1. t # <<"insert">>
      BY <2>1, Belongs
    <3> QED BY <2>1, <3>1, Ready, StaffingAssumption DEF Prepared
  <2>3. UNCHANGED docVars
    BY DEF AppointLia
  <2>4. CASE Pool("lia") = {} /\ ~Filled(work[w].case, "lia") /\ work[w].pick = None
    <3>1. Finish(w) /\ UNCHANGED <<case, active, mishaps>>
      BY <1>3, <2>4 DEF AppointLia
    <3>2. Untouched /\ BesideTyped
      BY <2>3, <3>1, Ready DEF Untouched, docVars, BesideTyped
    <3> QED BY <3>1, <3>2, EndStep
  <2>5. CASE ~(Pool("lia") = {} /\ ~Filled(work[w].case, "lia") /\ work[w].pick = None)
    <3> DEFINE l == SigningLia(w)
    <3>1. Assign(w, "lia") /\ hook' = [hook EXCEPT ![w].lia = l]
      BY <1>3, <2>5 DEF AppointLia, AssignLiaToCase
    <3>2. case' \in CaseRows /\ UNCHANGED <<active, mishaps>>
      BY <3>1, AssignTyped DEF Slots
    <3>3. Untouched /\ BesideTyped
      BY <2>3, <3>2, Ready DEF Untouched, docVars, BesideTyped
    <3>4. l \in Staff \cup {None}
      BY <2>2, Ready DEF SigningLia, WorkLocals, CaseRows, Slots
    <3>5. ASSUME NEW s \in Staff, work' = [work EXCEPT ![w].pick = s] PROVE IInv'
      <4>1. t # <<"insert">>
        BY <2>1, Belongs
      <4> HIDE DEF l
      <4> QED BY <2>1, <3>1, <3>3, <3>4, <3>5, <4>1, Picks, QuietStep DEF Untouched
    <3>6. ASSUME Onward(w), l \in Staff PROVE IInv'
      <4>1. Tail(t) \in Sending /\ Tail(t) # ToCase /\ Tail(t) # <<"insert">> /\ Tail(t) # <<>>
        <5>1. Tail(t) \in Sending /\ Tail(t) # ToCase /\ Tail(t) # <<"insert">>
          BY <2>1, SendingSteps, Belongs
        <5> QED BY <5>1, SendingSteps
      <4>2. /\ work' \in [Workers -> WorkLocals] /\ work'[w].todo = Tail(t)
            /\ \A v \in Workers \ {w}: work'[v] = work[v]
        BY <2>1, <3>6, OnwardMoves
      <4> HIDE DEF l
      <4>3. /\ hook' \in [Workers -> HookLocals] /\ hook'[w].lia \in Staff /\ ~hook'[w].delivery
            /\ \A v \in Workers \ {w}: hook'[v] = hook[v]
        BY ZenonT(60), <2>2, <3>1, <3>6, Ready DEF HookLocals
      <4>4. Cleared'
        BY <2>2, <3>3 DEF Cleared, Untouched
      <4>5. Informed(w)' /\ Prepared(w)'
        BY <4>1, <4>2, <4>3, <4>4, PreparedSending DEF Informed
      <4> QED BY <3>3, <4>1, <4>2, <4>3, <4>5, QuietStep DEF LocalsTyped
    <3>7. Onward(w) => l \in Staff \/ \E s \in Staff: work' = [work EXCEPT ![w].pick = s]
      <4>1. Onward(w) /\ work[w].pick = None => Filled(work[w].case, "lia")
                                               \/ \E s \in Staff: work' = [work EXCEPT ![w].pick = s]
        BY <2>2, <2>5, <3>1 DEF Assign, AssignRead, AssignWrite
      <4>2. Filled(work[w].case, "lia") => case[work[w].case].holder["lia"] \in Staff
        BY <2>2, Ready DEF Filled, CaseRows, Slots
      <4>3. work[w].pick # None => l \in Staff
        BY Ready DEF SigningLia, WorkLocals
      <4> QED BY <4>1, <4>2, <4>3 DEF SigningLia
    <3>8. Onward(w) \/ \E s \in Staff: work' = [work EXCEPT ![w].pick = s]
      BY <3>1 DEF Assign, AssignRead, AssignWrite
    <3> QED BY <3>5, <3>6, <3>7, <3>8
  <2> QED BY <2>4, <2>5
<1> QED BY <1>2, <1>3

\* Who has access, and who is billed, changes beside the contract.
LEMMA AccessStep ==
  ASSUME IInv, UNCHANGED <<via, gate, envelope, contract>>, BesideTyped, LocalsTyped,
         invoice' \in [Cases -> {"none", "SENT", "PAID"}],
         (\E c \in Cases: invoice'[c] # "none") => \E s \in Submissions: envelope[s].signed >= Client,
         promoted' => \E s \in Submissions: envelope[s].signed >= Lia
  PROVE  Typed' /\ Rows' /\ Keeps /\ \A v \in Workers: NotTaken(v)
<1>1. Typed'
  <2>1. \A v \in Workers: work'[v].case \in Cases \cup {None} /\ work'[v].pick \in Staff \cup {None}
    BY DEF LocalsTyped, WorkLocals
  <2>2. TypeOK'
    BY <2>1 DEF IInv, Typed, TypeOK, BesideTyped, CaseRows, Sent
  <2> QED BY <2>2 DEF IInv, Typed, LocalsTyped
<1>2. Rows'
  <2>1. AccessWasSigned'
    BY DEF IInv, Rows, AccessWasSigned
  <2> QED BY <2>1 DEF IInv, Rows, FreshRows, SignedIsComplete, OneLiveContract, SentWasCleared, Sent
<1>3. Keeps
  BY DEF Keeps, Cleared, IInv, Typed
<1>4. ASSUME NEW v \in Workers PROVE NotTaken(v)
  BY Belongs DEF NotTaken, IInv, Prepared
<1> QED BY <1>1, <1>2, <1>3, <1>4

LEMMA StoreArtifactsInv == ASSUME IInv, NEW w \in Workers, StoreArtifacts(w) PROVE IInv'
<1>1. work[w].todo # <<>> /\ Head(work[w].todo) = "store"
  BY DEF StoreArtifacts, Doing
<1>2. work[w].todo \in Sending => Head(work[w].todo) # "lia"
  BY <1>1
<1>3. Untouched
  BY DEF StoreArtifacts, Untouched
<1>4. BesideTyped
  <2>1. filed' \in [Cases -> SUBSET {"visaType", "pdf"}]
    BY Ready DEF StoreArtifacts
  <2> QED BY <2>1, Ready DEF StoreArtifacts, BesideTyped
<1>5. Onward(w) /\ Forget(w)
  BY DEF StoreArtifacts
<1> QED BY <1>1, <1>2, <1>3, <1>4, <1>5, Proceeds, QuietStep DEF Untouched

LEMMA PromoteClientInv == ASSUME IInv, NEW w \in Workers, PromoteClient(w) PROVE IInv'
<1> DEFINE s == hook[w].sub
<1>1. work[w].todo # <<>> /\ Head(work[w].todo) = "promote" /\ work[w].todo \in Serving
  BY Ready, ByHead DEF PromoteClient, Doing
<1>2. hook[w].delivery
  BY <1>1, Ready DEF Prepared
<1>3. Onward(w) /\ Forget(w) /\ UNCHANGED <<via, gate, envelope, contract, invoice>>
  BY DEF PromoteClient
<1>4. /\ LocalsTyped /\ Informed(w)' /\ Prepared(w)' /\ work'[w].todo # <<"insert">>
      /\ \A v \in Workers \ {w}: work'[v] = work[v] /\ hook'[v] = hook[v]
  BY <1>1, <1>3, Proceeds
<1>5. BesideTyped
  BY Ready DEF PromoteClient, BesideTyped
<1>6. promoted' => \E u \in Submissions: envelope[u].signed >= Lia
  <2>1. /\ s \in Submissions /\ contract[s].signed <= envelope[s].signed
        /\ contract[s].signed \in 0..3 /\ envelope[s].signed \in 0..3
    BY <1>2, RowOf DEF ContractRow
  <2>2. BothSigned(contract[s]) => envelope[s].signed >= Lia
    BY <2>1 DEF BothSigned, Lia
  <2>3. promoted => \E u \in Submissions: envelope[u].signed >= Lia
    BY DEF IInv, Rows, AccessWasSigned
  <2>4. promoted' => promoted \/ BothSigned(contract[s])
    BY DEF PromoteClient
  <2> QED BY <2>1, <2>2, <2>3, <2>4
<1>7. /\ invoice' \in [Cases -> {"none", "SENT", "PAID"}]
      /\ (\E c \in Cases: invoice'[c] # "none") => \E u \in Submissions: envelope[u].signed >= Client
  BY <1>3, Ready DEF IInv, Rows, AccessWasSigned
<1> QED BY <1>3, <1>4, <1>5, <1>6, <1>7, AccessStep, OneMoves

LEMMA InvoiceClientInv == ASSUME IInv, NEW w \in Workers, InvoiceClient(w) PROVE IInv'
<1> DEFINE s == hook[w].sub  c == work[w].case
<1>1. work[w].todo # <<>> /\ Head(work[w].todo) = "invoice" /\ work[w].todo \in Serving
  BY Ready, ByHead DEF InvoiceClient, Doing
<1>2. hook[w].delivery
  BY <1>1, Ready DEF Prepared
<1>3. Onward(w) /\ Forget(w) /\ UNCHANGED <<via, gate, envelope, contract, promoted>>
  BY DEF InvoiceClient
<1>4. /\ LocalsTyped /\ Informed(w)' /\ Prepared(w)' /\ work'[w].todo # <<"insert">>
      /\ \A v \in Workers \ {w}: work'[v] = work[v] /\ hook'[v] = hook[v]
  BY <1>1, <1>3, Proceeds
<1>5. BesideTyped
  BY Ready DEF InvoiceClient, BesideTyped
<1>6. promoted' => \E u \in Submissions: envelope[u].signed >= Lia
  BY <1>3 DEF IInv, Rows, AccessWasSigned
<1>7. invoice' \in [Cases -> {"none", "SENT", "PAID"}]
  BY Ready DEF InvoiceClient
<1>8. (\E d \in Cases: invoice'[d] # "none") => \E u \in Submissions: envelope[u].signed >= Client
  <2>1. /\ s \in Submissions /\ contract[s].signed <= envelope[s].signed
        /\ contract[s].signed \in 0..3 /\ envelope[s].signed \in 0..3
    BY <1>2, RowOf DEF ContractRow
  <2>2. contract[s].signed >= Client => envelope[s].signed >= Client
    BY <2>1 DEF Client
  <2>3. invoice' = invoice \/ contract[s].signed >= Client
    BY DEF InvoiceClient
  <2>4. (\E d \in Cases: invoice[d] # "none") => \E u \in Submissions: envelope[u].signed >= Client
    BY DEF IInv, Rows, AccessWasSigned
  <2> QED BY <2>1, <2>2, <2>3, <2>4
<1> QED BY <1>3, <1>4, <1>5, <1>6, <1>7, <1>8, AccessStep, OneMoves

LEMMA GivesUpInv == ASSUME IInv, NEW w \in Workers, GivesUp(w) PROVE IInv'
<1>1. /\ work[w].todo # <<>>
      /\ Head(work[w].todo) \in {"store", "promote", "invoice", "lia", "owner", "finance"}
  BY DEF GivesUp, Doing
<1>2. work[w].todo \notin Sending
  BY Ready DEF GivesUp, Prepared
<1>3. Untouched /\ BesideTyped
  BY Ready DEF GivesUp, docVars, Untouched, BesideTyped
<1>4. Onward(w) /\ Forget(w)
  BY DEF GivesUp
<1> QED BY <1>1, <1>2, <1>3, <1>4, Proceeds, QuietStep DEF Untouched

-----------------------------------------------------------------------------
\* Other requests.

LEMMA Starts ==
  ASSUME IInv, NEW w \in Workers, NEW l \in WorkLocals, StartWork(w, l), UNCHANGED hook,
         l.todo = <<>> \/ l.todo \in Elsewhere, l.todo = <<"move">> => l.slot \in Slots
  PROVE  /\ LocalsTyped /\ Informed(w)' /\ Prepared(w)' /\ work'[w].todo # <<"insert">>
         /\ \A v \in Workers \ {w}: work'[v] = work[v] /\ hook'[v] = hook[v]
<1>1. /\ work[w] = Idle /\ work' \in [Workers -> WorkLocals]
      /\ work'[w].todo = l.todo /\ (l.todo # <<>> => work'[w] = l)
      /\ \A v \in Workers \ {w}: work'[v] = work[v]
  BY StartMoves
<1>2. ~hook'[w].delivery
  BY <1>1, IdleHook
<1>3. Prepared(w)'
  <2>1. CASE l.todo = <<"move">>
    <3>1. l.todo # <<>>
      BY <2>1
    <3> QED BY <1>1, <1>2, <2>1, <3>1, PreparedMove
  <2>2. CASE l.todo # <<"move">>
    BY <1>1, <2>2, PreparedRest
  <2> QED BY <2>1, <2>2
<1>4. l.todo # <<"insert">>
  <2>1. l.todo \notin Sending
    BY Apart DEF WorkLocals
  <2> QED BY <2>1, Belongs
<1> QED BY <1>1, <1>2, <1>3, <1>4, Ready DEF LocalsTyped, Informed

LEMMA StaffCreateCaseInv == ASSUME IInv, NEW w \in Workers, StaffCreateCase(w) PROVE IInv'
<1> DEFINE l == [Idle EXCEPT !.todo = <<"create">>]
<1>1. l \in WorkLocals /\ l.todo \in Elsewhere /\ l.todo # <<"move">>
  <2>1. <<"create">> \in Scripts
    BY Belongs DEF Scripts
  <2> QED BY <2>1, Belongs, IdleTyped DEF WorkLocals
<1>2. StartWork(w, l)
  BY DEF StaffCreateCase
<1> HIDE DEF l
<1>3. Untouched /\ BesideTyped /\ UNCHANGED hook
  BY Ready DEF StaffCreateCase, docVars, Untouched, BesideTyped
<1> QED BY <1>1, <1>2, <1>3, Starts, QuietStep

LEMMA QualifyInv == ASSUME IInv, NEW w \in Workers, Qualify(w) PROVE IInv'
<1> DEFINE steps == IF Existing = {} THEN <<"enrol">> ELSE <<>>
           l == [Idle EXCEPT !.todo = steps]
<1>1. l \in WorkLocals /\ (l.todo = <<>> \/ l.todo \in Elsewhere) /\ l.todo # <<"move">>
  <2>1. steps \in Scripts /\ (steps = <<>> \/ steps \in Elsewhere) /\ steps # <<"move">>
    BY Belongs DEF Scripts
  <2> HIDE DEF steps
  <2> QED BY <2>1, IdleTyped DEF WorkLocals
<1>2. StartWork(w, l)
  BY DEF Qualify
<1> HIDE DEF l
<1>3. Untouched /\ BesideTyped /\ UNCHANGED hook
  BY Ready DEF Qualify, Untouched, BesideTyped
<1> QED BY <1>1, <1>2, <1>3, Starts, QuietStep

LEMMA AccountOpeningPaidInv ==
  ASSUME IInv, NEW w \in Workers, NEW c \in Cases, AccountOpeningPaid(w, c) PROVE IInv'
<1> DEFINE steps == IF \E s \in Sent: contract[s].case = c /\ contract[s].signedAt
                    THEN <<"lia", "owner", "finance">> ELSE <<>>
           l == [Idle EXCEPT !.case = c, !.todo = steps]
<1>1. l \in WorkLocals /\ (l.todo = <<>> \/ l.todo \in Elsewhere) /\ l.todo # <<"move">>
  <2>1. steps \in Scripts /\ (steps = <<>> \/ steps \in Elsewhere) /\ steps # <<"move">>
    BY Belongs DEF Scripts
  <2> HIDE DEF steps
  <2> QED BY <2>1, IdleTyped DEF WorkLocals
<1>2. StartWork(w, l)
  BY DEF AccountOpeningPaid
<1> HIDE DEF l
<1>3. UNCHANGED <<via, gate, envelope, contract, promoted, hook>> /\ BesideTyped
  BY Ready DEF AccountOpeningPaid, BesideTyped
<1>4. invoice' \in [Cases -> {"none", "SENT", "PAID"}] /\ invoice[c] = "SENT"
  BY Ready DEF AccountOpeningPaid
<1>5. /\ \E s \in Submissions: envelope[s].signed >= Client
      /\ promoted' => \E s \in Submissions: envelope[s].signed >= Lia
  BY <1>3, <1>4 DEF IInv, Rows, AccessWasSigned
<1>6. /\ LocalsTyped /\ Informed(w)' /\ Prepared(w)' /\ work'[w].todo # <<"insert">>
      /\ \A v \in Workers \ {w}: work'[v] = work[v] /\ hook'[v] = hook[v]
  BY <1>1, <1>2, <1>3, Starts
<1> QED BY <1>3, <1>4, <1>5, <1>6, AccessStep, OneMoves

LEMMA DieInv == ASSUME IInv, NEW w \in Workers, Die(w) PROVE IInv'
<1>1. Finish(w) /\ Untouched /\ BesideTyped
  BY Ready DEF Die, Untouched, BesideTyped
<1> QED BY <1>1, EndStep

LEMMA ReassignInv ==
  ASSUME IInv, NEW w \in Workers, NEW c \in Cases, NEW slot \in Slots, NEW s \in Staff \cup {None},
         Reassign(w, c, slot, s), UNCHANGED <<docVars, hook>>
  PROVE  IInv'
<1> DEFINE l == [todo |-> <<"move">>, case |-> c, slot |-> slot, pick |-> s]
<1>1. l \in WorkLocals /\ l.todo \in Elsewhere /\ l.slot \in Slots
  <2>1. <<"move">> \in Scripts
    BY Belongs DEF Scripts
  <2> QED BY <2>1, Belongs DEF WorkLocals
<1>2. StartWork(w, l)
  BY DEF Reassign
<1> HIDE DEF l
<1>3. Untouched /\ BesideTyped
  BY Ready DEF Reassign, docVars, Untouched, BesideTyped
<1> QED BY <1>1, <1>2, <1>3, Starts, QuietStep

LEMMA ManageInv == ASSUME IInv, NEW w \in Workers, NEW c \in Cases, Manage(w, c) PROVE IInv'
  BY ReassignInv DEF Manage, ManualReassign, ReassignConsultant, ReassignOwner, ReassignFinance,
     ReassignSupport, Slots

LEMMA ReassignWriteInv ==
  ASSUME IInv, NEW w \in Workers, ReassignWrite(w), UNCHANGED <<docVars, hook>> PROVE IInv'
<1>1. /\ work[w].todo # <<>> /\ work[w].todo = <<"move">> /\ Tail(work[w].todo) = <<>>
      /\ <<>> # <<"insert">>
  BY Ready, ByHead, ElsewhereSteps DEF ReassignWrite, Doing
<1>2. work[w].slot \in Slots /\ ~hook[w].delivery
  BY <1>1, Ready DEF Prepared
<1>3. /\ work' \in [Workers -> WorkLocals] /\ work'[w].todo = <<>>
      /\ \A v \in Workers \ {w}: work'[v] = work[v]
  BY <1>1, OnwardMoves DEF ReassignWrite
<1>4. case' \in CaseRows
  BY <1>2, HolderWritten, Ready DEF ReassignWrite, WorkLocals
<1>5. Untouched /\ BesideTyped /\ LocalsTyped
  BY <1>3, <1>4, Ready DEF ReassignWrite, docVars, Untouched, BesideTyped, LocalsTyped
<1>6. Informed(w)' /\ Prepared(w)'
  BY <1>2, <1>3, PreparedRest DEF Informed
<1> QED BY <1>1, <1>3, <1>5, <1>6, QuietStep

-----------------------------------------------------------------------------
LEMMA StutterInv == IInv /\ UNCHANGED vars => IInv'
<1> SUFFICES ASSUME IInv, UNCHANGED vars PROVE IInv'
  OBVIOUS
<1>1. Untouched /\ BesideTyped /\ work' = work /\ hook' = hook
  BY DEF vars, staffingVars, docVars, Untouched, BesideTyped, IInv, Typed, TypeOK, CaseRows
<1> QED BY <1>1, AsideStep

LEMMA AdvanceInv == ASSUME IInv, NEW w \in Workers, Advance(w) PROVE IInv'
  BY SubmitInv, InsertContractInv, FetchInv, FetchRecipientsInv, SyncSignersInv, BranchInv, UpdateStatusInv,
     FindCaseInv, CreateCaseInv, EnrolCaseInv, BackfillCaseInv, PointLiaInv, MarkSignedInv,
     StoreArtifactsInv, AppointLiaInv, AppointOthersInv, PromoteClientInv, InvoiceClientInv, ReassignWriteInv
  DEF Advance

LEMMA NextInv == IInv /\ [Next]_vars => IInv'
  BY StutterInv, AdvanceInv, FreeSessionCompletedInv, HardStopInv, ClientRegistersInv, LiaDecidesInv, SignInv,
     DeclineInv, DeliverUnknownInv, GivesUpInv, DieInv, SendToLeadInv, StaffCreateCaseInv, QualifyInv,
     DeliverInv, SendToCaseInv, AccountOpeningPaidInv, ManageInv, LeavesInv
  DEF Next

\* Every reachable state satisfies the inductive invariant.
THEOREM Invariant == Spec => []IInv
  BY InitInv, NextInv, PTL DEF Spec

\* Rows of cases, contracts, invoices and filed documents stay well formed.
THEOREM TypeCorrect == Spec => []TypeOK
<1>1. IInv => TypeOK
  BY DEF IInv, Typed
<1> QED BY Invariant, <1>1, PTL

\* Whatever is delivered late, twice or in the wrong order, an invoice means
\* the client signed, a promotion that client and LIA did, and our rows claim
\* no signature the provider does not have.
THEOREM AccessFollowsSignatures == Spec => []AccessWasSigned
<1>1. IInv => AccessWasSigned
  BY DEF IInv, Rows
<1> QED BY Invariant, <1>1, PTL

\* A contract is only ever marked signed once all three have signed and, with
\* DocuSeal, its case is known.
THEOREM SignedAfterDirector == Spec => []SignedIsComplete
<1>1. IInv => SignedIsComplete
  BY DEF IInv, Rows
<1> QED BY Invariant, <1>1, PTL

\* Of any number of sends that race, one contract per lead without a case and
\* one per case are stored.
THEOREM SendsAreOne == Spec => []OneLiveContract
<1>1. IInv => OneLiveContract
  BY DEF IInv, Rows
<1> QED BY Invariant, <1>1, PTL

\* No client is asked to sign before the free consultation and, for a flagged
\* lead, an LIA's approval.
THEOREM SendsAreCleared == Spec => []SentWasCleared
<1>1. IInv => SentWasCleared
  BY DEF IInv, Rows
<1> QED BY Invariant, <1>1, PTL

\* The steps that write a contract keep the signatures its row has.
LEMMA SignaturesKept ==
  ASSUME IInv, [Next]_vars PROVE \A s \in Submissions: contract'[s].signed >= contract[s].signed
<1> DEFINE Kept == \A s \in Submissions: contract'[s].signed >= contract[s].signed
<1>1. contract \in [Submissions -> ContractRow] /\ \A s \in Submissions: contract[s].signed \in 0..3
  BY DEF IInv, Typed, TypeOK, ContractRow
<1>2. contract' = contract => Kept
  BY <1>1
<1>3. ASSUME NEW w \in Workers, SyncSigners(w) PROVE Kept
  <2>1. hook[w].seen \in 0..3
    BY Ready DEF HookLocals
  <2>2. \A n \in 0..3: Synced(n, hook[w].seen) >= n
    BY <2>1 DEF Synced
  <2>3. \A s \in Submissions:
          contract'[s].signed \in {contract[s].signed, Synced(contract[s].signed, hook[w].seen)}
    BY <1>1, <1>3 DEF SyncSigners, ContractRow
  <2> QED BY <1>1, <2>2, <2>3
<1>4. ASSUME NEW w \in Workers, InsertContract(w) PROVE Kept
  <2>1. hook[w].sub \in Submissions /\ contract[hook[w].sub].status = "none"
    <3>1. work[w].todo \in Sending /\ work[w].todo = <<"insert">>
      BY <1>4, Ready, ByHead, SendingSteps DEF InsertContract, Doing
    <3> QED BY <3>1, Ready DEF Prepared
  <2>2. contract[hook[w].sub].signed = 0
    BY <2>1 DEF IInv, Rows, FreshRows, NoContract
  <2>3. \A s \in Submissions:
          contract'[s].signed = contract[s].signed \/ (s = hook[w].sub /\ contract'[s].signed = 0)
    BY <1>1, <1>4 DEF InsertContract, NoContract
  <2> QED BY <1>1, <2>2, <2>3
<1>5. ASSUME NEW w \in Workers, BackfillCase(w) PROVE Kept
  <2>1. \A s \in Submissions: contract'[s].signed = contract[s].signed
    BY <1>1, <1>5 DEF BackfillCase, ContractRow
  <2> QED BY <1>1, <2>1
<1>6. ASSUME NEW w \in Workers, UpdateStatus(w) PROVE Kept
  <2>1. \A s \in Submissions: contract'[s].signed = contract[s].signed
    BY <1>1, <1>6 DEF UpdateStatus, ContractRow
  <2> QED BY <1>1, <2>1
<1>7. ASSUME NEW w \in Workers, MarkSigned(w) PROVE Kept
  <2>1. \A s \in Submissions: contract'[s].signed = contract[s].signed
    BY <1>1, <1>7 DEF MarkSigned, ContractRow
  <2> QED BY <1>1, <2>1
<1>8. ASSUME NEW w \in Workers, Advance(w) PROVE Kept
  <2>1. \/ SyncSigners(w) \/ InsertContract(w) \/ BackfillCase(w) \/ UpdateStatus(w) \/ MarkSigned(w)
        \/ contract' = contract
    BY <1>8 DEF Advance, Submit, Fetch, FetchRecipients, Branch, FindCase, CreateCase, EnrolCase, PointLia,
       StoreArtifacts, AppointLia, AppointOthers, PromoteClient, InvoiceClient, docVars
  <2> QED BY <1>2, <1>3, <1>4, <1>5, <1>6, <1>7, <2>1
<1>9. [Next]_vars => contract' = contract \/ \E w \in Workers: Advance(w)
  BY DEF Next, vars, docVars, FreeSessionCompleted, HardStop, ClientRegisters, LiaDecides, Sign, Decline,
     DeliverUnknown, GivesUp, Die, SendToLead, StaffCreateCase, Qualify, Deliver, SendToCase,
     AccountOpeningPaid, Manage
<1> QED BY <1>2, <1>8, <1>9

\* A delivery that fetched earlier never makes a row forget a signature.
THEOREM SignaturesAreKept == Spec => SignaturesStay
<1>1. IInv /\ [Next]_vars => [\A s \in Submissions: contract'[s].signed >= contract[s].signed]_vars
  BY SignaturesKept
<1> QED BY Invariant, <1>1, PTL DEF Spec, SignaturesStay
-----------------------------------------------------------------------------
\* A contract at rest: what everybody has signed is served, unless somebody
\* interfered.  The obligation is carried from hand to hand: by the delivery the
\* provider still owes, then by the request that took it, which has each duty
\* ahead of it or behind it; what was done stays done.

\* The world RestIsServed speaks of.
Undisturbed == via = "docuseal" /\ ~excused /\ OneCasePerLead

\* Rows and requests name cases that exist.
Located ==
  /\ \A s \in Submissions: contract[s].case # None => contract[s].case \in Existing
  /\ \A w \in Workers: work[w].case # None => work[w].case \in Existing
  /\ \A c \in Cases: invoice[c] # "none" => c \in Existing

\* Nobody has left or was moved by hand, and who is picked as owner counts as one.
Unmoved ==
  /\ ~excused => active = Staff /\ \A w \in Workers: work[w].todo # <<"move">>
  /\ \A w \in Workers: work[w].pick # None /\ Doing(w, "owner") => RoleOf[work[w].pick] = "CONSULTANT"

\* A delivery that found its contract SIGNED is right about it.
Remembered ==
  \A w \in Workers:
    hook[w].delivery /\ hook[w].status = "SIGNED" => contract[hook[w].sub].status = "SIGNED"

Duties == {"mark", "store", "lia", "owner", "finance", "promote", "invoice"}
Left(t) == {t[i]: i \in 1..Len(t)}

Fulfilled(s, duty) ==
  LET c == contract[s].case IN
  /\ duty = "mark" => contract[s].status = "SIGNED"
  /\ duty = "store" => filed[c] = {"visaType", "pdf"}
  /\ duty \in {"lia", "owner", "finance"} => Filled(c, duty)
  /\ duty = "promote" => promoted \/ account = "STUDENT"
  /\ duty = "invoice" => invoice[c] # "none"

AllServed(s) == contract[s].case # None /\ \A duty \in Duties: Fulfilled(s, duty)

\* The request was told of the director's signature, or will ask.
Told(w, s) ==
  LET t == work[w].todo IN
  \/ t = <<"fetch", "sync", "branch">>
  \/ t = <<"sync", "branch">> /\ hook[w].seen = Director
  \/ /\ t \in {<<"branch">>, <<"find">>, <<"create">>} \cup Pointing
     /\ hook[w].seen = Director /\ contract[s].signed = Director

\* It serves the contract: each duty is ahead of it, or fulfilled.
Serves(w, s) ==
  /\ work[w].todo \in Serving
  /\ contract[s].signed = Director
  /\ contract[s].case # None /\ work[w].case = contract[s].case
  /\ \A duty \in Duties: duty \in Left(work[w].todo) \/ Fulfilled(s, duty)

Carries(w, s) == hook[w].delivery /\ hook[w].sub = s /\ (Told(w, s) \/ Serves(w, s))

Owed ==
  /\ due \in [Submissions -> Nat]
  /\ Undisturbed => \A s \in Submissions: envelope[s].signed = Director =>
       due[s] > 0 \/ AllServed(s) \/ \E w \in Workers: Carries(w, s)

RestInv == via = "docuseal" => Located /\ Unmoved /\ Remembered /\ Owed

-----------------------------------------------------------------------------
\* Which action writes what.

LEMMA AdvanceWrites ==
  ASSUME NEW w \in Workers, Advance(w)
  PROVE  /\ via' = via /\ active' = active
         /\ contract' = contract \/ SyncSigners(w) \/ InsertContract(w) \/ BackfillCase(w)
              \/ UpdateStatus(w) \/ MarkSigned(w)
         /\ case' = case \/ CreateCase(w) \/ EnrolCase(w) \/ PointLia(w) \/ AppointLia(w)
              \/ AppointOthers(w) \/ ReassignWrite(w)
         /\ filed' = filed \/ StoreArtifacts(w)
         /\ invoice' = invoice \/ InvoiceClient(w)
         /\ UNCHANGED <<account, promoted>> \/ PromoteClient(w)
         /\ due' = due \/ BackfillCase(w)
         /\ envelope' = envelope \/ Submit(w)
         /\ excused => excused'
<1>0. AppointLia(w) \/ AppointOthers(w) => UNCHANGED <<active, docVars, excused>>
  <2>1. \A slot: Assign(w, slot) => active' = active
    BY DEF Assign, AssignRead, AssignWrite
  <2>2. CASE AppointLia(w)
    BY <2>1, <2>2 DEF AppointLia, AssignLiaToCase
  <2>3. CASE AppointOthers(w)
    BY <2>1, <2>3 DEF AppointOthers, AssignAdmissionToCase, AssignFinanceToCase, AssignConsultantToCase
  <2> QED BY <2>2, <2>3
<1>1. CASE Submit(w) \/ InsertContract(w) \/ SyncSigners(w) \/ UpdateStatus(w) \/ MarkSigned(w)
  <2>1. CASE Submit(w)
    BY <2>1 DEF Submit
  <2>2. CASE InsertContract(w) \/ SyncSigners(w)
    BY <2>2 DEF InsertContract, SyncSigners
  <2>3. CASE UpdateStatus(w) \/ MarkSigned(w)
    BY <2>3 DEF UpdateStatus, MarkSigned
  <2> QED BY <1>1, <2>1, <2>2, <2>3
<1>2. CASE Fetch(w) \/ FetchRecipients(w) \/ Branch(w) \/ FindCase(w)
  <2>1. CASE Fetch(w) \/ FetchRecipients(w)
    BY <2>1 DEF Fetch, FetchRecipients, docVars
  <2>2. CASE Branch(w) \/ FindCase(w)
    BY <2>2 DEF Branch, FindCase, docVars
  <2> QED BY <1>2, <2>1, <2>2
<1>3. CASE CreateCase(w) \/ EnrolCase(w) \/ PointLia(w)
  BY <1>3 DEF CreateCase, EnrolCase, PointLia, docVars
<1>4. CASE BackfillCase(w)
  BY <1>4 DEF BackfillCase
<1>5. CASE StoreArtifacts(w) \/ PromoteClient(w) \/ InvoiceClient(w)
  <2>1. CASE StoreArtifacts(w)
    BY <2>1 DEF StoreArtifacts
  <2>2. CASE PromoteClient(w)
    BY <2>2 DEF PromoteClient
  <2>3. CASE InvoiceClient(w)
    BY <2>3 DEF InvoiceClient
  <2> QED BY <1>5, <2>1, <2>2, <2>3
<1>6. CASE AppointLia(w) \/ AppointOthers(w)
  BY <1>0, <1>6 DEF docVars
<1>7. CASE ReassignWrite(w) /\ UNCHANGED <<docVars, hook, excused>>
  BY <1>7 DEF ReassignWrite, docVars
<1> QED BY <1>1, <1>2, <1>3, <1>4, <1>5, <1>6, <1>7 DEF Advance

LEMMA NextWrites ==
  ASSUME [Next]_vars
  PROVE  /\ via' = via /\ (excused => excused')
         /\ active' = active \/ excused'
         /\ contract' = contract \/ \E w \in Workers:
              SyncSigners(w) \/ InsertContract(w) \/ BackfillCase(w) \/ UpdateStatus(w) \/ MarkSigned(w)
         /\ case' = case \/ \E w \in Workers:
              CreateCase(w) \/ EnrolCase(w) \/ PointLia(w) \/ AppointLia(w) \/ AppointOthers(w) \/ ReassignWrite(w)
         /\ filed' = filed \/ \E w \in Workers: StoreArtifacts(w)
         /\ invoice' = invoice \/ \E w \in Workers: InvoiceClient(w) \/ \E c \in Cases: AccountOpeningPaid(w, c)
         /\ UNCHANGED <<account, promoted>> \/ ClientRegisters
              \/ \E w \in Workers: PromoteClient(w) \/ Qualify(w)
         /\ due' = due \/ (\E s \in Submissions: Sign(s) \/ Decline(s) \/ DeliverUnknown(s))
              \/ \E w \in Workers: BackfillCase(w) \/ Die(w) \/ \E s \in Submissions: Deliver(w, s)
         /\ envelope' = envelope \/ (\E s \in Submissions: Sign(s) \/ Decline(s))
              \/ \E w \in Workers: Submit(w)
<1>1. CASE \E w \in Workers: Advance(w)
  BY <1>1, AdvanceWrites
<1>2. CASE FreeSessionCompleted \/ HardStop \/ ClientRegisters
  BY <1>2 DEF FreeSessionCompleted, HardStop, ClientRegisters, staffingVars
<1>3. CASE \E verdict \in {"APPROVED", "REJECTED"}: LiaDecides(verdict)
  BY <1>3 DEF LiaDecides
<1>4. CASE \E s \in Submissions: Sign(s) \/ Decline(s) \/ DeliverUnknown(s)
  BY <1>4 DEF Sign, Decline, DeliverUnknown, staffingVars
<1>5. CASE \E w \in Workers: GivesUp(w)
  BY <1>5 DEF GivesUp, docVars
<1>6. CASE \E w \in Workers: Die(w)
  BY <1>6 DEF Die
<1>7. CASE \E w \in Workers: SendToLead(w) \/ StaffCreateCase(w) \/ \E c \in Cases: SendToCase(w, c)
  <2>1. ASSUME NEW w \in Workers, SendToLead(w) PROVE UNCHANGED <<active, case, docVars, excused>>
    BY <2>1 DEF SendToLead
  <2>2. ASSUME NEW w \in Workers, StaffCreateCase(w) PROVE UNCHANGED <<active, case, docVars, excused>>
    BY <2>2 DEF StaffCreateCase
  <2>3. ASSUME NEW w \in Workers, NEW c \in Cases, SendToCase(w, c)
        PROVE  UNCHANGED <<active, case, docVars, excused>>
    BY <2>3 DEF SendToCase
  <2> QED BY <1>7, <2>1, <2>2, <2>3 DEF docVars
<1>8. CASE \E w \in Workers: Qualify(w)
  BY <1>8 DEF Qualify
<1>9. CASE \E w \in Workers, s \in Submissions: Deliver(w, s)
  <2> PICK w \in Workers, s \in Submissions: Deliver(w, s)
    BY <1>9
  <2>1. UNCHANGED <<via, excused, active, contract, case, filed, invoice, account, promoted, envelope>>
    BY DEF Deliver
  <2> QED BY <2>1
<1>10. CASE \E w \in Workers, c \in Cases: AccountOpeningPaid(w, c)
  <2> PICK w \in Workers, c \in Cases: AccountOpeningPaid(w, c)
    BY <1>10
  <2>1. UNCHANGED <<via, excused, active, contract, case, filed, due, account, promoted, envelope>>
    BY DEF AccountOpeningPaid
  <2> QED BY <2>1
<1>11. CASE \E w \in Workers, c \in Cases: Manage(w, c)
  BY <1>11 DEF Manage, ManualReassign, ReassignConsultant, ReassignOwner, ReassignFinance, ReassignSupport,
     Reassign, docVars
<1>12. CASE \E s \in Staff: Leaves(s) /\ excused' = TRUE /\ UNCHANGED <<docVars, hook>>
  BY <1>12 DEF Leaves, docVars
<1>13. CASE UNCHANGED vars
  BY <1>13 DEF vars, staffingVars, docVars
<1> QED BY <1>1, <1>2, <1>3, <1>4, <1>5, <1>6, <1>7, <1>8, <1>9, <1>10, <1>11, <1>12, <1>13 DEF Next

-----------------------------------------------------------------------------
\* Who moves: one request at most.

Alone(w) == \A v \in Workers \ {w}: work'[v] = work[v] /\ hook'[v] = hook[v]

LEMMA LocalsAreFunctions ==
  ASSUME IInv PROVE work \in [Workers -> WorkLocals] /\ hook \in [Workers -> HookLocals]
  BY DEF IInv, Typed

LEMMA AssignAlone ==
  ASSUME IInv, NEW w \in Workers, NEW slot, Assign(w, slot)
  PROVE  \A v \in Workers \ {w}: work'[v] = work[v]
  BY LocalsAreFunctions DEF Assign, AssignRead, AssignWrite, Onward, Goto

LEMMA HookAlone ==
  ASSUME IInv, NEW w \in Workers,
         hook' = hook \/ Forget(w) \/ \E h: hook' = [hook EXCEPT ![w] = h]
  PROVE  \A v \in Workers \ {w}: hook'[v] = hook[v]
  BY LocalsAreFunctions DEF Forget

LEMMA WorkAlone ==
  ASSUME IInv, NEW w \in Workers,
         work' = work \/ Onward(w) \/ (\E l: work' = [work EXCEPT ![w] = l])
  PROVE  \A v \in Workers \ {w}: work'[v] = work[v]
  BY LocalsAreFunctions DEF Onward, Goto

\* What a request may do once it has started.
Steps(w) == Advance(w) \/ GivesUp(w) \/ Die(w)
\* How it starts.
Starting(w) ==
  \/ SendToLead(w) \/ StaffCreateCase(w) \/ Qualify(w) \/ \E s \in Submissions: Deliver(w, s)
  \/ \E c \in Cases: SendToCase(w, c) \/ AccountOpeningPaid(w, c) \/ Manage(w, c)

LEMMA AdvanceAlone == ASSUME IInv, NEW w \in Workers, Advance(w) PROVE Alone(w)
<1> USE LocalsAreFunctions DEF Alone
<1>1. CASE Submit(w)
  <2>1. hook' = [hook EXCEPT ![w] = NoHook] \/ \E s \in Submissions: hook' = [hook EXCEPT ![w].sub = s]
    BY <1>1 DEF Submit, Finish
  <2>2. work' = [work EXCEPT ![w] = Idle] \/ Onward(w)
    BY <1>1 DEF Submit, Finish
  <2> QED BY <2>1, <2>2, WorkAlone
<1>2. CASE InsertContract(w)
  BY <1>2 DEF InsertContract, Finish
<1>3. CASE Fetch(w) \/ FetchRecipients(w)
  <2>1. CASE Fetch(w)
    BY <2>1, WorkAlone DEF Fetch
  <2>2. CASE FetchRecipients(w)
    BY <2>2, WorkAlone DEF FetchRecipients
  <2> QED BY <1>3, <2>1, <2>2
<1>4. CASE SyncSigners(w)
  BY <1>4, WorkAlone DEF SyncSigners
<1>5. CASE Branch(w)
  BY <1>5 DEF Branch, Goto, SettleOn
<1>6. CASE UpdateStatus(w)
  BY <1>6 DEF UpdateStatus, Goto, SettleOn
<1>7. CASE FindCase(w)
  BY <1>7 DEF FindCase, Goto, Finish
<1>8. CASE CreateCase(w) \/ EnrolCase(w)
  BY <1>8 DEF CreateCase, EnrolCase, CreateCaseRow, docVars
<1>9. CASE BackfillCase(w)
  BY <1>9, WorkAlone DEF BackfillCase, Finish
<1>10. CASE PointLia(w)
  BY <1>10 DEF PointLia, Goto, SettleOn
<1>11. CASE MarkSigned(w)
  BY <1>11, WorkAlone DEF MarkSigned, SettleOn
<1>12. CASE StoreArtifacts(w)
  BY <1>12, WorkAlone, HookAlone DEF StoreArtifacts
<1>13. CASE PromoteClient(w)
  BY <1>13, WorkAlone, HookAlone DEF PromoteClient
<1>14. CASE InvoiceClient(w)
  BY <1>14, WorkAlone, HookAlone DEF InvoiceClient
<1>15. CASE AppointOthers(w)
  <2>1. Forget(w) /\ \E slot: Assign(w, slot)
    BY <1>15 DEF AppointOthers, AssignAdmissionToCase, AssignFinanceToCase, AssignConsultantToCase
  <2> QED BY <2>1, AssignAlone, HookAlone
<1>16. CASE AppointLia(w)
  <2>1. Finish(w) \/ (Assign(w, "lia") /\ (Forget(w) \/ hook' = [hook EXCEPT ![w].lia = SigningLia(w)]))
    BY <1>16 DEF AppointLia, AssignLiaToCase
  <2>2. Finish(w) => Alone(w)
    BY DEF Finish
  <2>3. hook' = [hook EXCEPT ![w].lia = SigningLia(w)] => \A v \in Workers \ {w}: hook'[v] = hook[v]
    OBVIOUS
  <2> QED BY <2>1, <2>2, <2>3, AssignAlone, HookAlone
<1>17. CASE ReassignWrite(w) /\ UNCHANGED <<docVars, hook, excused>>
  BY <1>17, WorkAlone DEF ReassignWrite
<1> QED BY <1>1, <1>2, <1>3, <1>4, <1>5, <1>6, <1>7, <1>8, <1>9, <1>10, <1>11, <1>12, <1>13, <1>14, <1>15,
           <1>16, <1>17 DEF Advance

LEMMA StepsAlone == ASSUME IInv, NEW w \in Workers, Steps(w) PROVE Alone(w)
<1>1. CASE GivesUp(w)
  BY <1>1, WorkAlone, HookAlone DEF GivesUp, Alone
<1>2. CASE Die(w)
  BY <1>2, LocalsAreFunctions DEF Die, Finish, Alone
<1> QED BY <1>1, <1>2, AdvanceAlone DEF Steps

LEMMA StartingAlone == ASSUME IInv, NEW w \in Workers, Starting(w) PROVE Alone(w) /\ work[w] = Idle
<1> USE LocalsAreFunctions DEF Alone, StartWork, IsIdle
<1>1. CASE SendToLead(w)
  BY <1>1 DEF SendToLead
<1>2. CASE StaffCreateCase(w)
  BY <1>2 DEF StaffCreateCase
<1>3. CASE Qualify(w)
  BY <1>3 DEF Qualify
<1>4. ASSUME NEW s \in Submissions, Deliver(w, s) PROVE Alone(w) /\ work[w] = Idle
  BY <1>4 DEF Deliver
<1>5. ASSUME NEW c \in Cases, SendToCase(w, c) PROVE Alone(w) /\ work[w] = Idle
  BY <1>5 DEF SendToCase
<1>6. ASSUME NEW c \in Cases, AccountOpeningPaid(w, c) PROVE Alone(w) /\ work[w] = Idle
  BY <1>6 DEF AccountOpeningPaid
<1>7. ASSUME NEW c \in Cases, Manage(w, c) PROVE Alone(w) /\ work[w] = Idle
  BY <1>7 DEF Manage, ManualReassign, ReassignConsultant, ReassignOwner, ReassignFinance, ReassignSupport, Reassign
<1> QED BY <1>1, <1>2, <1>3, <1>4, <1>5, <1>6, <1>7 DEF Starting

LEMMA WhoMoves ==
  ASSUME IInv, [Next]_vars
  PROVE  (work' = work /\ hook' = hook) \/ \E w \in Workers: Alone(w) /\ (Steps(w) \/ Starting(w))
<1>1. CASE \E w \in Workers: Steps(w) \/ Starting(w)
  BY <1>1, StepsAlone, StartingAlone
<1>2. CASE \/ FreeSessionCompleted \/ HardStop \/ ClientRegisters \/ UNCHANGED vars
           \/ \E verdict \in {"APPROVED", "REJECTED"}: LiaDecides(verdict)
  BY <1>2 DEF FreeSessionCompleted, HardStop, ClientRegisters, LiaDecides, vars, staffingVars
<1>3. CASE \E s \in Submissions: Sign(s) \/ Decline(s) \/ DeliverUnknown(s)
  BY <1>3 DEF Sign, Decline, DeliverUnknown, staffingVars
<1>4. CASE \E s \in Staff: Leaves(s) /\ excused' = TRUE /\ UNCHANGED <<docVars, hook>>
  BY <1>4 DEF Leaves
<1> QED BY <1>1, <1>2, <1>3, <1>4 DEF Next, Steps, Starting

-----------------------------------------------------------------------------
\* What is done stays done.

\* The ways in which a row of cases is written.
Written(w) ==
  \/ \E d \in Cases, owner \in Staff \cup {None}:
       /\ d \notin Existing
       /\ case' = [case EXCEPT ![d] = [stage |-> "open", holder |-> [Vacant EXCEPT !.owner = owner]]]
  \/ \E d \in Cases \cup {None}, slot \in Slots, p \in Staff:
       /\ slot = "owner" => Doing(w, "owner") /\ p = work[w].pick
       /\ case' = [case EXCEPT ![d].holder[slot] = p]
  \/ ReassignWrite(w)

LEMMA CaseWritten ==
  ASSUME IInv, [Next]_vars
  PROVE  case' = case \/ \E w \in Workers: Written(w)
<1>1. ASSUME NEW w \in Workers, CreateCase(w) \/ EnrolCase(w) PROVE Written(w)
  <2>1. \E owner \in Staff \cup {None}: \E then: CreateCaseRow(w, owner, then)
    BY <1>1, StaffingAssumption DEF CreateCase, EnrolCase
  <2> QED BY <2>1 DEF CreateCaseRow, Written, Existing
<1>2. ASSUME NEW w \in Workers, PointLia(w), case' # case PROVE Written(w)
  <2>1. case' = [case EXCEPT ![work[w].case].holder["lia"] = contract[hook[w].sub].lia]
    BY <1>2 DEF PointLia
  <2>2. hook[w].delivery
    BY <1>2, Ready, ByHead DEF PointLia, Doing, Prepared
  <2>3. contract[hook[w].sub].lia \in Staff /\ work[w].case \in Cases \cup {None}
    BY <2>2, Ready DEF Informed, IInv, Typed, TypeOK, Sent
  <2> QED BY <2>1, <2>3 DEF Written, Slots
<1>3. ASSUME NEW w \in Workers, NEW slot \in {"lia", "owner", "finance", "consultant"}, Assign(w, slot), case' # case
      PROVE  Written(w)
  <2>1. /\ Doing(w, slot) /\ work[w].pick # None
        /\ case' = [case EXCEPT ![work[w].case].holder[slot] = work[w].pick]
    BY <1>3 DEF Assign, AssignRead, AssignWrite
  <2>2. work[w].pick \in Staff /\ work[w].case \in Cases \cup {None} /\ slot \in Slots
    BY <2>1, Ready DEF WorkLocals, Slots
  <2> QED BY <2>1, <2>2 DEF Written
<1>4. ASSUME NEW w \in Workers, AppointLia(w) \/ AppointOthers(w), case' # case PROVE Written(w)
  BY <1>3, <1>4 DEF AppointLia, AppointOthers, AssignLiaToCase, AssignAdmissionToCase, AssignFinanceToCase,
     AssignConsultantToCase
<1>5. ASSUME NEW w \in Workers, ReassignWrite(w) PROVE Written(w)
  BY <1>5 DEF Written
<1> QED BY <1>1, <1>2, <1>4, <1>5, NextWrites

LEMMA CasesStay == ASSUME IInv, [Next]_vars PROVE Existing \subseteq Existing' /\ Existing' \subseteq Cases
<1>1. case \in CaseRows
  BY DEF IInv, Typed, TypeOK, CaseRows
<1>2. ASSUME NEW w \in Workers, Written(w), NEW c \in Existing PROVE c \in Existing'
  BY <1>1, <1>2 DEF Written, Existing, CaseRows, ReassignWrite
<1> QED BY <1>2, CaseWritten DEF Existing

LEMMA HolderStays ==
  ASSUME IInv, Unmoved, ~excused', [Next]_vars, NEW c \in Existing, NEW slot \in {"lia", "owner", "finance"},
         Filled(c, slot)
  PROVE  Filled(c, slot)'
<1>1. case \in CaseRows /\ c \in Cases /\ slot \in Slots
  BY DEF IInv, Typed, TypeOK, CaseRows, Existing, Slots
<1>2. CASE case' = case
  BY <1>2 DEF Filled
<1>3. ASSUME NEW w \in Workers, NEW d \in Cases, NEW row, d \notin Existing, case' = [case EXCEPT ![d] = row]
      PROVE  Filled(c, slot)'
  <2>1. case'[c] = case[c]
    BY <1>1, <1>3 DEF CaseRows
  <2> QED BY <2>1 DEF Filled
<1>4. ASSUME NEW w \in Workers, NEW d \in Cases \cup {None}, NEW k \in Slots, NEW p \in Staff,
             k = "owner" => Doing(w, "owner") /\ p = work[w].pick,
             case' = [case EXCEPT ![d].holder[k] = p]
      PROVE  Filled(c, slot)'
  <2>1. p # None
    BY StaffingAssumption
  <2>2. k = "owner" => RoleOf[p] = "CONSULTANT"
    BY <1>4, <2>1 DEF Unmoved
  <2>3. CASE d = c /\ k = slot
    <3>1. case'[c].holder[slot] = p
      BY <1>1, <1>4, <2>3 DEF CaseRows
    <3>2. CASE slot = "owner"
      BY <2>1, <2>2, <2>3, <3>1, <3>2 DEF Filled
    <3>3. CASE slot # "owner"
      BY <2>1, <3>1, <3>3 DEF Filled
    <3> QED BY <3>2, <3>3
  <2>4. CASE ~(d = c /\ k = slot)
    <3>1. case'[c].holder[slot] = case[c].holder[slot]
      BY <1>1, <1>4, <2>4 DEF CaseRows
    <3>2. CASE slot = "owner"
      BY <3>1, <3>2 DEF Filled
    <3>3. CASE slot # "owner"
      BY <3>1, <3>3 DEF Filled
    <3> QED BY <3>2, <3>3
  <2> QED BY <2>3, <2>4
<1>5. ASSUME NEW w \in Workers PROVE ~ReassignWrite(w)
  <2>1. ~excused
    BY NextWrites
  <2>2. work[w].todo # <<"move">>
    BY <2>1 DEF Unmoved
  <2>3. work[w].todo # <<>> /\ Head(work[w].todo) = "move" => work[w].todo = <<"move">>
    BY Ready, ByHead, ElsewhereSteps
  <2> QED BY <2>2, <2>3 DEF ReassignWrite, Doing
<1> QED BY <1>2, <1>3, <1>4, <1>5, CaseWritten DEF Written

\* The ways in which a row of contracts is written, with DocuSeal.
LEMMA RowWritten ==
  ASSUME IInv, via = "docuseal", [Next]_vars, NEW s \in Submissions
  PROVE  \/ contract'[s] = contract[s]
         \/ contract[s].status = "none" /\ \E w \in Workers: contract'[s].case = work[w].case
         \/ \E n: contract'[s] = [contract[s] EXCEPT !.signed = n]
         \/ \E w \in Workers: work[w].case \in Cases /\ contract'[s] = [contract[s] EXCEPT !.case = work[w].case]
         \/ contract'[s] = [contract[s] EXCEPT !.status = "SIGNED", !.signedAt = TRUE]
<1>1. contract \in [Submissions -> ContractRow]
  BY DEF IInv, Typed, TypeOK, ContractRow
<1>2. ASSUME NEW w \in Workers, SyncSigners(w)
      PROVE  contract'[s] = contract[s] \/ \E n: contract'[s] = [contract[s] EXCEPT !.signed = n]
  BY <1>1, <1>2 DEF SyncSigners
<1>3. ASSUME NEW w \in Workers, InsertContract(w)
      PROVE  contract'[s] = contract[s]
             \/ (contract[s].status = "none" /\ contract'[s].case = work[w].case)
  <2>1. work[w].todo \in Sending /\ work[w].todo = <<"insert">>
    BY <1>3, Ready, ByHead, SendingSteps DEF InsertContract, Doing
  <2>2. contract[hook[w].sub].status = "none"
    BY <2>1, Ready DEF Prepared
  <2> QED BY <1>1, <1>3, <2>2 DEF InsertContract, NoContract
<1>4. ASSUME NEW w \in Workers, BackfillCase(w)
      PROVE  contract'[s] = contract[s]
             \/ (work[w].case \in Cases /\ contract'[s] = [contract[s] EXCEPT !.case = work[w].case])
  <2>1. work[w].case \in Cases
    BY <1>4, Ready, ByHead DEF BackfillCase, Doing, Prepared
  <2> QED BY <1>1, <1>4, <2>1 DEF BackfillCase
<1>5. ASSUME NEW w \in Workers PROVE ~UpdateStatus(w)
  BY Ready, ByHead DEF UpdateStatus, Doing, Prepared
<1>6. ASSUME NEW w \in Workers, MarkSigned(w)
      PROVE  contract'[s] = contract[s]
             \/ contract'[s] = [contract[s] EXCEPT !.status = "SIGNED", !.signedAt = TRUE]
  BY <1>1, <1>6 DEF MarkSigned
<1> QED BY <1>2, <1>3, <1>4, <1>5, <1>6, NextWrites

LEMMA RowStays ==
  ASSUME IInv, Located, via = "docuseal", [Next]_vars, NEW s \in Submissions
  PROVE  /\ contract[s].status = "SIGNED" => contract'[s].status = "SIGNED"
         /\ contract[s].signed = Director => contract'[s].signed = Director
         /\ contract'[s].case # None => contract'[s].case \in Existing
         /\ contract[s].case # None => contract'[s].case # None
<1>1. contract[s] \in ContractRow /\ (contract[s].status = "none" => contract[s] = NoContract)
  BY DEF IInv, Typed, TypeOK, ContractRow, Rows, FreshRows
<1>2. NoContract.case = None /\ NoContract.status = "none"
  BY DEF NoContract
<1>3. contract'[s].signed \in 0..3 /\ contract[s].signed \in 0..3
  BY NextInv, Ready DEF IInv, Typed, TypeOK
<1>4. contract[s].signed = Director => contract'[s].signed = Director
  BY <1>3, SignaturesKept DEF Director
<1>5. \A w \in Workers: work[w].case # None => work[w].case \in Existing
  BY DEF Located
<1>6. contract[s].case # None => contract[s].case \in Existing
  BY DEF Located
<1>7. contract'[s].status \in {contract[s].status, "SIGNED"} \/ contract[s].status = "none"
  BY <1>1, RowWritten DEF ContractRow
<1>8. \/ contract'[s].case = contract[s].case
      \/ \E w \in Workers: contract'[s].case = work[w].case
           /\ (contract[s].case # None => work[w].case \in Cases)
  BY <1>1, <1>2, RowWritten DEF ContractRow
<1> QED BY <1>1, <1>2, <1>4, <1>5, <1>6, <1>7, <1>8, StaffingAssumption

\* With one case there is only one to point at.
LEMMA SameCase ==
  ASSUME IInv, Located, via = "docuseal", OneCasePerLead', [Next]_vars, NEW s \in Submissions, contract[s].case # None
  PROVE  contract'[s].case = contract[s].case
<1>1. contract[s].case \in Existing' /\ contract'[s].case \in Existing'
  BY RowStays, CasesStay DEF Located
<1> QED BY <1>1 DEF OneCasePerLead

LEMMA FiledStays ==
  ASSUME IInv, [Next]_vars, NEW c \in Cases, filed[c] = {"visaType", "pdf"} PROVE filed'[c] = {"visaType", "pdf"}
<1>1. filed \in [Cases -> SUBSET {"visaType", "pdf"}]
  BY DEF IInv, Typed, TypeOK
<1>2. ASSUME NEW w \in Workers, StoreArtifacts(w) PROVE filed'[c] = {"visaType", "pdf"}
  BY <1>1, <1>2 DEF StoreArtifacts
<1> QED BY <1>2, NextWrites

LEMMA InvoiceStays ==
  ASSUME IInv, Located, [Next]_vars, NEW c \in Cases
  PROVE  /\ invoice[c] # "none" => invoice'[c] # "none"
         /\ invoice'[c] # "none" => c \in Existing
<1>1. invoice \in [Cases -> {"none", "SENT", "PAID"}]
  BY DEF IInv, Typed, TypeOK
<1>2. ASSUME NEW w \in Workers, InvoiceClient(w)
      PROVE  invoice'[c] # "none" => invoice[c] # "none" \/ work[w].case = c
  BY <1>1, <1>2 DEF InvoiceClient
<1>3. ASSUME NEW w \in Workers, InvoiceClient(w) PROVE invoice[c] # "none" => invoice'[c] # "none"
  BY <1>1, <1>3 DEF InvoiceClient
<1>4. ASSUME NEW w \in Workers, NEW d \in Cases, AccountOpeningPaid(w, d)
      PROVE  invoice'[c] # "none" <=> invoice[c] # "none"
  BY <1>1, <1>4 DEF AccountOpeningPaid
<1>5. \A w \in Workers: work[w].case = c => c \in Existing
  BY StaffingAssumption DEF Located
<1> QED BY <1>2, <1>3, <1>4, <1>5, NextWrites DEF Located

LEMMA AccessStays ==
  ASSUME [Next]_vars, promoted \/ account = "STUDENT" PROVE promoted' \/ account' = "STUDENT"
<1>1. ASSUME NEW w \in Workers, PromoteClient(w) PROVE promoted' \/ account' = "STUDENT"
  BY <1>1 DEF PromoteClient
<1>2. ASSUME NEW w \in Workers, Qualify(w) PROVE account' = "STUDENT"
  BY <1>2 DEF Qualify
<1>3. ClientRegisters => promoted'
  BY DEF ClientRegisters
<1> QED BY <1>1, <1>2, <1>3, NextWrites

\* A duty that is fulfilled stays so.
LEMMA FulfilledStays ==
  ASSUME IInv, RestInv, Undisturbed', [Next]_vars, NEW s \in Submissions, contract[s].case # None,
         NEW duty \in Duties, Fulfilled(s, duty)
  PROVE  Fulfilled(s, duty)'
<1> DEFINE c == contract[s].case
<1>0. via = "docuseal" /\ Located /\ Unmoved /\ ~excused' /\ OneCasePerLead'
  BY NextWrites DEF RestInv, Undisturbed
<1>1. c \in Existing /\ c \in Cases /\ contract'[s].case = c
  BY <1>0, SameCase DEF Located, Existing
<1>2. duty = "mark" => contract'[s].status = "SIGNED"
  BY <1>0, RowStays DEF Fulfilled
<1>3. duty = "store" => filed'[c] = {"visaType", "pdf"}
  BY <1>1, FiledStays DEF Fulfilled
<1>4. duty \in {"lia", "owner", "finance"} => Filled(c, duty)'
  BY <1>0, <1>1, HolderStays DEF Fulfilled
<1>5. duty = "promote" => promoted' \/ account' = "STUDENT"
  BY AccessStays DEF Fulfilled
<1>6. duty = "invoice" => invoice'[c] # "none"
  BY <1>0, <1>1, InvoiceStays DEF Fulfilled
<1> QED BY <1>1, <1>2, <1>3, <1>5, <1>6, <1>4 DEF Fulfilled, Filled

-----------------------------------------------------------------------------
\* The case in hand, the people, and what a delivery remembers.

\* What a request holds after a step.
Holds(w) ==
  /\ work'[w].case # None => work'[w].case = work[w].case \/ work'[w].case \in Existing'
  /\ work'[w].todo # <<"move">>
  /\ work'[w].pick # None /\ Doing(w, "owner")' => RoleOf[work'[w].pick] = "CONSULTANT"

LEMMA NoMove ==
  /\ <<>> # <<"move">> /\ <<"find">> # <<"move">> /\ <<"create">> # <<"move">>
  /\ <<"backfill", "point">> # <<"move">> /\ <<"lia", "owner", "finance">> # <<"move">>
  /\ <<"submit", "insert">> # <<"move">> /\ <<"consultant", "backfill", "point">> # <<"move">>
  /\ <<"consultant">> # <<"move">> /\ <<"enrol">> # <<"move">> /\ ToCase # <<"move">>
  /\ <<"fetch", "sync", "branch">> # <<"move">> /\ ToFetch # <<"move">>
  /\ \A t \in Serving: t # <<"move">>
  /\ \A t \in Scripts \ {<<>>}: Tail(t) # <<"move">>
<1>1. \A t \in Serving: t # <<"move">>
  BY Belongs, Apart DEF Scripts
<1>2. ASSUME NEW t \in Scripts \ {<<>>} PROVE Tail(t) # <<"move">>
  <2>1. CASE t \in Sending
    <3>1. Tail(t) \in Scripts /\ (Tail(t) \in Sending \/ Tail(t) = <<>>)
      BY <2>1, SendingSteps DEF Scripts
    <3> QED BY <3>1, Belongs, Apart
  <2>2. CASE t \in Seal
    <3>1. Tail(t) \in Scripts /\ (Tail(t) \in Seal \/ Tail(t) = <<>>)
      BY <2>2, SealSteps DEF Scripts
    <3> QED BY <3>1, Belongs, Apart
  <2>3. CASE t \in Envelopes
    <3>1. Tail(t) \in Scripts /\ (Tail(t) \in Envelopes \/ Tail(t) = <<>>)
      BY <2>3, EnvelopesSteps DEF Scripts
    <3> QED BY <3>1, Belongs, Apart
  <2>4. CASE t \in Pointing
    <3>1. Tail(t) \in Scripts /\ (Tail(t) \in Pointing \/ Tail(t) = <<>>)
      BY <2>4, PointingSteps, Belongs DEF Scripts
    <3> QED BY <3>1, Belongs, Apart
  <2>5. CASE t \in Serving
    <3>1. Tail(t) \in Serving \/ Tail(t) = <<>>
      BY <2>5, ServingSteps
    <3>2. <<>> # <<"move">>
      OBVIOUS
    <3> QED BY <1>1, <3>1, <3>2
  <2>6. CASE t \in Elsewhere
    BY <2>6, ElsewhereSteps
  <2>7. CASE t = <<"find">>
    BY <2>7
  <2> QED BY <2>1, <2>2, <2>3, <2>4, <2>5, <2>6, <2>7 DEF Scripts
<1> QED BY <1>1, <1>2 DEF ToCase, ToFetch

LEMMA IdleHolds == ASSUME NEW w \in Workers, work'[w] = Idle PROVE Holds(w)
  BY NoMove DEF Idle, Holds

LEMMA GotoHolds ==
  ASSUME IInv, NEW w \in Workers, NEW steps, Goto(w, steps), steps # <<"move">>
  PROVE  Holds(w)
<1>1. work \in [Workers -> WorkLocals]
  BY LocalsAreFunctions
<1>2. CASE steps = <<>>
  BY <1>1, <1>2, IdleHolds DEF Goto
<1>3. CASE steps # <<>>
  BY <1>1, <1>3 DEF Goto, Holds, WorkLocals
<1> QED BY <1>2, <1>3

LEMMA OnwardHolds ==
  ASSUME IInv, NEW w \in Workers, work[w].todo # <<>>, Onward(w) PROVE Holds(w)
  BY Ready, NoMove, GotoHolds DEF Onward

LEMMA AssignHolds ==
  ASSUME IInv, NEW w \in Workers, NEW slot \in {"lia", "owner", "finance", "consultant"}, Assign(w, slot),
         work[w].todo # <<"move">>
  PROVE  Holds(w)
<1>1. CASE Onward(w)
  BY <1>1, OnwardHolds DEF Assign, AssignRead, AssignWrite, Doing
<1>2. CASE ~Onward(w)
  <2>1. PICK s \in Staff: Pick(slot, s) /\ work' = [work EXCEPT ![w].pick = s] /\ Doing(w, slot)
    BY <1>2 DEF Assign, AssignRead, AssignWrite
  <2>2. work'[w].case = work[w].case /\ work'[w].todo = work[w].todo /\ work'[w].pick = s
    BY <2>1, LocalsAreFunctions DEF WorkLocals
  <2>3. slot = "owner" => RoleOf[s] = "CONSULTANT"
    BY <2>1 DEF Pick, Pool, FindActiveAdmissionSpecialists, Members
  <2>4. Doing(w, "owner")' => slot = "owner"
    BY <2>1, <2>2 DEF Doing
  <2> QED BY <2>2, <2>3, <2>4 DEF Holds
<1> QED BY <1>1, <1>2

LEMMA CreateHolds ==
  ASSUME IInv, NEW w \in Workers, NEW owner, NEW rest \in {<<>>, <<"backfill", "point">>}, CreateCaseRow(w, owner, rest)
  PROVE  Holds(w)
<1>1. case \in CaseRows
  BY DEF IInv, Typed, TypeOK, CaseRows
<1>2. PICK c \in Cases:
        /\ case' = [case EXCEPT ![c] = [stage |-> "open", holder |-> [Vacant EXCEPT !.owner = owner]]]
        /\ work' = [work EXCEPT ![w] = [todo |-> <<"consultant">> \o rest, case |-> c, slot |-> "none", pick |-> None]]
  BY DEF CreateCaseRow
<1>3. c \in Existing'
  BY <1>1, <1>2 DEF Existing, CaseRows
<1>4. <<"consultant">> \o rest \in {<<"consultant">>, <<"consultant", "backfill", "point">>}
  BY ConsultantFirst
<1>5. <<"consultant">> \o rest # <<"move">>
  BY <1>4, NoMove
<1>6. work'[w].case = c /\ work'[w].pick = None /\ work'[w].todo = <<"consultant">> \o rest
  BY <1>2, LocalsAreFunctions
<1> QED BY <1>3, <1>5, <1>6 DEF Holds

LEMMA StepsHold ==
  ASSUME IInv, [Next]_vars, NEW w \in Workers, Steps(w), work[w].todo # <<"move">>
  PROVE  Holds(w)
<1> USE LocalsAreFunctions
<1>1. CASE Finish(w)
  BY <1>1, IdleHolds DEF Finish
<1>2. CASE Onward(w) /\ work[w].todo # <<>>
  BY <1>2, OnwardHolds
<1>3. CASE Branch(w) \/ PointLia(w)
  <2>1. PICK steps \in {<<>>, <<"find">>} \cup Serving: Goto(w, steps)
    BY <1>3, DownstreamSteps DEF Branch, PointLia
  <2> QED BY <2>1, GotoHolds, NoMove
<1>4. CASE UpdateStatus(w)
  <2>1. PICK steps \in {<<>>} \cup Serving: Goto(w, steps)
    BY <1>4, Belongs DEF UpdateStatus
  <2> QED BY <2>1, GotoHolds, NoMove
<1>5. CASE FindCase(w)
  <2>1. ASSUME NEW c \in Existing, work' = [work EXCEPT ![w].todo = <<"backfill", "point">>, ![w].case = c]
        PROVE  Holds(w)
    <3>1. work'[w].case = c /\ work'[w].todo = <<"backfill", "point">> /\ c \in Existing'
      BY <2>1, CasesStay DEF WorkLocals
    <3>2. ~Doing(w, "owner")'
      BY <3>1 DEF Doing
    <3> QED BY <3>1, <3>2, NoMove DEF Holds
  <2>2. CASE Goto(w, <<"create">>)
    BY <2>2, GotoHolds, NoMove
  <2> QED BY <1>1, <1>5, <2>1, <2>2 DEF FindCase
<1>6. CASE CreateCase(w) \/ EnrolCase(w)
  BY <1>6, CreateHolds DEF CreateCase, EnrolCase
<1>7. CASE AppointLia(w) \/ AppointOthers(w)
  BY <1>1, <1>7, AssignHolds DEF AppointLia, AppointOthers, AssignLiaToCase, AssignAdmissionToCase,
     AssignFinanceToCase, AssignConsultantToCase
<1>8. CASE \/ Submit(w) \/ InsertContract(w) \/ Fetch(w) \/ FetchRecipients(w) \/ SyncSigners(w) \/ BackfillCase(w)
  <2>1. Finish(w) \/ (Onward(w) /\ work[w].todo # <<>>)
    BY <1>8 DEF Submit, InsertContract, Fetch, FetchRecipients, SyncSigners, BackfillCase, Doing
  <2> QED BY <1>1, <1>2, <2>1
<1>9. CASE \/ MarkSigned(w) \/ StoreArtifacts(w) \/ PromoteClient(w) \/ InvoiceClient(w) \/ GivesUp(w)
           \/ ReassignWrite(w)
  <2>1. Onward(w) /\ work[w].todo # <<>>
    BY <1>9 DEF MarkSigned, StoreArtifacts, PromoteClient, InvoiceClient, GivesUp, ReassignWrite, Doing
  <2> QED BY <1>2, <2>1
<1>10. CASE Die(w)
  BY <1>1, <1>10 DEF Die
<1> QED BY <1>3, <1>4, <1>5, <1>6, <1>7, <1>8, <1>9, <1>10 DEF Steps, Advance

\* What a request holds when it starts.
LEMMA StartsHold ==
  ASSUME IInv, Located, [Next]_vars, NEW w \in Workers, Starting(w)
  PROVE  /\ work'[w].case # None => work'[w].case \in Existing'
         /\ work'[w].todo # <<"move">> \/ excused'
         /\ work'[w].pick # None => ~Doing(w, "owner")'
<1> DEFINE Good == /\ work'[w].case # None => work'[w].case \in Existing'
                   /\ work'[w].todo # <<"move">> \/ excused'
                   /\ work'[w].pick # None => ~Doing(w, "owner")'
<1>1. ASSUME NEW l, StartWork(w, l), l.case = None \/ l.case \in Existing, l.todo # <<"move">> \/ excused',
             l.pick = None \/ l.todo = <<"move">>
      PROVE  Good
  <2>1. work'[w] = Idle \/ work'[w] = l
    BY <1>1, LocalsAreFunctions DEF StartWork, IsIdle
  <2>2. CASE work'[w] = Idle
    BY <2>2, NoMove DEF Idle
  <2>3. CASE work'[w] = l
    BY <1>1, <2>3, CasesStay DEF Doing
  <2> QED BY <2>1, <2>2, <2>3
<1>2. CASE SendToLead(w)
  BY <1>1, <1>2, NoMove DEF SendToLead, Idle
<1>3. CASE StaffCreateCase(w)
  BY <1>1, <1>3, NoMove DEF StaffCreateCase, Idle
<1>4. CASE Qualify(w)
  <2>1. PICK steps \in {<<>>, <<"enrol">>}: StartWork(w, [Idle EXCEPT !.todo = steps])
    BY <1>4 DEF Qualify
  <2> QED BY <1>1, <2>1, NoMove DEF Idle
<1>5. ASSUME NEW s \in Submissions, Deliver(w, s) PROVE Good
  <2>1. PICK steps \in {<<"fetch", "sync", "branch">>, ToFetch}:
          StartWork(w, [Idle EXCEPT !.case = contract[s].case, !.todo = steps])
    BY <1>5 DEF Deliver, ToFetch
  <2> DEFINE l == [Idle EXCEPT !.case = contract[s].case, !.todo = steps]
  <2>2. l.case = contract[s].case /\ l.todo = steps /\ l.pick = None
    BY DEF Idle
  <2> HIDE DEF l
  <2> QED BY <1>1, <2>1, <2>2, NoMove DEF Located, l
<1>6. ASSUME NEW c \in Cases, SendToCase(w, c) PROVE Good
  <2> DEFINE l == [Idle EXCEPT !.todo = ToCase, !.case = c]
  <2>1. l.case = c /\ l.todo = ToCase /\ l.pick = None
    BY DEF Idle
  <2>2. StartWork(w, l) /\ c \in Existing
    BY <1>6 DEF SendToCase, ToCase
  <2> HIDE DEF l
  <2> QED BY <1>1, <2>1, <2>2, NoMove
<1>7. ASSUME NEW c \in Cases, AccountOpeningPaid(w, c) PROVE Good
  <2>1. PICK steps \in {<<>>, <<"lia", "owner", "finance">>}: StartWork(w, [Idle EXCEPT !.case = c, !.todo = steps])
    BY <1>7 DEF AccountOpeningPaid
  <2>2. c \in Existing
    BY <1>7 DEF AccountOpeningPaid, Located
  <2> DEFINE l == [Idle EXCEPT !.case = c, !.todo = steps]
  <2>3. l.case = c /\ l.todo = steps /\ l.pick = None /\ StartWork(w, l)
    BY <2>1 DEF Idle
  <2> HIDE DEF l
  <2> QED BY <1>1, <2>2, <2>3, NoMove
<1>8. ASSUME NEW c \in Cases, Manage(w, c) PROVE Good
  <2>1. PICK slot \in Slots, s \in Staff \cup {None}: Reassign(w, c, slot, s) /\ excused' = TRUE
    BY <1>8 DEF Manage, ManualReassign, ReassignConsultant, ReassignOwner, ReassignFinance, ReassignSupport, Slots
  <2> QED BY <1>1, <2>1 DEF Reassign
<1> QED BY <1>2, <1>3, <1>4, <1>5, <1>6, <1>7, <1>8 DEF Starting

LEMMA LocatedStep ==
  ASSUME IInv, Located, Unmoved, via = "docuseal", [Next]_vars PROVE Located' /\ Unmoved'
<1>1. \A s \in Submissions: contract'[s].case # None => contract'[s].case \in Existing'
  BY RowStays, CasesStay
<1>2. \A c \in Cases: invoice'[c] # "none" => c \in Existing'
  BY InvoiceStays, CasesStay
<1>3. ASSUME NEW v \in Workers
      PROVE  /\ work'[v].case # None => work'[v].case \in Existing'
             /\ ~excused' => work'[v].todo # <<"move">>
             /\ work'[v].pick # None /\ Doing(v, "owner")' => RoleOf[work'[v].pick] = "CONSULTANT"
  <2>1. CASE work'[v] = work[v]
    BY <2>1, CasesStay, NextWrites DEF Located, Unmoved, Doing
  <2>2. CASE Starting(v)
    BY <2>2, StartsHold
  <2>3. CASE Steps(v) /\ work[v].todo # <<"move">>
    BY <2>3, StepsHold, CasesStay DEF Located, Holds
  <2>4. CASE Steps(v) /\ work[v].todo = <<"move">>
    <3>1. Doing(v, "move") /\ Tail(work[v].todo) = <<>> /\ work[v].todo # <<>>
      BY <2>4 DEF Doing
    <3>2. work'[v] = Idle
      <4>1. CASE Die(v)
        BY <4>1, LocalsAreFunctions DEF Die, Finish
      <4>2. CASE Advance(v) \/ GivesUp(v)
        <5>1. ReassignWrite(v)
          BY <3>1, <4>2 DEF Doing, GivesUp, Advance, Submit, InsertContract, Fetch, FetchRecipients, SyncSigners, Branch,
             UpdateStatus, FindCase, CreateCase, EnrolCase, BackfillCase, PointLia, MarkSigned, StoreArtifacts,
             AppointLia, AppointOthers, AssignLiaToCase, AssignAdmissionToCase, AssignFinanceToCase,
             AssignConsultantToCase, Assign, AssignRead, AssignWrite, PromoteClient, InvoiceClient
        <5> QED BY <3>1, <5>1, OnwardMoves DEF ReassignWrite
      <4> QED BY <2>4, <4>1, <4>2 DEF Steps
    <3> QED BY <3>2, IdleHolds DEF Holds, Idle
  <2> QED BY <2>1, <2>2, <2>3, <2>4, WhoMoves DEF Alone
<1>4. ~excused' => active' = Staff
  BY NextWrites DEF Unmoved
<1> QED BY <1>1, <1>2, <1>3, <1>4 DEF Located, Unmoved

\* What a delivery remembers after a step.
Recalls(w) ==
  hook'[w].delivery =>
    /\ hook[w].delivery /\ hook'[w].sub = hook[w].sub
    /\ hook'[w].status = "SIGNED" => hook[w].status = "SIGNED"

LEMMA SettleRecalls ==
  ASSUME IInv, NEW w \in Workers, NEW h, SettleOn(w, h), h.sub = hook[w].sub, h.delivery = hook[w].delivery,
         h.status \in {hook[w].status, "none"}
  PROVE  Recalls(w)
<1>1. hook'[w] = NoHook \/ hook'[w] = h \/ hook'[w] = Decided(h)
  BY LocalsAreFunctions DEF SettleOn
<1>2. CASE hook'[w] = NoHook
  BY <1>2 DEF NoHook, Recalls
<1>3. CASE hook'[w] = h
  BY <1>3 DEF Recalls
<1>4. CASE hook'[w] = Decided(h)
  BY <1>4 DEF Decided, NoHook, Recalls
<1> QED BY <1>1, <1>2, <1>3, <1>4

LEMMA StepsRecall == ASSUME IInv, NEW w \in Workers, Steps(w) PROVE Recalls(w)
<1> USE LocalsAreFunctions
<1>1. CASE hook' = hook
  BY <1>1 DEF Recalls
<1>2. CASE Finish(w)
  BY <1>2 DEF Finish, NoHook, Recalls
<1>3. CASE Forget(w)
  BY <1>3 DEF Forget, NoHook, Recalls
<1>4. CASE Branch(w)
  BY <1>4, SettleRecalls, Ready DEF Branch, HookLocals
<1>5. CASE PointLia(w)
  BY <1>5, SettleRecalls, Ready DEF PointLia, HookLocals
<1>6. CASE MarkSigned(w)
  BY <1>6, SettleRecalls, Ready DEF MarkSigned, HookLocals
<1>7. CASE UpdateStatus(w)
  BY <1>7, SettleRecalls, Ready DEF UpdateStatus, HookLocals
<1>8. CASE Submit(w)
  <2>1. ~hook[w].delivery
    BY <1>8, Ready, ByHead DEF Submit, Doing, Prepared
  <2>2. CASE \E s \in Submissions: hook' = [hook EXCEPT ![w].sub = s]
    BY <2>1, <2>2 DEF HookLocals, Recalls
  <2> QED BY <1>2, <1>8, <2>2 DEF Submit
<1>9. CASE Fetch(w)
  BY <1>9 DEF Fetch, HookLocals, Recalls
<1>10. CASE FetchRecipients(w)
  BY <1>10 DEF FetchRecipients, HookLocals, Recalls
<1>11. CASE FindCase(w)
  <2>1. CASE \E c: hook' = [hook EXCEPT ![w].hasLia = case[c].holder.lia # None]
    BY <2>1 DEF HookLocals, Recalls
  <2> QED BY <1>1, <1>2, <1>11, <2>1 DEF FindCase
<1>12. CASE AppointLia(w)
  <2>1. CASE hook' = [hook EXCEPT ![w].lia = SigningLia(w)]
    BY <2>1 DEF HookLocals, Recalls
  <2> QED BY <1>2, <1>3, <1>12, <2>1 DEF AppointLia
<1>13. CASE InsertContract(w) \/ SyncSigners(w) \/ CreateCase(w) \/ EnrolCase(w) \/ BackfillCase(w)
  BY <1>1, <1>2, <1>13 DEF InsertContract, SyncSigners, CreateCase, EnrolCase, BackfillCase
<1>14. CASE StoreArtifacts(w) \/ AppointOthers(w) \/ PromoteClient(w) \/ InvoiceClient(w) \/ GivesUp(w)
  BY <1>3, <1>14 DEF StoreArtifacts, AppointOthers, PromoteClient, InvoiceClient, GivesUp
<1>15. CASE Die(w)
  BY <1>2, <1>15 DEF Die
<1>16. CASE ReassignWrite(w) /\ UNCHANGED <<docVars, hook, excused>>
  BY <1>1, <1>16
<1> QED BY <1>4, <1>5, <1>6, <1>7, <1>8, <1>9, <1>10, <1>11, <1>12, <1>13, <1>14, <1>15, <1>16 DEF Steps, Advance

LEMMA StartsRecall ==
  ASSUME IInv, NEW w \in Workers, Starting(w)
  PROVE  hook' = hook
         \/ ~hook'[w].delivery
         \/ \E s \in Submissions: hook'[w].sub = s /\ hook'[w].status = contract[s].status
<1>1. ASSUME NEW s \in Submissions, Deliver(w, s)
      PROVE  hook'[w].sub = s /\ hook'[w].status = contract[s].status
  BY <1>1, LocalsAreFunctions DEF Deliver, NoHook
<1>2. CASE SendToLead(w)
  <2>1. ~hook[w].delivery
    BY <1>2, IdleHook DEF SendToLead, StartWork, IsIdle
  <2> QED BY <1>2, <2>1, LocalsAreFunctions DEF SendToLead, HookLocals
<1>3. CASE StaffCreateCase(w) \/ Qualify(w) \/ \E c \in Cases: SendToCase(w, c) \/ AccountOpeningPaid(w, c)
  BY <1>3 DEF StaffCreateCase, Qualify, SendToCase, AccountOpeningPaid
<1>4. CASE \E c \in Cases: Manage(w, c)
  BY <1>4 DEF Manage
<1> QED BY <1>1, <1>2, <1>3, <1>4 DEF Starting

LEMMA RememberedStep ==
  ASSUME IInv, Located, Remembered, via = "docuseal", [Next]_vars PROVE Remembered'
<1> SUFFICES ASSUME NEW v \in Workers, hook'[v].delivery, hook'[v].status = "SIGNED"
             PROVE  contract'[hook'[v].sub].status = "SIGNED"
  BY DEF Remembered
<1>1. \A s \in Submissions: contract[s].status = "SIGNED" => contract'[s].status = "SIGNED"
  BY RowStays
<1>2. hook[v].delivery => hook[v].sub \in Submissions
  BY Ready DEF Informed
<1>3. CASE hook'[v] = hook[v]
  BY <1>1, <1>2, <1>3 DEF Remembered
<1>4. CASE Steps(v)
  BY <1>1, <1>2, <1>4, StepsRecall DEF Remembered, Recalls
<1>5. CASE Starting(v)
  BY <1>1, <1>3, <1>5, StartsRecall
<1> QED BY <1>3, <1>4, <1>5, WhoMoves DEF Alone

-----------------------------------------------------------------------------
\* What the provider still owes.

LEMMA Announced ==
  ASSUME due \in [Submissions -> Nat], NEW s \in Submissions, NEW n \in {1, 2}, Announce(s, n)
  PROVE  /\ due' \in [Submissions -> Nat] /\ due'[s] > 0
         /\ \A u \in Submissions \ {s}: due'[u] = due[u]
  BY DEF Announce

LEMMA DueStep ==
  ASSUME IInv, due \in [Submissions -> Nat], [Next]_vars
  PROVE  /\ due' \in [Submissions -> Nat]
         /\ \A s \in Submissions: due[s] > 0 => due'[s] > 0 \/ excused' \/ \E w \in Workers: Deliver(w, s)
         /\ \A s \in Submissions: envelope'[s].signed = Director => envelope[s].signed = Director \/ due'[s] > 0
<1> DEFINE Good == /\ due' \in [Submissions -> Nat]
                   /\ \A s \in Submissions: due[s] > 0 => due'[s] > 0 \/ excused' \/ \E w \in Workers: Deliver(w, s)
<1>1. ASSUME NEW s \in Submissions, NEW n \in {1, 2}, Announce(s, n) PROVE Good
  BY <1>1, Announced
<1>2. due' = due => Good
  OBVIOUS
<1>3. ASSUME NEW s \in Submissions, Sign(s) \/ Decline(s) PROVE Good
  <2>1. \E n \in {1, 2}: Announce(s, n)
    BY <1>3 DEF Sign, Decline
  <2> QED BY <1>1, <2>1
<1>4. ASSUME NEW s \in Submissions, due' = [due EXCEPT ![s] = @ - 1], due[s] > 0,
             excused' \/ \E w \in Workers: Deliver(w, s)
      PROVE  Good
  <2>1. due' \in [Submissions -> Nat] /\ \A u \in Submissions \ {s}: due'[u] = due[u]
    BY <1>4
  <2> QED BY <1>4, <2>1
<1>5. ASSUME NEW w \in Workers, BackfillCase(w) \/ Die(w) PROVE Good
  <2>1. due' = due \/ (hook[w].delivery /\ Announce(hook[w].sub, 1))
    <3>1. CASE BackfillCase(w)
      <4>1. hook[w].delivery
        BY <3>1, Ready, ByHead DEF BackfillCase, Doing, Prepared
      <4> QED BY <3>1, <4>1 DEF BackfillCase
    <3>2. CASE Die(w)
      BY <3>2 DEF Die
    <3> QED BY <1>5, <3>1, <3>2
  <2>2. hook[w].delivery => hook[w].sub \in Submissions
    BY Ready DEF Informed
  <2> QED BY <1>1, <1>2, <2>1, <2>2
<1>6. ASSUME NEW s \in Submissions, DeliverUnknown(s) PROVE Good
  BY <1>4, <1>6 DEF DeliverUnknown
<1>7. ASSUME NEW w \in Workers, NEW s \in Submissions, Deliver(w, s) PROVE Good
  BY <1>4, <1>7 DEF Deliver
<1>8. Good
  BY <1>2, <1>3, <1>5, <1>6, <1>7, NextWrites
<1>9. ASSUME NEW s \in Submissions, envelope'[s].signed = Director, envelope[s].signed # Director PROVE due'[s] > 0
  <2>1. envelope \in EnvelopeRows
    BY DEF IInv, Typed, EnvelopeRows
  <2>2. ASSUME NEW u \in Submissions, Sign(u), u # s PROVE FALSE
    BY <1>9, <2>1, <2>2 DEF Sign, EnvelopeRows
  <2>3. ASSUME NEW u \in Submissions, Decline(u) PROVE FALSE
    BY <1>9, <2>1, <2>3 DEF Decline, EnvelopeRows
  <2>4. ASSUME NEW w \in Workers, Submit(w) PROVE FALSE
    <3>1. \A u \in Submissions: envelope'[u].signed = envelope[u].signed
      BY <2>1, <2>4 DEF Submit, EnvelopeRows
    <3> QED BY <1>9, <3>1
  <2>5. Sign(s)
    BY <1>9, <2>2, <2>3, <2>4, NextWrites
  <2>6. \E n \in {1, 2}: Announce(s, n)
    BY <2>5 DEF Sign
  <2> QED BY <2>6, Announced
<1> QED BY <1>8, <1>9

-----------------------------------------------------------------------------
\* A delivery carries its obligation to the next step.

\* Which action takes which step.
LEMMA HeadActs ==
  ASSUME NEW w \in Workers, Advance(w)
  PROVE  LET step == Head(work[w].todo) IN
         /\ work[w].todo # <<>>
         /\ step = "fetch" => Fetch(w)
         /\ step = "sync" => SyncSigners(w)
         /\ step = "branch" => Branch(w)
         /\ step = "find" => FindCase(w)
         /\ step = "create" => CreateCase(w)
         /\ step = "consultant" => Assign(w, "consultant") /\ Forget(w) /\ UNCHANGED <<docVars, excused>>
         /\ step = "backfill" => BackfillCase(w)
         /\ step = "point" => PointLia(w)
         /\ step = "mark" => MarkSigned(w)
         /\ step = "store" => StoreArtifacts(w)
         /\ step = "lia" => AppointLia(w)
         /\ step \in {"owner", "finance"} => Assign(w, step) /\ Forget(w) /\ UNCHANGED <<docVars, excused>>
         /\ step = "promote" => PromoteClient(w)
         /\ step = "invoice" => InvoiceClient(w)
  BY DEF Doing, Advance, Submit, InsertContract, Fetch, FetchRecipients, SyncSigners, Branch, UpdateStatus, FindCase,
     CreateCase, EnrolCase, BackfillCase, PointLia, MarkSigned, StoreArtifacts, AppointLia, AppointOthers,
     AssignLiaToCase, AssignAdmissionToCase, AssignFinanceToCase, AssignConsultantToCase, Assign, AssignRead,
     AssignWrite, PromoteClient, InvoiceClient, ReassignWrite

LEMMA ServingSequences == Serving \subseteq Seq(Duties)
<1>1. /\ Marking \in Seq(Duties)
      /\ <<"store", "lia", "owner", "finance", "promote", "invoice">> \in Seq(Duties)
      /\ <<"lia", "owner", "finance", "promote", "invoice">> \in Seq(Duties)
      /\ <<"owner", "finance", "promote", "invoice">> \in Seq(Duties)
      /\ <<"finance", "promote", "invoice">> \in Seq(Duties)
      /\ <<"lia", "owner", "finance", "store", "promote", "invoice">> \in Seq(Duties)
      /\ <<"owner", "finance", "store", "promote", "invoice">> \in Seq(Duties)
      /\ <<"finance", "store", "promote", "invoice">> \in Seq(Duties)
      /\ <<"store", "promote", "invoice">> \in Seq(Duties) /\ <<"promote", "invoice">> \in Seq(Duties)
      /\ <<"invoice">> \in Seq(Duties) /\ <<"promote", "invoice", "owner">> \in Seq(Duties)
      /\ <<"invoice", "owner">> \in Seq(Duties) /\ <<"owner">> \in Seq(Duties)
  BY DEF Marking, Duties
<1> QED BY <1>1 DEF Serving

LEMMA LeftOf ==
  /\ \A duty \in Duties: duty \in Left(Marking)
  /\ Left(<<>>) = {}
  /\ \A t \in Serving: \A duty \in Left(t): duty = Head(t) \/ duty \in Left(Tail(t))
<1>1. \A duty \in Duties: duty \in Left(Marking)
  <2>1. /\ Len(Marking) = 7 /\ Marking[1] = "mark" /\ Marking[2] = "store" /\ Marking[3] = "lia"
        /\ Marking[4] = "owner" /\ Marking[5] = "finance" /\ Marking[6] = "promote" /\ Marking[7] = "invoice"
    BY DEF Marking
  <2> HIDE DEF Marking
  <2>2. \A i \in 1..7: Marking[i] \in Left(Marking)
    BY <2>1 DEF Left
  <2> QED BY <2>1, <2>2 DEF Duties
<1>2. Left(<<>>) = {}
  BY DEF Left
<1>3. ASSUME NEW t \in Serving, NEW duty \in Left(t) PROVE duty = Head(t) \/ duty \in Left(Tail(t))
  <2>1. t \in Seq(Duties) /\ t # <<>>
    BY ServingSequences, ServingSteps
  <2>2. PICK i \in 1..Len(t): duty = t[i]
    BY DEF Left
  <2>3. CASE i = 1
    BY <2>1, <2>2, <2>3
  <2>4. CASE i # 1
    <3>1. i - 1 \in 1..Len(Tail(t)) /\ Tail(t)[i - 1] = t[i]
      BY <2>1, <2>4
    <3> QED BY <2>2, <3>1 DEF Left
  <2> QED BY <2>3, <2>4
<1> QED BY <1>1, <1>2, <1>3

\* A delivery that knows its case starts to serve.
LEMMA ToMarking ==
  ASSUME IInv, NEW w \in Workers, NEW s \in Submissions, Goto(w, Marking), NEW h \in HookLocals, SettleOn(w, h),
         h.delivery, h.sub = s, UNCHANGED contract,
         contract[s].signed = Director, contract[s].case # None, work[w].case = contract[s].case
  PROVE  Carries(w, s)'
<1>1. Marking \in Scripts /\ Marking \in Serving /\ Marking # <<>>
  BY Belongs, ServingSteps DEF Scripts
<1>2. work'[w].todo = Marking /\ work'[w].case = work[w].case /\ work'[w] # Idle
  BY <1>1, GotoMoves
<1>3. hook'[w].sub = s /\ hook'[w].delivery
  BY <1>2, SettleMoves
<1> QED BY <1>1, <1>2, <1>3, LeftOf DEF Carries, Serves

\* In the world without interference, the only case is the contract's.
LEMMA OnlyCase ==
  ASSUME IInv, Located, OneCasePerLead', [Next]_vars, NEW s \in Submissions, NEW w \in Workers,
         contract[s].case # None, work[w].case # None
  PROVE  work[w].case = contract[s].case
  BY CasesStay DEF Located, OneCasePerLead

LEMMA ToldStep ==
  ASSUME IInv, RestInv, Undisturbed', [Next]_vars, NEW s \in Submissions, NEW w \in Workers, Advance(w),
         hook[w].delivery, hook[w].sub = s, envelope[s].signed = Director, Told(w, s)
  PROVE  Carries(w, s)' \/ due'[s] > 0
<1> DEFINE t == work[w].todo
<1>1. /\ via = "docuseal" /\ Located /\ Unmoved /\ ~excused' /\ ~excused /\ OneCasePerLead'
      /\ due \in [Submissions -> Nat]
  BY NextWrites DEF RestInv, Undisturbed, Owed
<1>2. /\ work \in [Workers -> WorkLocals] /\ hook \in [Workers -> HookLocals]
      /\ work[w] \in WorkLocals /\ hook[w] \in HookLocals /\ t \in Scripts
      /\ contract[s].signed \in 0..3 /\ Prepared(w) /\ Informed(w)
  BY Ready
<1>3. contract[s].signed = Director => contract'[s].signed = Director
  BY <1>1, RowStays
<1>4. CASE t = <<"fetch", "sync", "branch">>
  <2>1. Fetch(w) /\ t # <<>> /\ Tail(t) = <<"sync", "branch">>
    BY <1>4, HeadActs
  <2>2. work'[w].todo = <<"sync", "branch">>
    BY <2>1, OnwardMoves DEF Fetch
  <2>3. hook'[w].seen = Director /\ hook'[w].delivery /\ hook'[w].sub = s
    BY <1>2, <2>1 DEF Fetch, HookLocals
  <2> QED BY <2>2, <2>3 DEF Carries, Told
<1>5. CASE t = <<"sync", "branch">> /\ hook[w].seen = Director
  <2>1. SyncSigners(w) /\ t # <<>> /\ Tail(t) = <<"branch">>
    BY <1>5, HeadActs
  <2>2. work'[w].todo = <<"branch">> /\ hook' = hook
    BY <2>1, OnwardMoves DEF SyncSigners
  <2>3. contract'[s].signed = Director
    BY <1>2, <1>5, <2>1, Ready DEF SyncSigners, Synced, Director
  <2> QED BY <1>5, <2>2, <2>3 DEF Carries, Told
<1>6. ASSUME t = <<"branch">>, hook[w].seen = Director, contract[s].signed = Director PROVE Carries(w, s)'
  <2> DEFINE now == [hook[w] EXCEPT !.countersigned = contract[s].signed >= Lia]
  <2>1. Branch(w)
    BY <1>6, HeadActs
  <2>2. now \in HookLocals /\ now.seen = Director /\ now.delivery /\ now.sub = s
    <3> DEFINE both == contract[s].signed >= Lia
    <3>1. both \in BOOLEAN /\ now = [hook[w] EXCEPT !.countersigned = both]
      OBVIOUS
    <3> HIDE DEF both, now
    <3> QED BY <1>2, <1>6, <3>1 DEF HookLocals
  <2>3. SettleOn(w, now) /\ UNCHANGED contract
    BY <2>1 DEF Branch, docVars
  <2>4. CASE work[w].case = None
    <3>1. Goto(w, <<"find">>)
      BY <1>6, <2>1, <2>4 DEF Branch, Client, Director
    <3>2. work'[w].todo = <<"find">> /\ work'[w] # Idle
      <4>1. <<"find">> \in Scripts /\ <<"find">> # <<>>
        BY DEF Scripts
      <4> QED BY <3>1, <4>1, GotoMoves
    <3>3. hook'[w] = now
      BY <2>2, <2>3, <3>2, SettleMoves
    <3> QED BY <1>6, <2>2, <2>3, <3>2, <3>3 DEF Carries, Told
  <2>5. CASE work[w].case # None
    <3>1. Goto(w, Downstream(now, work[w].case))
      BY <2>1, <2>5 DEF Branch
    <3>2. Downstream(now, work[w].case) = Marking
      BY <2>2, <2>5 DEF Downstream, Completed, Marking
    <3>3. contract[s].case # None
      BY <1>2, <1>6, <2>5 DEF Prepared, Seal
    <3>4. work[w].case = contract[s].case
      BY <1>1, <2>5, <3>3, OnlyCase
    <3> HIDE DEF now
    <3> QED BY <1>6, <2>2, <2>3, <3>1, <3>2, <3>3, <3>4, ToMarking
  <2> QED BY <2>4, <2>5
<1>7. ASSUME t = <<"find">>, hook[w].seen = Director, contract[s].signed = Director PROVE Carries(w, s)'
  <2>1. FindCase(w)
    BY <1>7, HeadActs
  <2>2. ASSUME NEW c \in Existing, work' = [work EXCEPT ![w].todo = <<"backfill", "point">>, ![w].case = c],
               hook' = [hook EXCEPT ![w].hasLia = case[c].holder.lia # None]
        PROVE  Carries(w, s)'
    <3>1. work'[w].todo = <<"backfill", "point">>
      BY <1>2, <2>2 DEF WorkLocals
    <3>2. hook'[w].seen = Director /\ hook'[w].delivery /\ hook'[w].sub = s
      BY <1>2, <1>7, <2>2 DEF HookLocals
    <3> QED BY <1>3, <1>7, <3>1, <3>2, Belongs DEF Carries, Told
  <2>3. ASSUME Goto(w, <<"create">>), hook' = hook PROVE Carries(w, s)'
    <3>1. work'[w].todo = <<"create">>
      <4>1. <<"create">> \in Scripts
        BY Belongs DEF Scripts
      <4> QED BY <2>3, <4>1, GotoMoves
    <3> QED BY <1>3, <1>7, <2>3, <3>1 DEF Carries, Told
  <2> QED BY <1>1, <2>1, <2>2, <2>3 DEF FindCase
<1>8. ASSUME t = <<"create">>, hook[w].seen = Director, contract[s].signed = Director PROVE Carries(w, s)'
  <2>1. CreateCase(w)
    BY <1>8, HeadActs
  <2>2. work'[w].todo = <<"consultant", "backfill", "point">> /\ hook' = hook
    BY <1>2, <2>1, ConsultantFirst DEF CreateCase, CreateCaseRow
  <2> QED BY <1>3, <1>8, <2>2, Belongs DEF Carries, Told
<1>9. ASSUME t \in Pointing, hook[w].seen = Director, contract[s].signed = Director
      PROVE  Carries(w, s)' \/ due'[s] > 0
  <2>1. t # <<>> /\ Head(t) \in {"consultant", "backfill", "point"} /\ work[w].case \in Cases
    BY <1>2, <1>9, PointingSteps DEF Prepared
  <2>2. CASE Head(t) = "consultant"
    <3>1. Assign(w, "consultant") /\ Forget(w)
      BY <2>2, HeadActs
    <3>2. work'[w].todo \in Pointing /\ work'[w].todo # <<>>
      <4>1. CASE Onward(w)
        <5>1. Tail(t) \in Pointing /\ Tail(t) # <<>>
          BY <1>9, <2>2, PointingSteps
        <5> QED BY <2>1, <4>1, <5>1, OnwardMoves
      <4>2. CASE ~Onward(w)
        <5>1. work'[w].todo = t
          BY <1>2, <3>1, <4>2 DEF Assign, AssignRead, AssignWrite, WorkLocals
        <5> QED BY <1>9, <2>1, <5>1
      <4> QED BY <4>1, <4>2
    <3>3. hook'[w] = hook[w]
      BY <3>1, <3>2, ForgetMoves, IdleTyped
    <3> QED BY <1>3, <1>9, <3>2, <3>3 DEF Carries, Told
  <2>3. CASE Head(t) = "backfill"
    <3>1. BackfillCase(w)
      BY <2>3, HeadActs
    <3>2. CASE Announce(s, 1)
      BY <1>1, <3>2, Announced
    <3>3. CASE Onward(w) /\ hook' = hook
      <4>1. work'[w].todo = <<"point">>
        BY <1>9, <2>1, <2>3, <3>3, OnwardMoves, PointingSteps
      <4> QED BY <1>3, <1>9, <3>3, <4>1, Belongs DEF Carries, Told
    <3> QED BY <3>1, <3>2, <3>3 DEF BackfillCase
  <2>4. CASE Head(t) = "point"
    <3>1. PointLia(w) /\ t = <<"point">>
      BY <1>9, <2>4, HeadActs, PointingSteps
    <3>2. contract[s].case # None /\ work[w].case # None
      BY <1>2, <2>1, <3>1, StaffingAssumption DEF Prepared
    <3>3. work[w].case = contract[s].case
      BY <1>1, <3>2, OnlyCase
    <3>4. Downstream(hook[w], work[w].case) = Marking
      BY <1>9, <3>2 DEF Downstream, Completed, Marking
    <3>5. Goto(w, Marking) /\ SettleOn(w, hook[w]) /\ UNCHANGED contract
      BY <3>1, <3>4 DEF PointLia, docVars
    <3> QED BY <1>2, <1>9, <3>2, <3>3, <3>5, ToMarking
  <2> QED BY <2>1, <2>2, <2>3, <2>4
<1> QED BY <1>4, <1>5, <1>6, <1>7, <1>8, <1>9 DEF Told

\* Somebody works in each role a signature calls for.
Manned == \A role \in {"LIA", "CONSULTANT", "FINANCE"}: \E p \in Staff: RoleOf[p] = role

\* A duty done, on to the next; after the last, the contract is served.
LEMMA ServesOn ==
  ASSUME IInv, RestInv, Undisturbed', [Next]_vars, NEW s \in Submissions, NEW w \in Workers, Serves(w, s), Onward(w),
         work'[w] # Idle => hook'[w].delivery /\ hook'[w].sub = s,
         NEW done, done = Head(work[w].todo), Fulfilled(s, done)'
  PROVE  Carries(w, s)' \/ AllServed(s)'
<1> DEFINE t == work[w].todo
<1>1. via = "docuseal" /\ Located /\ OneCasePerLead'
  BY NextWrites DEF RestInv, Undisturbed
<1>2. t # <<>> /\ t \in Serving /\ (Tail(t) = <<>> \/ Tail(t) \in Serving)
  BY ServingSteps DEF Serves
<1>3. /\ work'[w].todo = Tail(t)
      /\ Tail(t) # <<>> => work'[w].case = work[w].case /\ work'[w] # Idle
  BY <1>2, OnwardMoves
<1>4. contract'[s].case = contract[s].case /\ contract[s].case # None /\ contract'[s].signed = Director
  BY <1>1, SameCase, RowStays DEF Serves
<1>5. ASSUME NEW duty \in Duties PROVE duty \in Left(Tail(t)) \/ Fulfilled(s, duty)'
  <2>1. CASE Fulfilled(s, duty)
    BY <1>4, <2>1, FulfilledStays
  <2>2. CASE duty \in Left(t)
    BY <1>2, <2>2, LeftOf
  <2> QED BY <2>1, <2>2 DEF Serves
<1>6. CASE Tail(t) = <<>>
  <2>1. \A duty \in Duties: Fulfilled(s, duty)'
    BY <1>5, <1>6, LeftOf
  <2> QED BY <1>4, <2>1 DEF AllServed
<1>7. CASE Tail(t) # <<>>
  <2>1. work'[w].todo \in Serving /\ work'[w].case = contract'[s].case
    BY <1>2, <1>3, <1>4, <1>7 DEF Serves
  <2> QED BY <1>3, <1>4, <1>5, <1>7, <2>1 DEF Carries, Serves
<1> QED BY <1>6, <1>7

\* The steps in which somebody is appointed.
LEMMA ServesAppoint ==
  ASSUME IInv, RestInv, Undisturbed', [Next]_vars, NEW s \in Submissions, NEW w \in Workers, Serves(w, s), Manned,
         hook[w].delivery, hook[w].sub = s,
         NEW slot \in {"lia", "owner", "finance"}, Assign(w, slot), Forget(w)
  PROVE  Carries(w, s)' \/ AllServed(s)'
<1> DEFINE c == contract[s].case
<1>1. /\ via = "docuseal" /\ Located /\ Unmoved /\ ~excused /\ ~excused' /\ OneCasePerLead'
  BY NextWrites DEF RestInv, Undisturbed
<1>2. /\ work[w].todo # <<>> /\ Head(work[w].todo) = slot /\ work[w].case = c /\ c # None /\ c \in Cases
      /\ contract'[s].case = c
  BY <1>1, SameCase DEF Serves, Assign, AssignRead, AssignWrite, Doing, Located, Existing
<1>3. work'[w] # Idle => hook'[w].delivery /\ hook'[w].sub = s
  BY ForgetMoves
<1>4. Pool(slot) # {}
  <2>1. \A role \in {"LIA", "CONSULTANT", "FINANCE"}: Members(role) # {}
    BY <1>1 DEF Unmoved, Manned, Members
  <2>2. CASE slot = "lia"
    BY <2>1, <2>2 DEF Pool, FindActiveLias
  <2>3. CASE slot = "owner"
    BY <2>1, <2>3 DEF Pool, FindActiveAdmissionSpecialists
  <2>4. CASE slot = "finance"
    BY <2>1, <2>4 DEF Pool, FindActiveFinanceStaff
  <2> QED BY <2>2, <2>3, <2>4
<1>5. CASE AssignRead(w, slot) /\ Filled(c, slot)
  <2>1. Onward(w) /\ case' = case
    BY <1>2, <1>4, <1>5 DEF AssignRead
  <2>2. Filled(c, slot)'
    BY <1>2, <1>5, <2>1 DEF Filled
  <2>3. Fulfilled(s, slot)'
    BY <1>2, <2>2 DEF Fulfilled, Filled
  <2> QED BY <1>2, <1>3, <2>1, <2>3, ServesOn
<1>6. CASE AssignRead(w, slot) /\ ~Filled(c, slot)
  <2>1. \E p \in Staff: work' = [work EXCEPT ![w].pick = p]
    BY <1>2, <1>4, <1>6 DEF AssignRead
  <2>2. work'[w].todo = work[w].todo /\ work'[w].case = c
    BY <1>2, <2>1, LocalsAreFunctions DEF WorkLocals
  <2>3. hook'[w].delivery /\ hook'[w].sub = s
    BY <1>2, <1>3, <2>2, IdleTyped
  <2>4. contract'[s].signed = Director
    BY <1>1, RowStays DEF Serves
  <2>5. \A duty \in Duties: Fulfilled(s, duty) => Fulfilled(s, duty)'
    BY <1>2, FulfilledStays
  <2> QED BY <1>2, <2>2, <2>3, <2>4, <2>5 DEF Serves, Carries
<1>7. CASE AssignWrite(w, slot)
  <2>1. /\ Onward(w) /\ work[w].pick # None
        /\ case' = [case EXCEPT ![c].holder[slot] = work[w].pick]
    BY <1>2, <1>7 DEF AssignWrite
  <2>2. case'[c].holder[slot] = work[w].pick
    <3>1. case \in CaseRows /\ slot \in Slots
      BY DEF IInv, Typed, TypeOK, CaseRows, Slots
    <3> QED BY <1>2, <2>1, <3>1 DEF CaseRows
  <2>3. slot = "owner" => RoleOf[work[w].pick] = "CONSULTANT"
    BY <1>1, <1>2, <2>1 DEF Unmoved, Doing
  <2>4. Filled(c, slot)'
    <3>1. CASE slot = "owner"
      BY <1>2, <2>1, <2>2, <2>3, <3>1 DEF Filled
    <3>2. CASE slot # "owner"
      BY <1>2, <2>1, <2>2, <3>2 DEF Filled
    <3> QED BY <3>1, <3>2
  <2>5. Fulfilled(s, slot)'
    BY <1>2, <2>4 DEF Fulfilled, Filled
  <2> QED BY <1>2, <1>3, <2>1, <2>5, ServesOn
<1> QED BY <1>5, <1>6, <1>7 DEF Assign

LEMMA ServesStep ==
  ASSUME IInv, RestInv, Undisturbed', [Next]_vars, NEW s \in Submissions, NEW w \in Workers, Advance(w), Manned,
         hook[w].delivery, hook[w].sub = s, Serves(w, s)
  PROVE  Carries(w, s)' \/ AllServed(s)'
<1> DEFINE c == contract[s].case  t == work[w].todo
<1>1. /\ via = "docuseal" /\ Located /\ Remembered /\ ~excused' /\ OneCasePerLead'
  BY NextWrites DEF RestInv, Undisturbed
<1>2. /\ t # <<>> /\ work[w].case = c /\ c # None /\ c \in Cases /\ contract'[s].case = c
      /\ contract[s].signed = Director
  BY <1>1, SameCase, ServingSteps DEF Serves, Located, Existing
<1>3. Head(t) \in Duties /\ t[Len(t)] # "insert"
  BY ServingSteps DEF Serves, Duties
<1>4. Forget(w) => (work'[w] # Idle => hook'[w].delivery /\ hook'[w].sub = s)
  BY ForgetMoves
<1>5. CASE Head(t) = "mark"
  <2>1. MarkSigned(w)
    BY <1>5, HeadActs
  <2> DEFINE h == [hook[w] EXCEPT !.status = "none"]
  <2>2. h \in HookLocals /\ h.sub = s /\ h.delivery /\ SettleOn(w, h) /\ Onward(w)
    BY <2>1, Ready DEF MarkSigned, HookLocals
  <2> HIDE DEF h
  <2>3. work'[w] # Idle => hook'[w].delivery /\ hook'[w].sub = s
    BY <2>2, SettleMoves
  <2>4. contract'[s].status = "SIGNED"
    <3>1. CASE hook[w].status = "SIGNED"
      BY <1>1, <2>1, <3>1 DEF MarkSigned, Remembered
    <3>2. CASE hook[w].status # "SIGNED"
      BY <2>1, <3>2, Ready DEF MarkSigned
    <3> QED BY <3>1, <3>2
  <2>5. Fulfilled(s, "mark")'
    BY <2>4 DEF Fulfilled
  <2> QED BY <1>5, <2>2, <2>3, <2>5, ServesOn
<1>6. CASE Head(t) = "store"
  <2>1. StoreArtifacts(w)
    BY <1>6, HeadActs
  <2>2. filed'[c] = {"visaType", "pdf"}
    <3> DEFINE held == case[c].holder.lia # None \/ case[c].holder.owner # None
    <3>1. filed' = [filed EXCEPT ![c] = @ \cup {"visaType"} \cup (IF held THEN {"pdf"} ELSE {})]
      BY <1>2, <2>1 DEF StoreArtifacts
    <3>2. "pdf" \in filed[c] \/ held
      BY <1>1, <1>2, <2>1 DEF StoreArtifacts
    <3> HIDE DEF held
    <3>3. filed'[c] = filed[c] \cup {"visaType"} \cup (IF held THEN {"pdf"} ELSE {})
          /\ filed[c] \subseteq {"visaType", "pdf"}
      BY <1>2, <3>1, Ready
    <3> QED BY <3>2, <3>3
  <2>3. Fulfilled(s, "store")'
    BY <1>2, <2>2 DEF Fulfilled
  <2>4. Onward(w) /\ Forget(w)
    BY <2>1 DEF StoreArtifacts
  <2> QED BY <1>4, <1>6, <2>3, <2>4, ServesOn
<1>7. CASE Head(t) = "lia"
  <2>1. Assign(w, "lia") /\ Forget(w)
    BY <1>3, <1>7, HeadActs DEF AppointLia, AssignLiaToCase
  <2> QED BY <2>1, ServesAppoint
<1>8. CASE Head(t) \in {"owner", "finance"}
  BY <1>8, HeadActs, ServesAppoint
<1>9. CASE Head(t) = "promote"
  <2>1. PromoteClient(w)
    BY <1>9, HeadActs
  <2>2. promoted' \/ account' = "STUDENT"
    <3>1. BothSigned(contract[s])
      BY <1>2 DEF BothSigned, Lia, Director
    <3>2. account \in {"LEAD", "STUDENT"}
      BY <1>1, <2>1, <3>1, Ready DEF PromoteClient
    <3> QED BY <2>1, <3>1, <3>2 DEF PromoteClient
  <2>3. Fulfilled(s, "promote")'
    BY <2>2 DEF Fulfilled
  <2>4. Onward(w) /\ Forget(w)
    BY <2>1 DEF PromoteClient
  <2> QED BY <1>4, <1>9, <2>3, <2>4, ServesOn
<1>10. CASE Head(t) = "invoice"
  <2>1. InvoiceClient(w)
    BY <1>10, HeadActs
  <2>2. invoice'[c] # "none"
    BY <1>2, <2>1, Ready DEF InvoiceClient, Client, Director
  <2>3. Fulfilled(s, "invoice")'
    BY <1>2, <2>2 DEF Fulfilled
  <2>4. Onward(w) /\ Forget(w)
    BY <2>1 DEF InvoiceClient
  <2> QED BY <1>4, <1>10, <2>3, <2>4, ServesOn
<1> QED BY <1>3, <1>5, <1>6, <1>7, <1>8, <1>9, <1>10 DEF Duties

-----------------------------------------------------------------------------
\* Nothing that is owed is lost.

\* A request that does not move keeps what it carries.
LEMMA CarriesOn ==
  ASSUME IInv, RestInv, Undisturbed', [Next]_vars, NEW s \in Submissions, NEW w \in Workers, Carries(w, s),
         work'[w] = work[w], hook'[w] = hook[w]
  PROVE  Carries(w, s)'
<1>1. via = "docuseal" /\ Located /\ OneCasePerLead'
  BY NextWrites DEF RestInv, Undisturbed
<1>2. contract[s].signed = Director => contract'[s].signed = Director
  BY <1>1, RowStays
<1>3. CASE Told(w, s)
  BY <1>2, <1>3 DEF Carries, Told
<1>4. CASE Serves(w, s)
  <2>1. contract[s].case # None
    BY <1>4 DEF Serves
  <2>2. contract'[s].case = contract[s].case
    BY <1>1, <2>1, SameCase
  <2>3. \A duty \in Duties: Fulfilled(s, duty) => Fulfilled(s, duty)'
    BY <2>1, FulfilledStays
  <2> QED BY <1>2, <1>4, <2>2, <2>3 DEF Carries, Serves
<1> QED BY <1>3, <1>4 DEF Carries

LEMMA OwedStep ==
  ASSUME IInv, RestInv, via = "docuseal", Manned, [Next]_vars PROVE Owed'
<1>1. due \in [Submissions -> Nat] /\ due' \in [Submissions -> Nat]
  BY DueStep DEF RestInv, Owed
<1> SUFFICES ASSUME Undisturbed', NEW s \in Submissions, envelope'[s].signed = Director
             PROVE  due'[s] > 0 \/ AllServed(s)' \/ \E w \in Workers: Carries(w, s)'
  BY <1>1 DEF Owed
<1>2. Undisturbed
  BY NextWrites, CasesStay DEF Undisturbed, OneCasePerLead
<1>3. CASE envelope[s].signed # Director
  BY <1>1, <1>3, DueStep
<1>4. CASE envelope[s].signed = Director /\ due[s] > 0
  <2>1. due'[s] > 0 \/ \E w \in Workers: Deliver(w, s)
    BY <1>1, <1>4, DueStep DEF Undisturbed
  <2>2. ASSUME NEW w \in Workers, Deliver(w, s) PROVE Carries(w, s)'
    <3>1. StartWork(w, [Idle EXCEPT !.case = contract[s].case, !.todo = <<"fetch", "sync", "branch">>])
      BY <2>2 DEF Deliver
    <3>2. work'[w].todo = <<"fetch", "sync", "branch">>
      BY <3>1, LocalsAreFunctions DEF StartWork, Idle
    <3>3. hook'[w].delivery /\ hook'[w].sub = s
      BY <2>2, LocalsAreFunctions DEF Deliver, NoHook
    <3> QED BY <3>2, <3>3 DEF Carries, Told
  <2> QED BY <2>1, <2>2
<1>5. CASE AllServed(s)
  <2>1. contract[s].case # None /\ \A duty \in Duties: Fulfilled(s, duty)'
    BY <1>5, FulfilledStays DEF AllServed
  <2>2. contract'[s].case # None
    BY <2>1, RowStays DEF RestInv
  <2> QED BY <2>1, <2>2 DEF AllServed
<1>6. ASSUME NEW w \in Workers, Carries(w, s), envelope[s].signed = Director
      PROVE  due'[s] > 0 \/ AllServed(s)' \/ Carries(w, s)'
  <2>1. hook[w].delivery /\ hook[w].sub = s /\ (Told(w, s) \/ Serves(w, s))
    BY <1>6 DEF Carries
  <2>2. CASE work'[w] = work[w] /\ hook'[w] = hook[w]
    BY <1>6, <2>2, CarriesOn
  <2>3. ~Starting(w)
    BY <2>1, StartingAlone, IdleHook
  <2>4. CASE Die(w)
    BY <1>1, <2>1, <2>4, Announced DEF Die
  <2>5. CASE GivesUp(w)
    BY <2>5 DEF GivesUp, Undisturbed
  <2>6. CASE Advance(w)
    BY <1>6, <2>1, <2>6, ToldStep, ServesStep
  <2> QED BY <2>2, <2>3, <2>4, <2>5, <2>6, WhoMoves DEF Alone, Steps
<1> QED BY <1>2, <1>3, <1>4, <1>5, <1>6 DEF RestInv, Owed

LEMMA RestInit == Init => RestInv
<1> SUFFICES ASSUME Init PROVE RestInv
  OBVIOUS
<1>1. \A w \in Workers: work[w] = Idle /\ hook[w] = NoHook
  BY DEF Init, StaffingInit
<1>2. Located
  BY <1>1 DEF Init, Located, NoContract, Idle
<1>3. Unmoved
  BY <1>1, NoMove DEF Init, StaffingInit, Unmoved, Idle
<1>4. Remembered
  BY <1>1 DEF Remembered, NoHook
<1>5. Owed
  <2>1. \A s \in Submissions: envelope[s].signed # Director
    BY DEF Init, Director
  <2> QED BY <2>1 DEF Init, Owed
<1> QED BY <1>2, <1>3, <1>4, <1>5 DEF RestInv

LEMMA RestNext == ASSUME Manned, IInv, RestInv, [Next]_vars PROVE RestInv'
<1> SUFFICES ASSUME via' = "docuseal" PROVE Located' /\ Unmoved' /\ Remembered' /\ Owed'
  BY DEF RestInv
<1>1. via = "docuseal"
  BY NextWrites
<1> QED BY <1>1, LocatedStep, RememberedStep, OwedStep DEF RestInv

\* If somebody works in each role, a contract that everybody has signed is,
\* once nothing is owed or under way, SIGNED and served: with its case, staff,
\* signed PDF, invoice and student, through any overlaps, deaths and
\* redeliveries, unless somebody interfered or the lead got two cases.
THEOREM RestingIsServed == ASSUME Manned PROVE Spec => []RestIsServed
<1>1. Init => RestInv
  BY RestInit
<1>2. IInv /\ RestInv /\ [Next]_vars => RestInv'
  BY RestNext
<1>3. IInv /\ RestInv => RestIsServed
  <2> SUFFICES ASSUME IInv, RestInv, OneCasePerLead, NEW s \in Sent, via = "docuseal", envelope[s].signed = Director,
                      due[s] = 0, \A w \in Workers: IsIdle(w), ~excused
               PROVE  contract[s].case # None /\ Served(s)
    BY DEF RestIsServed
  <2>1. s \in Submissions
    BY DEF Sent
  <2>2. \A w \in Workers: ~Carries(w, s)
    BY IdleHook DEF IsIdle, Carries
  <2>3. AllServed(s)
    BY <2>1, <2>2 DEF RestInv, Owed, Undisturbed
  <2>4. \A duty \in Duties: Fulfilled(s, duty)
    BY <2>3 DEF AllServed
  <2>5. contract[s].status = "SIGNED" /\ filed[contract[s].case] = {"visaType", "pdf"}
        /\ (promoted \/ account = "STUDENT") /\ invoice[contract[s].case] # "none"
        /\ \A slot \in {"lia", "owner", "finance"}: Filled(contract[s].case, slot)
    BY <2>4 DEF Fulfilled, Duties
  <2> QED BY <2>3, <2>5 DEF AllServed, Served
<1> QED BY Invariant, <1>1, <1>2, <1>3, PTL DEF Spec
=============================================================================
