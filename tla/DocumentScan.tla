---------------------------- MODULE DocumentScan ----------------------------
(***************************************************************************)
(* Case documents: the browser puts the file straight into storage, the    *)
(* client confirms, and a sweep every 15 seconds fetches what has no       *)
(* verdict yet, scans it, deletes it if infected and records the verdict.  *)
(***************************************************************************)
EXTENDS Naturals, Sequences, FiniteSets

CONSTANTS
  Documents,
  Contents,     \* what the client puts: "clean" or "infected"
  Ticks,        \* cron ticks that may overlap
  Batch,        \* BATCH: documents one tick examines
  Loud,         \* LOUD_AFTER_ATTEMPTS
  MaxScans,     \* bound on the attempt counter
  MaxDeaths     \* bound: ticks and delete requests that die half-way

ASSUME ScanAssumption ==
  /\ Contents \subseteq {"clean", "infected"}
  /\ Batch \in Nat \ {0} /\ Loud \in Nat \ {0}
  /\ MaxScans \in Nat /\ MaxScans > Loud
  /\ MaxDeaths \in Nat

VARIABLES
  doc,       \* document rows
  object,    \* their objects in storage
  created,   \* document ids by createdAt
  deleting,  \* documents whose delete request has removed the object
  tick,      \* tick-local state
  failures,
  urls,      \* documents whose presigned upload URL has not expired
  unseen     \* history: documents put into storage since a tick last read them

scanVars == <<doc, object, created, deleting, tick, failures, urls, unseen>>

Unresolved == {"PENDING_SCAN", "SCAN_ERROR"}
Unrequested == [status |-> "none", scan |-> "PENDING_SCAN", attempts |-> 0]
NoDocument == [age |-> 0, id |-> "none", attempts |-> 0]
NoTick == [at |-> "idle", now |-> NoDocument, rest |-> {}]

ScanInit ==
  /\ doc = [d \in Documents |-> Unrequested]
  /\ object = [d \in Documents |-> "none"]
  /\ created = <<>>
  /\ deleting = {}
  /\ tick = [t \in Ticks |-> NoTick]
  /\ failures = 0
  /\ urls = {}
  /\ unseen = {}

Exists(d) == doc[d].status \in {"PENDING", "UPLOADED"}
Stored(d) == object[d] \in {"clean", "infected"}

-----------------------------------------------------------------------------
\* The client: request-upload, the presigned PUT, confirm, delete.

RequestUpload(d) ==
  /\ doc[d].status = "none"
  /\ doc' = [doc EXCEPT ![d].status = "PENDING"]
  /\ created' = Append(created, d)
  /\ urls' = urls \cup {d}
  /\ UNCHANGED <<object, deleting, tick, failures, unseen>>

\* As often as the holder of the URL likes, whatever became of the document
\* meanwhile: the store asks for no condition.
Put(d) ==
  /\ d \in urls
  /\ \E content \in Contents: object' = [object EXCEPT ![d] = content]
  /\ unseen' = unseen \cup {d}
  /\ UNCHANGED <<doc, created, deleting, tick, failures, urls>>

\* The 300 seconds of the URL are over.
UrlExpires(d) ==
  /\ d \in urls
  /\ urls' = urls \ {d}
  /\ UNCHANGED <<doc, object, created, deleting, tick, failures, unseen>>

\* Nobody looks whether the object is there.
ConfirmUpload(d) ==
  /\ doc[d].status = "PENDING"
  /\ doc' = [doc EXCEPT ![d].status = "UPLOADED"]
  /\ UNCHANGED <<object, created, deleting, tick, failures, urls, unseen>>

\* Storage first: if that fails, the row stays.
DeleteObject(d) ==
  /\ Exists(d) /\ d \notin deleting
  /\ object' = [object EXCEPT ![d] = "deleted"]
  /\ deleting' = deleting \cup {d}
  /\ UNCHANGED <<doc, created, tick, failures, urls, unseen>>

DeleteRow(d) ==
  /\ d \in deleting
  /\ doc' = [doc EXCEPT ![d].status = "deleted"]
  /\ deleting' = deleting \ {d}
  /\ UNCHANGED <<object, created, tick, failures, urls, unseen>>

DeleteDies(d) ==
  /\ d \in deleting
  /\ failures < MaxDeaths
  /\ failures' = failures + 1
  /\ deleting' = deleting \ {d}
  /\ UNCHANGED <<doc, object, created, tick, urls, unseen>>

-----------------------------------------------------------------------------
\* The sweep.

\* Mutant: no flag keeps a slow tick from overlapping the next one.
ScanningIgnored == FALSE
Scanning == \E t \in Ticks: tick[t].at # "idle"

\* Rows without a verdict: the upload need not be confirmed, nor the attempts few.
Awaiting(d) == Exists(d) /\ doc[d].scan \in Unresolved

\* The oldest of them, with the attempts counted so far.
FirstBatch ==
  LET waiting == {n \in DOMAIN created: Awaiting(created[n])}
      first == {n \in waiting: Cardinality({m \in waiting: m < n}) < Batch}
  IN  {[age |-> n, id |-> created[n], attempts |-> doc[created[n]].attempts]: n \in first}

\* The batch is worked off from the oldest on.
Oldest(batch) == {x \in batch: \A y \in batch: x.age <= y.age}
Takes(t, batch) ==
  IF batch = {} THEN tick' = [tick EXCEPT ![t] = NoTick]
  ELSE \E x \in Oldest(batch):
         tick' = [tick EXCEPT ![t] = [at |-> "fetch", now |-> x, rest |-> batch \ {x}]]

TickStart(t) ==
  /\ ~Scanning
  /\ tick[t].at = "idle"
  /\ FirstBatch # {} /\ Takes(t, FirstBatch)
  /\ UNCHANGED <<doc, object, created, deleting, failures, urls, unseen>>

Current(t) == tick[t].now.id
Attempts(t) ==
  LET n == tick[t].now.attempts IN IF n < MaxScans THEN n + 1 ELSE n
Goto(t, at) == tick' = [tick EXCEPT ![t].at = at]

\* Bytes, no such object, or a storage error.
Fetch(t) ==
  /\ tick[t].at = "fetch"
  /\ \/ /\ Stored(Current(t)) /\ Goto(t, object[Current(t)])
        /\ unseen' = unseen \ {Current(t)}
     \/ ~Stored(Current(t)) /\ Goto(t, "missing") /\ UNCHANGED unseen
     \/ Goto(t, "defer") /\ UNCHANGED unseen
  /\ UNCHANGED <<doc, object, created, deleting, failures, urls>>

\* Mutant: a scanner that does not answer counts as clean.
UnavailableClean == "writeClean"
Unavailable == "defer"

\* scanBuffer on the bytes fetched.
Scan(t) ==
  /\ tick[t].at \in {"clean", "infected"}
  /\ \/ tick[t].at = "clean" /\ Goto(t, "writeClean")
     \/ tick[t].at = "infected" /\ Goto(t, "remove")
     \/ Goto(t, Unavailable)
  /\ UNCHANGED <<doc, object, created, deleting, failures, urls, unseen>>

\* Delete first, then record; a failing delete does not stop the record.
RemoveInfected(t) ==
  /\ tick[t].at = "remove"
  /\ \/ object' = [object EXCEPT ![Current(t)] = "deleted"]
     \/ UNCHANGED object
  /\ Goto(t, "writeInfected")
  /\ UNCHANGED <<doc, created, deleting, failures, urls, unseen>>

\* The row the current step writes.
Verdict(t) ==
  LET row == doc[Current(t)] IN
  CASE tick[t].at = "writeClean"    -> [row EXCEPT !.scan = "CLEAN", !.attempts = Attempts(t)]
    [] tick[t].at = "writeInfected" -> [row EXCEPT !.scan = "INFECTED", !.attempts = Attempts(t)]
    [] tick[t].at = "defer"         -> [row EXCEPT !.scan = "SCAN_ERROR", !.attempts = Attempts(t)]
    [] tick[t].at = "missing"       -> [row EXCEPT !.scan = "SCAN_ERROR", !.attempts = Loud + 1]

\* The update by id, then the next document of the batch; a row deleted
\* meanwhile throws and ends the tick.
RecordVerdict(t) ==
  /\ tick[t].at \in {"writeClean", "writeInfected", "defer", "missing"}
  /\ IF Exists(Current(t))
     THEN doc' = [doc EXCEPT ![Current(t)] = Verdict(t)] /\ Takes(t, tick[t].rest)
     ELSE tick' = [tick EXCEPT ![t] = NoTick] /\ UNCHANGED doc
  /\ UNCHANGED <<object, created, deleting, failures, urls, unseen>>

TickDies(t) ==
  /\ tick[t].at # "idle"
  /\ failures < MaxDeaths
  /\ failures' = failures + 1
  /\ tick' = [tick EXCEPT ![t] = NoTick]
  /\ UNCHANGED <<doc, object, created, deleting, urls, unseen>>

Sweep(t) == TickStart(t) \/ Fetch(t) \/ Scan(t) \/ RemoveInfected(t) \/ RecordVerdict(t)

ScanNext ==
  \/ \E d \in Documents:
       RequestUpload(d) \/ Put(d) \/ UrlExpires(d) \/ ConfirmUpload(d)
         \/ DeleteObject(d) \/ DeleteRow(d) \/ DeleteDies(d)
  \/ \E t \in Ticks: Sweep(t) \/ TickDies(t)

ScanSpec == ScanInit /\ [][ScanNext]_scanVars

\* The cron fires for ever; storage and the scanner answer again and again.
Answered(t) == tick'[t].at \notin {"defer", "idle"}
ScanFairSpec ==
  /\ ScanSpec
  /\ WF_scanVars(\E t \in Ticks: Sweep(t))
  /\ \A t \in Ticks, d \in Documents:
       /\ SF_scanVars(Fetch(t) /\ Current(t) = d /\ Answered(t))
       /\ SF_scanVars(Scan(t) /\ Current(t) = d /\ Answered(t))

-----------------------------------------------------------------------------
\* Rows, storage and tick-local states are well formed; a tick at work has a
\* document to work on.
ScanTypeOK ==
  /\ doc \in [Documents -> [status: {"none", "PENDING", "UPLOADED", "deleted"},
                            scan: Unresolved \cup {"CLEAN", "INFECTED"},
                            attempts: 0..MaxScans]]
  /\ object \in [Documents -> {"none", "clean", "infected", "deleted"}]
  /\ created \in Seq(Documents)
  /\ deleting \subseteq Documents
  /\ \A t \in Ticks: tick[t].at # "idle" =>
       Current(t) \in Documents /\ Cardinality(tick[t].rest) < Batch
  /\ failures \in 0..MaxDeaths
  /\ urls \subseteq Documents /\ unseen \subseteq Documents

\* The download gate lets CLEAN through. The verdict speaks for the bytes a tick
\* read: a document marked CLEAN is clean, gone, or was put into again since it
\* was read, whatever failed, was retried or was deleted meanwhile.
AsRead(d) == object[d] \in {"clean", "deleted"} \/ d \in unseen
CleanWasScanned == \A d \in Documents: doc[d].scan = "CLEAN" => AsRead(d)

\* "ONLY way to obtain a download URL is getDownloadUrl, which refuses anything
\* not CLEAN": what a client can download is clean. A known disagreement: the
\* URL takes a second file after the first was read.
CleanIsClean ==
  \A d \in Documents: Exists(d) /\ doc[d].scan = "CLEAN" => object[d] # "infected"

\* A verdict is final: a slow tick never overwrites it with an older one.
VerdictStands ==
  [][\A d \in Documents: doc[d].scan \in {"CLEAN", "INFECTED"} => doc'[d].scan = doc[d].scan]_scanVars

\* What is in storage and not deleted gets a verdict in the end.
StoredIsResolved ==
  \A d \in Documents: Stored(d) /\ Exists(d) ~> ~Stored(d) \/ ~Exists(d) \/ doc[d].scan \notin Unresolved

\* "Object missing from storage — parked as SCAN_ERROR, will not retry."
ParkedIsNotRetried ==
  [][\A t \in Ticks, d \in Documents:
       doc[d].attempts > Loud /\ doc[d].scan = "SCAN_ERROR" /\ object[d] = "none"
       => ~(tick[t].at = "idle" /\ tick'[t].at # "idle"
            /\ \E x \in tick'[t].rest \cup {tick'[t].now}: x.id = d)]_scanVars
=============================================================================
