---------------------------- MODULE Inspection ------------------------------
(***************************************************************************)
(* The paged listings of the inspection service (adapters/go/inspection):  *)
(* ListWorkflowDirectory over the latest-run pointers of a namespace,      *)
(* ListScheduledWakes over its due ledger, and ListWorkflowRuns over the   *)
(* run directories of a workflow.  A client walks one of them from page to *)
(* page while writers change the bucket.                                   *)
(*                                                                         *)
(* A request lists the names, and reads the objects behind them in batches *)
(* of goroutines.  Every read takes a slot of the request's read gate, the *)
(* reads of a run's records that a directory entry fans out into included. *)
(* Any read may fail, and any response may be lost; the client then asks   *)
(* for the same page again.                                                *)
(*                                                                         *)
(* The bucket keeps, for each name, the listed object (a pointer, a ledger *)
(* entry, a run directory), the canonical timer and the workflow record.   *)
(***************************************************************************)
EXTENDS Naturals, Sequences, FiniteSets, InspectionMessages
LOCAL INSTANCE SequencesExt
LOCAL INSTANCE FiniteSetsExt

CONSTANTS
  Names,        \* the listed names, numbers in the order of the listing
  Walks,        \* the requests a client may walk with
  Contents,     \* for each method, the contents of the bucket at the start
  Objects,      \* for each method, what a writer may put under a name
  Malformed,    \* walks whose prefix or workflow ID is not well formed
  CorruptRuns,  \* names of runs that have an undecodable activity record
  Children,     \* the numbers of activity, event and claim records of a run
  Quarantined,  \* the number of quarantined ledger entries
  Limits,       \* of the service
  MaxChanges,   \* bound on writes
  MaxFailures   \* bound on failed reads, lost responses and mixed-up tokens

ASSUME NamesAreOrdered == Names \subseteq Nat \ {0}
ASSUME LimitsArePositive ==
  /\ \A f \in {"Concurrency", "ReadBudget", "DefaultPageSize", "MaxPageSize"} :
       Limits[f] \in Nat \ {0}
  /\ Limits.MaxListedObjects \in Nat /\ Limits.MaxListedRuns \in Nat

VARIABLES
  walk,      \* the walk, fixed
  grant,     \* what Access says of the client: granted, narrowed or hidden
  bucket,    \* the objects
  changes,   \* writes so far
  touched,   \* names written since the walk began
  client,    \* where the client stands, its token and the rows it has
  request,   \* the request that is being served
  worker,    \* the goroutines of the current batch
  gate,      \* slots of the read gate that are taken
  failures

bucketVars == <<grant, bucket, changes, touched>>
inspectionVars == <<walk, bucketVars, client, request, worker, gate, failures>>

NoToken == [binding |-> Null, cursor |-> 0]

NoRequest ==
  [at |-> "none", token |-> NoToken, names |-> <<>>, total |-> 0, next |-> 0, scanned |-> 0,
   rows |-> <<>>, skipped |-> 0, failed |-> FALSE, response |-> Null]

InspectionInit ==
  /\ walk \in Walks
  /\ grant = "granted"
  /\ bucket = Contents[walk.method]
  /\ changes = 0 /\ touched = {} /\ failures = 0
  /\ client = [at |-> "idle", token |-> NoToken, rows |-> <<>>]
  /\ request = NoRequest
  /\ worker = <<>> /\ gate = 0

-----------------------------------------------------------------------------
(* Writers and administrators *)

Write(n, o) ==
  /\ client.at # "idle" /\ changes < MaxChanges /\ o # bucket[n]
  /\ bucket' = [bucket EXCEPT ![n] = o]
  /\ changes' = changes + 1 /\ touched' = touched \cup {n}
  /\ UNCHANGED <<walk, grant, client, request, worker, gate, failures>>

Revoke(g) ==
  /\ client.at # "idle" /\ changes < MaxChanges /\ grant = "granted"
  /\ grant' = g /\ changes' = changes + 1
  /\ UNCHANGED <<walk, bucket, touched, client, request, worker, gate, failures>>

-----------------------------------------------------------------------------
(* The client *)

Walking == client.at = "walking"

Send(token) ==
  /\ request' = [NoRequest EXCEPT !.at = "scope", !.token = token]
  /\ worker' = <<>>

BeginWalk ==
  /\ client.at = "idle"
  /\ client' = [client EXCEPT !.at = "walking"]
  /\ Send(NoToken)
  /\ UNCHANGED <<walk, bucketVars, gate, failures>>

(* The next page, or the same page after a failure. *)
AskPage ==
  /\ Walking /\ request.at = "none"
  /\ Send(client.token)
  /\ UNCHANGED <<walk, bucketVars, client, gate, failures>>

(* The client mixes up its walks: the token is one of another listing. *)
AskWithForeignToken(n) ==
  /\ Walking /\ request.at = "none" /\ failures < MaxFailures
  /\ failures' = failures + 1
  /\ Send([binding |-> [method |-> "other"], cursor |-> n])
  /\ UNCHANGED <<walk, bucketVars, client, gate>>

Accept ==
  /\ request.at = "reply"
  /\ LET token == request.response.next_page_token IN
       client' = [at |-> IF token = NoToken THEN "done" ELSE "walking",
                  token |-> token, rows |-> client.rows \o request.response.rows]
  /\ request' = NoRequest
  /\ UNCHANGED <<walk, bucketVars, worker, gate, failures>>

LoseResponse ==
  /\ request.at = "reply" /\ failures < MaxFailures
  /\ failures' = failures + 1
  /\ request' = NoRequest
  /\ UNCHANGED <<walk, bucketVars, client, worker, gate>>

-----------------------------------------------------------------------------
(* The scope and the cursor of a request *)

(* NotFound, PermissionDenied, InvalidArgument and FailedPrecondition say    *)
(* that asking again is of no use.                                           *)
Refuse ==
  /\ client' = [client EXCEPT !.at = "refused"]
  /\ request' = NoRequest
  /\ UNCHANGED <<walk, bucketVars, worker, gate, failures>>

storeScope == grant # "hidden"
namespaceScope == storeScope /\ grant # "narrowed"

(* The method and the filters; the page size is not part of it. *)
Binding(w) == [f \in DOMAIN w \ {"page_size"} |-> w[f]]

sealCursor(n) == IF n = 0 THEN NoToken ELSE [binding |-> Binding(walk), cursor |-> n]

(* A token opens only under the binding it was sealed with. *)
openCursor(token) == token = NoToken \/ token.binding = Binding(walk)

Scope ==
  /\ request.at = "scope"
  /\ namespaceScope /\ walk \notin Malformed /\ openCursor(request.token)
  /\ request' = [request EXCEPT !.at = "list"]
  /\ UNCHANGED <<walk, bucketVars, client, worker, gate, failures>>

ScopeRefused ==
  /\ request.at = "scope"
  /\ ~namespaceScope \/ walk \in Malformed
  /\ Refuse

(* The client looks for the token it meant. *)
TokenRefused ==
  /\ request.at = "scope"
  /\ namespaceScope /\ walk \notin Malformed /\ ~openCursor(request.token)
  /\ request' = NoRequest
  /\ UNCHANGED <<walk, bucketVars, client, worker, gate, failures>>

-----------------------------------------------------------------------------
(* The listing *)

Listed == {n \in Names : bucket[n].listed # "absent"}

Ascending == walk.method # "runs" \/ walk.ascending

MaxListed ==
  IF walk.method = "runs" THEN Limits.MaxListedRuns ELSE Limits.MaxListedObjects

Beyond(n, cursor) == cursor = 0 \/ IF Ascending THEN n > cursor ELSE n < cursor

Candidates(cursor) ==
  LET S == {n \in Listed : Beyond(n, cursor)
                           /\ (walk.method = "directory" => n \in walk.prefix)}
  IN  IF Ascending THEN SetToSortSeq(S, <) ELSE SetToSortSeq(S, >)

(* ListScheduledWakes also lists the quarantined entries, to count them. *)
Oversized ==
  \/ Cardinality(Listed) > MaxListed
  \/ walk.method = "wakes" /\ Quarantined > Limits.MaxListedObjects

List ==
  /\ request.at = "list" /\ ~Oversized
  /\ request' = [request EXCEPT !.at = "loop", !.names = Candidates(request.token.cursor),
                                !.total = Cardinality(Listed)]
  /\ UNCHANGED <<walk, bucketVars, client, worker, gate, failures>>

TooManyObjects ==
  /\ request.at = "list" /\ Oversized
  /\ Refuse

ListFails ==
  /\ request.at = "list" /\ failures < MaxFailures
  /\ failures' = failures + 1
  /\ request' = NoRequest
  /\ UNCHANGED <<walk, bucketVars, client, worker, gate>>

-----------------------------------------------------------------------------
(* Batches *)

pageSize ==
  Min({IF walk.page_size = 0 THEN Limits.DefaultPageSize ELSE walk.page_size,
       Limits.MaxPageSize})

Left == Len(request.names) - request.next

(* ListWorkflowRuns reads one page; the other two go on until the page is    *)
(* full or the read budget is spent.                                         *)
More ==
  /\ Left > 0 /\ Len(request.rows) < pageSize
  /\ request.scanned < IF walk.method = "runs" THEN 1 ELSE Limits.ReadBudget

BatchSize ==
  IF walk.method = "runs" THEN Min({pageSize, Left})
  ELSE Min({Limits.Concurrency, Left, Limits.ReadBudget - request.scanned})

(* cells: what has been read of the object; wait, read: the reads of run     *)
(* records that wait for a slot and that hold one.                           *)
Queued == [at |-> "queued", slot |-> FALSE, cells |-> [c \in {"listed", "point", "record"} |-> "unread"],
           kind |-> 1, wait |-> 0, read |-> 0]

BatchName(i) == request.names[request.next + i]

NextBatch ==
  /\ request.at = "loop" /\ More
  /\ request' = [request EXCEPT !.at = "batch"]
  /\ worker' = [i \in 1..BatchSize |-> Queued]
  /\ UNCHANGED <<walk, bucketVars, client, gate, failures>>

Active == {i \in DOMAIN worker : worker[i].at \notin {"queued", "done"}}

FirstRead == IF walk.method = "runs" THEN "record" ELSE "listed"

(* forEach: at most Concurrency goroutines. *)
Go(i) ==
  /\ worker[i].at = "queued" /\ Cardinality(Active) < Limits.Concurrency
  /\ worker' = [worker EXCEPT ![i].at = FirstRead]
  /\ UNCHANGED <<walk, bucketVars, client, request, gate, failures>>

Reads == {"listed", "point", "record", "list", "timers"}

acquire(i) ==
  /\ worker[i].at \in Reads /\ ~worker[i].slot /\ gate < Limits.Concurrency
  /\ worker' = [worker EXCEPT ![i].slot = TRUE]
  /\ gate' = gate + 1
  /\ UNCHANGED <<walk, bucketVars, client, request, failures>>

(* What directoryEntry, scheduledWake and runDirSummary read after a cell    *)
(* with value v; at "list", the records of the run.                          *)
After(at, v) ==
  CASE walk.method = "directory" /\ at = "listed" -> IF v \in {"absent", "invalid"} THEN "done" ELSE "record"
    [] walk.method = "directory" /\ at = "record" -> IF v = "IN_PROGRESS" THEN "list" ELSE "done"
    [] walk.method = "wakes" /\ at = "listed" -> IF v \in {"SCHEDULED", "OVERDUE"} THEN "point" ELSE "done"
    [] walk.method = "wakes" /\ at = "point" -> "record"
    [] OTHER -> "done"

ReadCell(i) ==
  LET at == worker[i].at
      v == bucket[BatchName(i)][at]
  IN  /\ at \in {"listed", "point", "record"} /\ worker[i].slot
      /\ worker' = [worker EXCEPT ![i].slot = FALSE, ![i].cells[at] = v, ![i].at = After(at, v)]
      /\ gate' = gate - 1
      /\ UNCHANGED <<walk, bucketVars, client, request, failures>>

(* Mutant of ReadRunList: the slot is kept until the records are read. *)
ReadRunListKeepsSlot(i) ==
  /\ worker[i].at = "list" /\ worker[i].slot
  /\ worker' = [worker EXCEPT ![i].at = "records", ![i].wait = Children[worker[i].kind]]
  /\ UNCHANGED <<walk, bucketVars, client, request, gate, failures>>

(* readRunScoped lists the records of a kind and reads each of them, *)
ReadRunList(i) ==
  /\ worker[i].at = "list" /\ worker[i].slot
  /\ worker' = [worker EXCEPT ![i].slot = FALSE, ![i].at = "records",
                              ![i].wait = Children[worker[i].kind]]
  /\ gate' = gate - 1
  /\ UNCHANGED <<walk, bucketVars, client, request, failures>>

acquireRecord(i) ==
  /\ worker[i].wait > 0 /\ gate < Limits.Concurrency
  /\ worker' = [worker EXCEPT ![i].wait = @ - 1, ![i].read = @ + 1]
  /\ gate' = gate + 1
  /\ UNCHANGED <<walk, bucketVars, client, request, failures>>

(* one of which may be corrupt: the siblings are cancelled. *)
ReadRecord(i) ==
  /\ worker[i].read > 0
  /\ worker' = [worker EXCEPT ![i].read = @ - 1,
                              ![i].wait = IF BatchName(i) \in CorruptRuns THEN 0 ELSE @]
  /\ gate' = gate - 1
  /\ UNCHANGED <<walk, bucketVars, client, request, failures>>

(* The next kind of record, or the timers; an entry whose run has a corrupt  *)
(* record goes without its pending state.                                    *)
RecordsRead(i) ==
  /\ worker[i].at = "records" /\ worker[i].wait = 0 /\ worker[i].read = 0
  /\ worker' =
       IF BatchName(i) \in CorruptRuns THEN [worker EXCEPT ![i].at = "done"]
       ELSE IF worker[i].kind < Len(Children)
         THEN [worker EXCEPT ![i].at = "list", ![i].kind = @ + 1]
         ELSE [worker EXCEPT ![i].at = "timers"]
  /\ UNCHANGED <<walk, bucketVars, client, request, gate, failures>>

ListTimers(i) ==
  /\ worker[i].at = "timers" /\ worker[i].slot
  /\ worker' = [worker EXCEPT ![i].slot = FALSE, ![i].at = "done"]
  /\ gate' = gate - 1
  /\ UNCHANGED <<walk, bucketVars, client, request, failures>>

(* A read that fails cancels the group: the goroutines that wait for a slot  *)
(* return, those that read go on to the end of the read.                     *)
ReadFails(i) ==
  /\ failures < MaxFailures /\ (worker[i].slot \/ worker[i].read > 0)
  /\ failures' = failures + 1
  /\ request' = [request EXCEPT !.failed = TRUE]
  /\ worker' = IF worker[i].slot
                 THEN [worker EXCEPT ![i].slot = FALSE, ![i].at = "done"]
                 ELSE [worker EXCEPT ![i].read = @ - 1, ![i].wait = 0, ![i].at = "failing"]
  /\ gate' = gate - 1
  /\ UNCHANGED <<walk, bucketVars, client>>

Cancelled(i) ==
  /\ request.failed /\ worker[i].at # "done" /\ ~worker[i].slot /\ worker[i].read = 0
  /\ worker' = [worker EXCEPT ![i].at = "done", ![i].wait = 0]
  /\ UNCHANGED <<walk, bucketVars, client, request, gate, failures>>

-----------------------------------------------------------------------------
(* The rows of a page *)

(* A pointer that vanished or cannot be trusted has no entry; one whose run  *)
(* has no readable record is stale.                                          *)
directoryEntry(n, o) ==
  IF o.listed \in {"absent", "invalid"} THEN Null
  ELSE IF o.record \in {"absent", "corrupt"} THEN WorkflowDirectoryEntry(n, o.listed, Null, TRUE)
  ELSE WorkflowDirectoryEntry(n, o.listed, WorkflowRunSummary(n, o.record), o.listed # o.record)

directoryStatusMatches(entry) ==
  \/ walk.status = "UNSPECIFIED"
  \/ walk.status = IF entry.run # Null THEN entry.run.status ELSE entry.pointer

LedgerState(o) ==
  CASE o.point = "absent" -> "CANONICAL_MISSING"
    [] o.point = "corrupt" -> "CANONICAL_UNREADABLE"
    [] o.point # o.listed -> "CANONICAL_DIFFERS"
    [] OTHER -> "AGREES"

(* Only SCHEDULED entries are wakes; OVERDUE is SCHEDULED and past its time. *)
scheduledWake(n, o) ==
  IF o.listed \notin {"SCHEDULED", "OVERDUE"} THEN Null
  ELSE ScheduledWake(n, LedgerState(o), o.listed = "OVERDUE",
                     IF o.record \in {"absent", "corrupt"} THEN "UNSPECIFIED" ELSE o.record)

runDirSummary(n, o) ==
  IF o.record \in {"absent", "corrupt"} THEN Null ELSE WorkflowRunSummary(n, o.record)

(* The row of an object, Null when the listing leaves it out. *)
Row(n, o) ==
  LET row == CASE walk.method = "directory" -> directoryEntry(n, o)
               [] walk.method = "wakes" -> scheduledWake(n, o)
               [] walk.method = "runs" -> runDirSummary(n, o)
      keep == CASE walk.method = "directory" -> directoryStatusMatches(row)
                [] walk.method = "wakes" -> ~walk.overdue_only \/ row.overdue
                [] walk.method = "runs" -> TRUE
  IN  IF row = Null THEN Null ELSE IF keep THEN row ELSE Null

(* What is counted instead of listed. *)
Skipped(i) ==
  CASE walk.method = "directory" -> FALSE
    [] walk.method = "wakes" -> worker[i].cells.listed = "invalid"
    [] walk.method = "runs" -> worker[i].cells.record \in {"absent", "corrupt"}

BatchRows == [i \in DOMAIN worker |-> Row(BatchName(i), worker[i].cells)]

(* The objects up to the one that fills the page. *)
Processed ==
  Min({Len(worker)} \cup
      {k \in DOMAIN worker : Cardinality({i \in 1..k : BatchRows[i] # Null})
                             = pageSize - Len(request.rows)})

(* Mutant of Collect: the objects behind a full page count as listed. *)
CollectWholeBatch ==
  /\ request.at = "batch" /\ ~request.failed
  /\ \A i \in DOMAIN worker : worker[i].at = "done"
  /\ request' = [request EXCEPT
       !.at = "loop", !.next = @ + Len(worker), !.scanned = @ + Len(worker),
       !.rows = @ \o SelectSeq(SubSeq(BatchRows, 1, Processed), LAMBDA r : r # Null),
       !.skipped = @ + Cardinality({i \in 1..Processed : Skipped(i)})]
  /\ worker' = <<>>
  /\ UNCHANGED <<walk, bucketVars, client, gate, failures>>

Collect ==
  /\ request.at = "batch" /\ ~request.failed
  /\ \A i \in DOMAIN worker : worker[i].at = "done"
  /\ request' = [request EXCEPT
       !.at = "loop", !.next = @ + Processed, !.scanned = @ + Processed,
       !.rows = @ \o SelectSeq(SubSeq(BatchRows, 1, Processed), LAMBDA r : r # Null),
       !.skipped = @ + Cardinality({i \in 1..Processed : Skipped(i)})]
  /\ worker' = <<>>
  /\ UNCHANGED <<walk, bucketVars, client, gate, failures>>

(* Unavailable: the client may ask again. *)
BatchFails ==
  /\ request.at = "batch" /\ request.failed
  /\ \A i \in DOMAIN worker : worker[i].at = "done"
  /\ request' = NoRequest /\ worker' = <<>>
  /\ UNCHANGED <<walk, bucketVars, client, gate, failures>>

(* The cursor is the last object processed, whether or not it has a row. *)
NextPageToken ==
  IF Left > 0 /\ request.next > 0 THEN sealCursor(request.names[request.next]) ELSE NoToken

Respond ==
  /\ request.at = "loop" /\ ~More
  /\ request' = [request EXCEPT !.at = "reply", !.response =
       CASE walk.method = "directory" ->
              ListWorkflowDirectoryResponse(request.rows, request.scanned, NextPageToken)
         [] walk.method = "wakes" ->
              ListScheduledWakesResponse(request.rows, request.scanned, request.skipped, Quarantined, NextPageToken)
         [] walk.method = "runs" ->
              ListWorkflowRunsResponse(request.rows, request.total, request.skipped, NextPageToken)]
  /\ UNCHANGED <<walk, bucketVars, client, worker, gate, failures>>

-----------------------------------------------------------------------------
(* The goroutine of the i-th object of the batch. *)
Goroutine(i) ==
  \/ Go(i) \/ acquire(i) \/ ReadCell(i) \/ ReadRunList(i) \/ acquireRecord(i)
  \/ ReadRecord(i) \/ RecordsRead(i) \/ ListTimers(i) \/ Cancelled(i)

Serve ==
  \/ AskPage \/ Accept \/ Scope \/ ScopeRefused \/ TokenRefused \/ List \/ TooManyObjects
  \/ NextBatch \/ Collect \/ BatchFails \/ Respond
  \/ \E i \in DOMAIN worker : Goroutine(i)

InspectionNext ==
  \/ BeginWalk \/ Serve \/ LoseResponse \/ ListFails
  \/ \E n \in Names : AskWithForeignToken(n)
  \/ \E n \in Names, o \in Objects[walk.method] : Write(n, o)
  \/ \E g \in {"narrowed", "hidden"} : Revoke(g)
  \/ \E i \in DOMAIN worker : ReadFails(i)

InspectionSpec == InspectionInit /\ [][InspectionNext]_inspectionVars

-----------------------------------------------------------------------------
NameOf(row) == IF walk.method = "runs" THEN row.key ELSE row.name

(* What the walk ought to say about an object that nobody writes. *)
Wanted(n) ==
  IF n \in Listed /\ (walk.method = "directory" => n \in walk.prefix)
    THEN Row(n, bucket[n]) ELSE Null

(* A finished walk of ListWorkflowDirectory, ListScheduledWakes or           *)
(* ListWorkflowRuns is in the order of the listing, has no name twice, and   *)
(* has exactly the right row for every object that was not written while it  *)
(* went on: page breaks in the middle of a batch, pages without a row,       *)
(* failed and repeated pages, and objects created and deleted elsewhere in   *)
(* the listing skip none and repeat none.                                    *)
PagesAreComplete ==
  client.at = "done" =>
    LET rows == client.rows IN
    /\ \A i, j \in DOMAIN rows : i < j => Beyond(NameOf(rows[j]), NameOf(rows[i]))
    /\ \A n \in Names \ touched :
         {rows[i] : i \in {j \in DOMAIN rows : NameOf(rows[j]) = n}}
           = IF Wanted(n) = Null THEN {} ELSE {Wanted(n)}

(* A walk cannot stand still.  Until it ends, its request can take a step:  *)
(* the goroutines share one read gate with the reads they fan out into, and  *)
(* are never all waiting for a slot.  And every page that announces another  *)
(* one moves the cursor on, even if it has no row.                           *)
WalksAdvance ==
  /\ Walking => ENABLED Serve
  /\ request.at = "reply" =>
       LET token == request.response.next_page_token IN
       token # NoToken =>
         token.cursor # request.token.cursor /\ Beyond(token.cursor, request.token.cursor)
=============================================================================
