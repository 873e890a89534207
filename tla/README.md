# A TLA+ model of TALOS for FreeCAD

TALOS lets an MCP client drive FreeCAD.  A client's tool call travels through a
socket to worker threads inside FreeCAD, waits in a table, and is executed by the
GUI thread; anything that changes the document first needs the user's approval
(or the panel's automatic approval), and every action leaves an audit record on
disk.  At the far end, the FreeCAD adapter checks the arguments of each tool and
turns them into objects, features and sketches.  This directory models both the
machinery and the adapter, checks them with TLC on small instances and proves part
of them with TLAPS for every instance.

Line numbers below are those of `src/src/talos/...`; `PROJECT.json` holds the
exact correspondence of every definition.

## 1. Inventory of the system

| Part | State it keeps | Operations | Talks to |
|---|---|---|---|
| request dispatcher `bridge/dispatcher.py` | bounded table of requests, queue, one active confirmation, closed flag | submit (workers), process_next, resolve_confirmation, expire_requests, close (GUI) | audit service, registry, panel callback |
| plan dispatcher `bridge/plan_dispatcher.py` | plans, queue, one active confirmation, remembered responses | submit/status/cancel (workers), process_next, resolve_confirmation, close (GUI) | plan service |
| plan service `orchestration/plan_service.py` | plan, status and cancel flag of every plan | submit, get_status, cancel, execute with rollback | registry, audit service, context |
| audit `audit/service.py, recorder.py, store.py` | current record per action in memory, one file per action | begin, approve, cancel, execute, finish, export, prune | file system |
| transport `bridge/transport.py`, session file `bridge/session.py` | connections, endpoint, token; one discovery file | accept, authenticate, dispatch, stop; publish, load, clear | dispatchers |
| GUI controller and panel `ui/` | timer, tick flag; pending and active confirmations | start, stop, tick; show, approve, reject, automatic approval | dispatchers |
| CAD transactions `core/transactions.py`, `adapters/freecad/base.py`, `edits.py`, `documents.py` | current and last transaction trace, counts of audited transactions; FreeCAD's undo stacks | run a transaction, create a validated shape, undo, open and activate documents | FreeCAD document |
| context and inspection `core/context.py`, `core/inspection.py`, `adapters/freecad/context.py` | what the last snapshot of each document saw, recent objects | observe, page, inspect and compare | adapter |
| view captures `adapters/freecad/context.py`, `core/visual_cache.py` | what was borrowed of the user's view; a cache of a few pictures | capture one view, several, a section | FreeCAD's 3D view |
| objects and master parameters `adapters/freecad/objects.py, edits.py, assembly.py, parameters.py, features.py` | the objects of the document, their links and expressions | create, derive, rename, move, align, duplicate, bind, delete | CAD transactions |
| sketches `adapters/freecad/sketch*.py` | geometry and constraints, addressed by position | draw, constrain, edit, trim, copy, delete | CAD transactions |
| PartDesign `adapters/freecad/partdesign.py`, `core/partdesign_registry.py`, `core/semantic_refs.py` | bodies, tip, features; selectors of faces and edges | create a body, sketch on it, add and edit features, dress-ups, patterns | CAD transactions |
| mechanical parts, holes, patterns, paths `adapters/freecad/bearings.py, mechanical.py, assembly.py, patterns.py, features.py, sweeps.py` | none of their own | accept or refuse dimensions, lay out solids | CAD transactions |
| registry, catalog, selector, capabilities, recipes, telemetry, benchmark | mostly declarations and pure functions | | |

What is hard in it: workers and the GUI thread share the table; a client's
deadline runs while the user thinks; a worker may give up on a read that is being
executed; the table forgets answered requests while somebody may still come for
their answer; a client may submit an identifier again at any time; the audit
store may refuse or fail at every step, after having written; retention deletes
files of actions that are not over; FreeCAD handlers can let the event loop run;
a plan that fails in the middle has to be undone; and everything may be closed at
any moment.  In the adapter, a client acts on what it read earlier - an index, a
token, a page, an undo count - while other clients and the user go on; FreeCAD
calls raise anywhere; and dozens of tools accept numbers whose combinations decide
whether the part they build is one.

What makes each part correct:

* dispatcher: no request is lost, forgotten while unanswered or executed twice;
  no mutation runs without approval, nor after its client was told it expired;
  an answer never changes; the confirmation slot is never held by a request that
  is over; every call returns.
* audit: a record only advances, and agrees with what the client was told and
  with what happened to the document.
* plan service: a plan is applied completely or its effect is undone, and its
  status says which; a cancelled plan never starts.
* session file: a client finds the newest bridge that runs.
* transactions: undo names the transaction it took back.
* context: a complete inspection saw one state; pages with one token are one
  document.
* captures: the user's view is given back, whatever fails.
* objects: what something was built from outlives it, a bound dimension follows
  its parameter.
* sketches: an index keeps its element until something is removed; what a call
  reports is what it did.
* PartDesign: every feature shows in its body.
* mechanical parts and features: what is accepted can be built as described.

## 2. Modules

| Module | Models | Kind |
|---|---|---|
| `AuditTrail` | the audit lifecycle as a value with operators | constant-level |
| `BridgeDispatcher` | the request dispatcher, with the audit calls it makes, the workers and the GUI thread | state machine |
| `RequestContract` | what the bridge promises about one request identifier | abstract state machine |
| `PlanService` | the plan service and the composite executor: state and steps | operators |
| `PlanDispatcher` | the plan dispatcher composed with the plan service, clients, the GUI thread and the document | state machine |
| `PlanContract` | what the bridge promises about composite plans | abstract state machine |
| `SessionFile` | the session file and the FreeCAD processes that share it | state machine |
| `CadTransactions` | documents, the transaction core, undo attribution, the user's own edits | state machine |
| `ContextTracker` | snapshots, pages and inspections while the document changes | state machine |
| `ViewCapture` | the three captures, call by call into FreeCAD | state machine |
| `CadModel` | the objects of a document, their links, labels, parameters | state machine |
| `SketchModel` | a sketch's geometry and constraints under every sketch tool | state machine |
| `PartDesign` | bodies, tips, features, selectors | state machine |
| `MechanicalParts` | bearings, bushings, carriers, gears, threads: what is accepted, what is built | calls and answers |
| `FeatureGeometry` | holes, patterns, profiles, sweep paths, measuring, the section camera | calls and answers |
| `MCBridgeDispatcher`, `MCPlanDispatcher` | symmetry sets for TLC | instances |
| `MCAdapter` | the nine modules before those, side by side, with their small sets | instance |
| `AuditTrailProofs` | lemmas about the operators on trails | proofs |
| `BridgeDispatcherProofs`, `BridgeAuditProofs`, `BridgeReliableProofs` | theorems about `BridgeDispatcher`, in three layers | proofs |
| `PlanDispatcherProofs`, `PlanAuditProofs` | theorems about `PlanDispatcher`, without and with the audit files | proofs |
| `ContractProofs` | theorems about the two contracts | proofs |
| `AdapterProofs` | theorems about the adapter modules, a part for each | proofs |

### AuditTrail

The service's `_records` (`mem`), the files (`disk`) and the order in which the
actions started (`log`) form a *trail*.  `audit/store.py:77-95` accepts a record
only when its revision follows the stored one; after every accepted save it
prunes the oldest actions beyond `max_actions_per_session` (`Pruned`).  Since a
save can raise after having replaced the file, each operation has a torn variant
(`BegunTorn`, `ApprovedTorn`, `CancelTorn`).  `cancel()` makes two saves for an
undecided action, so it can be torn between them.  The recorder's own `_started`
set is left out: its only effect is to refuse a second start of an identifier,
which the store refuses as well while the file exists.

### BridgeDispatcher

| Variable | Code |
|---|---|
| `order`, `entry`, `queue`, `active`, `closed` | `_entries` (keys and values), `_queue`, `_active_confirmation`, `_closed` |
| `due` | the requests whose `deadline <= clock()` |
| `trail` | the audit service and its store |
| `gui` | where the GUI thread is inside process_next or resolve_confirmation, with the local variables it carries |
| `shown` | requests given to the confirmation callback and not resolved |
| `worker` | each worker inside submit: idle, waiting on the event, or awake and about to take the lock |
| `runs`, `changed`, `verdict` | ghosts: handler starts, effects on the document, first final answer |

One action is one section under `self._lock`, or one step of the GUI thread
between two such sections: approving (`ApproveAudit`), starting the handler
(`Execute`), saving its outcome (`SaveOutcome`), remembering it
(`RememberOutcome`) and answering (`GuiAnswers`) are separate, so that every
interleaving of workers, deadlines and, inside reads whose handler calls
`Gui.updateGui` (`adapters/freecad/context.py:985`), of the user's decisions is
explored.  `_expire_locked` runs at the head of submit, process_next,
resolve_confirmation and expire_requests and belongs to those actions
(`SweptEntry`, `SweptTrail`, `SweptActive`); when one of its audit calls raises,
the caller is abandoned half way, which is `SweepRaises`.

Abstractions: an identifier stands for a UUID and a request's content is `read`
or `edit`; a deadline is a bit that may be set at any time (a stale `now` in
submit is then a deadline that passes a little later); texts, timing figures and
error categories are left out; a rejected call leaves no trace and is seen only
through the sweep it makes.  Automatic approval is the user's approval as the
very next step.

### RequestContract

The promise per identifier: accepted once, approved at most once and while it
waits, run at most once and, for a mutation, only if approved and still waiting,
answered at most once, `completed` only when it ran, and never `expired` or
`cancelled` once a mutation's handler was started.  `KeepsContract` refines it;
kind and approval are read from the audit file because the table forgets
answered requests.

### PlanService and PlanDispatcher

| Variable | Code |
|---|---|
| `snapshot`, `cancelled` | `PlanService._status`, `_cancelled` |
| `base` | the content the plan's `base_state_token` stands for |
| `traces` | `AuditService._plan_traces`, counted |
| `trail` | the audit service and its store, one action per plan |
| `doc` | FreeCAD's undo stack: one mark per committed transaction, saying who made it |
| `queue`, `queued`, `active`, `closed`, `responses` | the fields of `PlanBridgeDispatcher` |
| `shown` | plans the panel holds |
| `gui` | where the GUI thread is in process_next, resolve_confirmation, execute or close, with `committed`, the calls still to be undone, the baseline and how the executor ended |

A client's request is one section under the dispatcher's lock (which calls the
service under its own).  The GUI thread holds no lock between the steps of
`CompositePlanExecutor.execute`, so each is an action: the approval with the
status RUNNING (`ExecuteBegins`), the checks against the base (`Check`), each
call, each validation, the comparison at the end, each undo, the verification of
the baseline, the status (`Settle`) and the audit record (`SaveFinish`), which
is a later section.  A cancellation can fall between any two of them.  Any call,
validation or undo may fail; a call may also change nothing (`touch`: a
transaction that the fingerprint does not see).  With `LateRaise` a handler may
raise after its commit.

Left out: the document's fingerprint beyond its content (Check and Verify may
therefore fail for other reasons at any time), the grant (issued by the
dispatcher immediately before its use), plan hashes, and manual edits while a
plan executes, since both happen on the GUI thread.

### PlanContract

A plan waits, is dropped, or runs; running it applies and reverts one
transaction at a time; it ends *applied* only with all transactions in the
document, *undone* only with none, or *unclear* (status FAILED), and plans run
one at a time.  `KeepsPlanContract` refines it: the contract's counter is the
growth of the real document since the execution began.

### SessionFile

| Variable | Code |
|---|---|
| `published` | the record in the session file |
| `tombstone` | the file each process's `clear()` moved aside |
| `process` | where each process is in start, publish and clear |
| `newest`, `mishaps` | ghosts: the last session published; failures and kills so far |
| `crossed` | ghost: a record was aside when the newest session was published |
| `spoiled` | ghost: sessions that came later and whose publish failed after its `os.replace` (session.py:97-98) |
| `lost` | ghost: a record taken aside since then was not put back (a kill, or session.py:142 and 149 failing) |

A step is one call on the file system (`os.replace`, the existence test, unlink), as
nothing else orders the processes.  Any of them may fail, and a process may be killed
at any point.  `UncrossedSessionKept` is about the orders in which no record was aside
at the newest publication: a client then finds that session, or one of `spoiled`, or
none when a record was `lost`; it never finds an older session.  Reading the file for
its content and its validation are part of the step that uses the result; the checks of
links, sizes and permissions are left out.

### CadTransactions

`active` is `App.ActiveDocument`; `undoable` and `redoable` are FreeCAD's stacks of
each document; `audited` is `_audited_transactions`, the list of transactions with
the undo count of their document after the commit; `trace` is what the last call
tells the audit.  `RunTransaction` and `CreateValidatedShape` commit or abort;
`Undo` is `cad.undo` with its search for the transaction it took back (`KeptAudited`,
`Matches`), `UndoRaises` the same when `document.undo()` or the recompute after it
raises: the transaction stays remembered, on the stack or not.  The user edits, undoes,
redoes and closes documents at any time.  All of it runs on the GUI thread, so a call is
one step.  `disturbed` remembers when counts of different histories became comparable by
accident: another document with entries, a full stack, the user's own undo, redo or
close, or a change of the user's right after a `cad.undo` that raised.  Outside of these
`UndisturbedUndoIsExact` holds, also when undos raise and tools go on or undo again.

### ContextTracker

`tracked` is `_documents`, what the last observation of each document saw, and
`pending` `_pending_recent`; `client` is one reader in the middle of an inspection or
of paging.  Every snapshot, whoever takes it, is an `Observe` and may raise the
revision.  Tools, the user, selections and switches of the active document fall
between any two reads, and a change may be changed back.  A fingerprint is the value
it is taken of.

### ViewCapture

`at` walks through a capture, one call into FreeCAD per step: each may raise, and for
those that change the view before they raise both results are tried.  `saved` and
`section` are what the `finally` blocks will put back.  `cache` is the directory of
pictures, pruned to a few.  A section capture wraps a single one; the user turns her
own clipping plane on and off between calls.

### CadModel

`objects` is `document.Objects`: label, kind, the objects it was derived from
(`sources`; `madeFrom` remembers them for the property), what it is aligned with, the
parameter it is bound to, visibility, and its place and size on one axis.
References are resolved as `_resolve_document_object` does: the object of that very
name, or else the only one whose name or label is the same but for case.  FreeCAD's part
- unique names, links cleared when an object goes, expressions recomputed - is modelled
from how the adapter uses it (`Recompute`).

### SketchModel

`geometry` and `constraints` are the sketch's lists.  Elements carry an identity the
code does not have, so that `IndicesHoldUntilRenumbered` can say what an index a
client read still stands for.  `past` is the undo stack of the sketch, which
`cad.undo`, called by any client, takes back one change at a time (`UndoSketchChange`).
An index holds until a trim, a deletion or an undo of a change from before the read,
which may re-insert or remove elements that stood there (`renumbered`); the code warns
of neither.  The user's own changes to the sketch are left out.  A tool is one action,
with the geometry it adds, the constraints it ties and the report it returns in `told`.
Coordinates appear only where a closed outline or a sketch plane depends on them.

### PartDesign

`items` are sketches and features in the order they were made, `tip` what each body
shows.  The shape a feature computes is FreeCAD's and any of a few; `ResolvesFace`
and `ResolvesEdges` are the semantic selectors, which fail when two faces are equally
large; circles match within the tolerance of the selector, a quarter of a millimetre or
a wide one.  Dimensions of features are left out.

### MechanicalParts and FeatureGeometry

No state survives a call: a step is one tool call, its arguments chosen from small
sets, its answer the acceptance and the solids, cutters or positions the code lays
out.  Lengths are whole numbers in units small enough for every coefficient of the
code (1/400 mm and 1/10 mm), angles are answered in hundredths of a degree (in sixtieths,
an arc of one degree shared by 64 instances would put two of them in one place, which
the code does not), sines come from a table for every count the schemas allow, and a
comparison the code makes with a tolerance for rounding (1e-6 and less) is exact.

A part is rings, rolling elements on a circle, grooves and channels; the properties
compare what the code's own inequalities should keep apart.  Five things it does not
compare, and accepts: the balls of `create_ball_bearing`, spaced by their arc and not
their chord (assembly.py:119), may overlap by less than an eighth of a diameter; the
pin holes of a carrier are not compared with each other (assembly.py:33-36) and from
seven on may meet; a groove of conformity above 1.00 may cut through its race; the
pockets of a thrust cage may cut it apart; a channel wider than its wall may cut through
it.  `AcceptedPartsFit` claims what is left: an eighth, six holes, conformity 1.00, a
channel no wider than the wall.

Of a hole, `_checked_hole_cut` compares the volume of the block before and after the
fused cutter (`HoleCutChecked`: some cutter meets the block, none swallows it).  So a
counterbore is accepted whose recess clips a corner while its drill misses, and a pattern
some of whose holes miss, which are counted.  `AcceptedFeaturesFit` claims that a drill
that reaches over the block opens on both faces, and that one drill of a through hole or
pattern does.  Places of circular patterns are computed with sines to two thousandths; a
cutter made of several drills that together take the whole block is not told apart.

### MCAdapter

The nine modules above share no variable.  Tools run on the GUI thread one after
another, each in one transaction whose abort is a step of `CadTransactions`, so their
composition adds no interleaving; `MCAdapter` puts them side by side, and `family`
names the one a behaviour belongs to.

## 3. Runs

| Run | Asks | Bounds |
|---|---|---|
| `dispatcher` | Is a request ever lost, does the slot agree with the execution, do answers, audit files and document agree? | 3 identifiers, table of 2, 2 workers, no disk failure |
| `dispatcher_faults` | Do approvals, answers and executions keep the contract, and does every call return, when any save may fail and the GUI thread may hang? | 2 identifiers, table of 1, fairness of workers and clock only |
| `dispatcher_retention` | Does a handler start at most once, and do files only advance, when retention deletes pending actions? | 2 identifiers, table of 2, 1 audit file kept |
| `dispatcher_live` | Is every request answered, is the slot released? | as faults, no disk failure, fairness |
| `plans` | Is a plan ever lost or run beside another, is it all or nothing, do status, document, evidence and audit agree? | 2 plans of 2 calls, 2 identifiers of which 1 response is remembered |
| `plans_faults` | Does a plan start only approved and on its base, and is its end final, when saves fail? | 1 plan, edits up to 2 transactions |
| `plans_live` | Does every plan end under automatic approval, are rollbacks verified, with late raises? | 2 plans, clients submit, fairness |
| `adapter` | Do accepted parts and features fit, does undo name what it took, do inspections and pages agree with the document, do indices, links, tips and the view hold, is the newest session found? | below |
| `session_race` | finding: an older record replaces a newer session's | 3 processes |
| `plan_late_raise` | finding: rolled back without rollback | 1 plan |
| `undo_safe_state` | finding: safe state claimed after an undo | as faults |
| `slot_wedged` | finding: the slot stays on a forgotten request | as faults |

Three identifiers and a table of two make queueing behind the slot, eviction and
resubmission of an evicted identifier happen together; two workers are enough
for a waiter and a competitor.  With disk failures a table of one already has
all of that with two identifiers.  `ExclusiveExecution`, `HonestSafeState` and
`AuditAgreesWithAnswers` are asked without disk failures; the run
`undo_safe_state` shows that `HonestSafeState` needs this, and a failing save
leaves, by its nature, a file that disagrees.  `AtMostOnce` is asked with the
table at least as large as retention's window for the identifiers used; once both
the table and retention have forgotten an identifier nothing can refuse it (the
code's defaults, 512 requests and 1000 audit files, keep the audit's memory the
longer one).

Two plans are enough for one to hold the slot while another waits, is cancelled,
or becomes stale because the first changed the document.  One remembered
response makes every identifier forgotten and submitted again.  Two calls give a
plan that fails before, between and after its commits.  Audit retention is not asked
about here: as many actions are kept as there are plans.  `NoPlanLost`,
`SlotCanBeDecided`, `AuditAgreesWithStatus` and `EveryPlanEnds` are asked without disk
failures, `StatusTellsDocument` without late raises; `PROJECT.json` lists what goes
wrong with them.

The bounds of `adapter` are chosen family by family:

* transactions: two documents, a stack of three, four changes, so that it overflows,
  a count of one document meets that of the other, and a change of the user's lies
  between two of TALOS's.
* context: two documents of two objects in two versions and pages of one object: a
  page boundary falls between two objects, and the fourth change takes back the
  earlier ones.
* captures: two views per call, two faults per call, a cache of two and four pictures:
  a second fault hits the clean-up of the first, and the cache is pruned.
* session: three processes - one that stops, one that is newer, one that starts
  meanwhile - with two failures or kills.
* model: three names of which two differ only in case, five calls: enough to derive
  from, align, bind, rename and delete a chain of objects.
* sketch: four elements and two calls after the sketch is made, each of which may add
  a whole outline: every tool meets every index the other left, and undos of all of
  them fall anywhere between.
* design: two bodies, three items, shapes with a largest face and with two equal ones.
* parts and features have no history; counts of elements are 4 (few), 6 (the last for
  which pin holes are claimed to be apart) and 16 (the most a carrier has); pitch circles
  reach beyond the block, so that holes miss it; offsets put drills beside it.  The sets
  of dimensions lie on both sides of each limit the code compares with (the map names
  the comparisons), including sums that meet it exactly.

A behaviour stops at its bounds, so this run does not ask for deadlocks.
None of its properties depends on the bounds: every one of them is proved in
`AdapterProofs`.

**Fairness.**  `FairSpec` assumes the GUI timer fires again and again
(`bridge_controller.py:111-114`), the GUI thread finishes what it began, workers
run and deadlines pass.  It assumes nothing of the user, the clients, close or
the disk.  `HungGuiSpec`, which `dispatcher_faults` runs, drops the GUI thread as well: its
safety properties hold with or without fairness, and `CallsReturn` must hold although
the GUI thread hangs and saves fail.  The plan dispatcher's
`FairSpec` is the same timer and GUI thread; `AutomaticSpec` adds that a presented
plan is decided, which the panel's callback does itself when automatic approval is
on (`talos_panel.py:263-267`).

**Findings.**  *Safe state after undo.* When `cad.undo` succeeds and the audit
save then fails, the client is answered FAILED with `safe_state_restored=true`:
`_safe_state_after_failure` (dispatcher.py:618-622) counts UNDONE as restored, but
the undo is what changed the document.  *Slot wedged.*
`_expire_entry_locked` answers first, cancels the audit action second and frees
the slot third (487-498).  If the cancellation raises, the slot keeps the
answered request, and after that entry is evicted nobody can free it.  *Rolled back without
rollback.*  The executor counts a call only when its handler has returned
(plan_service.py:255), and undoes and verifies only when some call was counted
(281).  A first handler that raises after its commit therefore ends as
ROLLED_BACK with its change in the document; from the second call on the
verification notices (`RollbackIsVerified`).  *Session race.*  `clear()` is to
remove a record "without deleting a newer session" (session.py:117), but between
its check that no file was published meanwhile (141) and its `os.replace` (142),
which overwrites, another process may publish; the older record then replaces the
newer one, whose bridge clients no longer find.  `UncrossedSessionKept` covers all
orders without such a crossing, with what two failures can add: the record of a start
that failed after its `os.replace`, and no record when one aside was not put back.

## 4. Proofs

The theorems hold for every set of identifiers, workers, plans, documents, objects,
contents and dimensions and for every limit, under the ASSUMEs of the modules.  Disk
failures, retention and handlers that raise late are included unless a theorem says
otherwise; three provisos occur, each in the statement of the theorem that needs it:

* `RetentionSuffices` (of either dispatcher): as many audit files are kept as there are
  identifiers or plans.  The code keeps 1000 per session (`audit/store.py`) and answers
  to 512 requests.
* `AuditMayFail = FALSE`: an audit save raises only when the store refuses a revision.
* `LateRaise = FALSE`: a handler that raises has not committed.

### Operators

`AuditTrailProofs` shows that every operator on trails returns a trail, and which of
its files it may change; the proofs about both dispatchers rest on it.

### The request dispatcher

* `BridgeDispatcherProofs`, no proviso.  `IInv` = `TypeOK`, a table whose entries are
  consistent (`TableOK`: an executing or claimed entry has the answer it should have),
  the GUI's carried answer is known, and `MutationKeepsSlot`.  Types and slot need each
  other: the sweep keeps the slot because an executing entry does not expire, and an
  executing mutation's answer stays `pending_confirmation` because only a waiter can
  expire an executing entry and nobody waits for a mutation.  From it `TypeCorrect`,
  `SlotKept` (`MutationKeepsSlot`), `AnswersStayFinal` (an action property, from one
  lemma per action) and `OrderCorrect` (eviction and insertion keep the order list and
  the table equal and bounded, from lemmas on `RemoveAt` and `Append`).
* `BridgeAuditProofs`, under `RetentionSuffices`.  Every action of the dispatcher does
  one of a dozen things to each request - nothing, admit it, answer it, forget it,
  approve it, save its outcome, ... (`Moves`) - and one lemma per action says which.
  The rest of the argument goes by the cases of `Moves` instead of by the actions.
  `RunInv` says where an unanswered request is (`Accounted`: in the queue, in the slot or
  in the GUI thread's hands, which works on a read only while the slot is free), that a
  handler started at most once per identifier and before its answer only under the GUI
  thread's eyes (`RunsOnce`), and that a withdrawn request changed nothing
  (`ChangesNothing`).  It gives `NobodyStranded`
  (`NoRequestStranded`), `ExecutionIsExclusive` (`ExclusiveExecution`),
  `HandlersRunOnce` (`AtMostOnce`) and `WithdrawnChangesNothing`
  (`NegativeVerdictChangesNothing`), although saves fail.  `FileInv` adds how far the
  service's record may be behind its file (`Filed`, `GuiFiled`); it gives `FilesAdvance`
  (`AuditFilesAdvance`) and `ImplementsContract`: `BridgeDispatcher` implements
  `RequestContract` (`KeepsContract`), each case of `Moves` being one step of the
  contract or a stutter.  Retention is needed: with a table of one and one file kept, a
  request whose cancellation raised keeps the slot, is evicted, its file is pruned, and
  its identifier comes back as a read which is then executed beside the slot's.
* `BridgeReliableProofs`, under `Reliable` (`RetentionSuffices` and no failing saves).
  `ReliableInv` adds that service and disk agree except between the GUI thread's save
  and its being remembered (`GuiSettled`), that files say what clients were told
  (`Settled`), and that the slot holds an unanswered request (`SlotPends`).  It gives
  `SlotIsPending` (`SlotHoldsPendingMutation`), `SafeStateIsTrue` (`HonestSafeState`)
  and `FilesTellAnswers` (`AuditAgreesWithAnswers`).  The first two are false when saves
  fail: these are the findings `slot_wedged` and `undo_safe_state`.

### Composite plans

* `PlanDispatcherProofs`.  `IInv`: the GUI thread works on the plan in the slot
  (`GuiHoldsSlot`), a plan about to start is waiting unless a client has cancelled it
  meanwhile (`StartIsWaiting`: the status was read in an earlier step, and the cancel
  mark is what the start looks at again), and a plan has status RUNNING exactly while
  the executor has not settled its end (`RunsWhileExecuted`).  From it `SlotIsExclusive`
  (`RunningHoldsSlot`) and `EndsAreFinal` (`EndIsFinal`).  `DInv` keeps the executor's
  books: before the checks nothing is counted (`BlankBefore`), while calling, undoing
  and after the settlement the document is what it was at the start plus the
  transactions counted (`WhileCalling`, `WhileUndoing`, `WhenSettled`, `BooksAddUp`),
  and the status that will be told is the one the ending deserves (`ToldByEnding`).
  From both `RollbacksAreVerified` (`RollbackIsVerified`), `PlansApplyOnTheirBase`
  (`AppliedOnItsBase`) and `EvidenceIsComplete` (`EvidenceAddsUp`) without proviso, and,
  when no handler raises late, `StatusIsTrue` (`StatusTellsDocument`) and
  `ImplementsContract`: `PlanDispatcher` implements `PlanContract`
  (`KeepsPlanContract`).  With late raises the first is false, which is the finding
  `plan_late_raise`.
* `PlanAuditProofs`.  `RInv` (the trail is one, remembered responses are true) gives
  `TypeCorrect`, `AnswersStayTrue` (`ToldStaysTrue`) and, for a single step,
  `ApprovedBeforeRunning` (`StartsNeedApproval`), all without proviso.  `AInv`, without
  failing saves and with retention, follows each plan's file (`Filed`: it says what the
  status says, except while the GUI thread is about to save the end) and where a waiting
  plan is (`QueueIsSet`, `Placed`: queued once, in the slot, or among those `close` is
  about to end); it gives
  `WaitingPlansAreKept` (`NoPlanLost`), `SlotIsDecided` (`SlotCanBeDecided`) and
  `AuditFilesAgree` (`AuditAgreesWithStatus`).

### The contracts

`ContractProofs`: `ContractIsAllOrNothing` and `ContractTellsWhatRan`, what a client may
conclude from an answer.  With the two refinements above they hold of the dispatchers.

### The adapter

The modules share nothing, so each has an invariant of its own in `AdapterProofs`.

* `CadModel`: `WhatWasBuiltOnStays` (`ConstructionHolds`).  `SoundModel` says that
  `objects` is a table of well-typed objects (`IsTable`) whose links lead to objects of
  the table and in which only parameter sets, themselves bound to nothing, drive others
  (`Linked`): one round of recomputation therefore settles every expression
  (`RecomputeSettles`), and a deletion is refused while a link leads to the object.
* `CadTransactions`: `TransactionsTyped` and `UndoIsExact` (`UndisturbedUndoIsExact`).
  The property alone is not inductive: `StacksAgree` says that, while nothing was
  disturbed, the remembered counts and the undo stack are two views of one history -
  one document has entries (`OneStack`), counts never fall (`CountsGrow`) and pass the
  stack by one at most (`CountsReach`), the last transaction remembered with a count is
  the entry it points at (`RememberedAreEntries`), and no entry of TALOS's is forgotten
  (`EntriesAreRemembered`) - so the search by count finds the entry on top or none.  What
  an undo that raised took back is above the stack, or hidden behind a later transaction
  with its count (`RaisedUndoKeeps`, `EditKeeps`).
* `ContextTracker`: `CompletedIsOneState` (`CompletedInspectionSawOneState`).  The
  revision of a document only grows, and an observation that sees something else raises
  it; `FirstTokenHolds` says that while a client inspects, either its first token's
  revision still stands and nobody has seen anything else, or the last token will differ
  from the first.  `PagesAreAllObjects` (`PagesAreTheDocument`): as long as every page
  carried the first token, what was collected is the first `cursor` objects in the order
  of their names (`PagesAgree`), from lemmas that the objects of a finite document can be
  listed in order in exactly one way (`InOrder`).
* `SessionFile`: `NewestSessionKept` (`UncrossedSessionKept`).  `RecordsAreCurrent`: until
  a publication crosses, every record in the file or in someone's hands is the newest
  session's or a spoiled one's, and one of them is in the file or will be put back,
  unless it was lost.
* `ViewCapture`: `ViewIsGivenBack` (`ViewGivenBack`).  `CaptureInv` says for every step
  of a capture what of the user's view is already changed, what is kept to put it back
  (`SectionKept`, `GivenBack`, `OverlaysBack`), which pictures exist (`PicturesKept`), and
  that the last answer said so (`SaidIsTrue`), whichever calls into FreeCAD raise.
* `MechanicalParts`: `PartsFit` (`AcceptedPartsFit`).  One lemma per tool: from the
  inequalities the tool accepts follows the geometry of the part it lays out.  `CagedFits`
  is what the rolling bearings share: races and cage apart, elements clear of both, posts
  thinner than the gap they stand in.  Chords are bounded from the arc the ball bearing
  compares (`ArcsNearlyPart`) and from the walls of a carrier (`SixApart`); grooves and
  channels by the far corners of what is cut (`RingUncut`, `CornersInside`).
* `FeatureGeometry`: `FeaturesFit` (`AcceptedFeaturesFit`).  One lemma per tool again.
  Drills of one length either all miss or the one that was found to cut opens on both
  faces (`DrillsOpen`).
  Instances of a circular pattern are distinct because a step of the quotient is at least
  the divisor (`QuotientsGrow`) and the last one stays short of a full turn; the place of
  a mass centre because a weighted mean lies between the values (`MeanIsBetween`).  A
  sweep path is laid out corner by corner by a recursive function, unfolded with a
  witness (`EdgesUnfold`): what was laid out always leads up to the next move (`Leads`,
  `Reaches`), for the paths of up to three moves that the module generates.

* `SketchModel`: `IndicesHold` (`IndicesHoldUntilRenumbered`) and `ReportsTell`
  (`ReportsTellTheSketch`).  `SketchInv`: the identities of the elements are distinct and
  of those made so far (`WellMade`), so a new one is never taken for an old one.  A tool
  either leaves the elements at their indices and appends (`Steady`) or counts as a
  renumbering (`MutationKeeps`), and every sketch on the undo stack since the read still
  shows what was read (`PastShows`), so undoing back to it moves nothing; what it
  reports as added is what it appended (`AddedAreNew`, `MutationTells`).  The loop of
  `delete_sketch_constraint` and `delete_sketch_geometry` is a recursive function over
  its turns; `PlacesLeft` unfolds it, by the least turn that would break `Left`: after t
  turns from the highest index down, the elements below index n - t are where they were,
  and of those above it the ones not to be deleted.  Rectangles and outlines close by
  the arithmetic of their indices modulo their length (`RectangleTies`, `PolygonCloses`,
  `SegmentsClose`).
* `PartDesign`: `EveryFeatureIsShown` (`EveryFeatureShows`).  `DesignInv`: the tip is a
  feature of its body (`TipIsLast`), every feature but the tip has one follower
  (`Chained`), and an item is built of earlier ones of its body (`BuiltOfEarlier`), so
  nothing can follow a feature that is only being made.

### Only model-checked

`CallsReturn`, `RequestsSettle`, `SlotReleased` and `EveryPlanEnds`: fairness and ENABLED
are outside the prover.  Every safety property of a passing run is proved, some of
them under the provisos above.  Where a proviso does not hold TLC is all there is:
`dispatcher_retention` asks `AtMostOnce` and `AuditFilesAdvance` with fewer files than
requests, and `undo_safe_state`, `slot_wedged` and `plan_late_raise` show what fails with
saves that raise and handlers that raise after their commit.

## 5. Plan

Done: the request dispatcher, the audit and its contract; plans and theirs; the
transaction core, context, captures, objects, sketches, PartDesign, mechanical parts
and features of the adapter; the session file; proofs of every safety property the
runs check.  Left, in this order:

1. The panel's queue of pending operations composed with both dispatchers
   (`talos_panel.py:200-300`), and the transport's shutdown.
2. Dimensions of PartDesign features and `set_sketch_datum`; bindings of sketch
   constraints.
3. Proofs: which of the theorems about the audit files survive failing saves, file by
   file, in place of the provisos.

## 6. Not modelled

* Audit redaction, tool selector, capabilities, expressions, recipes: stateless text
  matching and templates, where the characters are the behaviour.
* Single-call plans of the chat panel (`orchestration/plans.py`): the same grant,
  approval and transaction as a composite plan of one call.
* Tool registry, catalog, results and schema validation, MCP server, application
  wiring and runtime, workbench entry points, scripts: declarations and wiring; the
  calls they pass on are the actions above.
* Telemetry and the evaluation benchmark: counters nobody else reads, and offline
  scoring.
* Of the audit: retention by age and session, chat turns, export bundles.  Of the
  transport: framing, authentication and shutdown.  Of the panel: its own queue.  Of
  documents: saving and exporting, which write one file through a partial one.
* Of the adapter: what FreeCAD computes - booleans, fillets, sweeps, the solver - is
  any result the code accepts; plain readers (details, distances, dependencies) have
  no state; a reference that is one object's name and another's label resolves to the
  first, as the code does, and whether the user meant the other one is not asked.

`PROJECT.json` lists every part with its status and the hazards no property covers
yet.
