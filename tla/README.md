# Verification of django-pydantic-agent

TLA+ models of the stateful parts of `django_pydantic_agent`, TLC runs that
check them on small instances, and theorems checked by TLAPS for every value of
the constants. Paths below are relative to the package,
`src/django_pydantic_agent/`, unless they begin with `docs/` or `tests/`.

## Inventory

The package is the Django-side substrate of an agent server: persistence
(conversations, attachments, memory, step records) behind small store protocols,
the policies wrapped around every tool call, a tool registry, and bridges to
drf-mcp. Django requests and management commands run concurrently over one
database and one file storage; tool calls of one agent run are asyncio tasks.

| Component | State it keeps | Operations | What is hard | What makes it correct |
| --- | --- | --- | --- | --- |
| Memory store (`contrib/store/default_memory_store.py`) | `StoredMemory` and `StoredMemoryOperation` rows | `write`, `delete` under compare-and-set with an idempotency receipt; `purge`; reads | concurrent transactions, retries, a purge beside writes, ceilings | atomic compare-and-set, one effect per operation id, no ABA, ceilings, ownership |
| Attachment store (`contrib/store/default_attachment_store.py`, `contrib/store/utils.py`) | `StoredAttachment` rows, bytes in a Django `Storage` | upload with deduplication, delete with shared bytes, preview; prune and backfill commands | two stores without a common transaction, lost blobs, crashes | bytes shared only by twins of one owner, bytes kept while a row needs them and reclaimed after |
| Conversation store (`contrib/store/default_conversation_store.py`, `contrib/store/reconcile_conversation_attachments.py`) | `StoredConversation` rows, `ConversationAttachment` links | save and reconcile, delete and cascade; strip command | several transactions per save, foreign keys to rows that go away | links within one owner, links describe the messages, nothing referenced is collected |
| Step store (`contrib/store/default_step_store.py`) | runs, step events, snapshots, tool effects | upserts, appends, latest snapshot, unresolved effects | order of concurrent appends | the newest complete snapshot wins, owner partition |
| Audit (`policy/audit/`) | one execution record per asyncio task | four hooks around a tool call | hook order differs between pydantic-ai releases, reruns, nested runs | one record per execution, describing the tool's own |
| Failure policy (`policy/failure/`), guard (`policy/guard/`) | none; configuration | convert an exception; hold a destructive call | order relative to audit and to each other | a failure it is handed reaches the model as configured; tools known to mutate wait for approval |
| Agent assembly (`agent/`) | none; composes capabilities and toolsets | `build_agent`, catalog, attachment toolset | order of composition | audit innermost, catalog agrees with what is callable |
| Registry (`registry/`) | the registered tools | register, bind, call | binding of arguments to parameters | what is advertised can be called, under the name the rest of the agent knows |
| Scoped and session stores (`persistence/`) | a key prefix; the session dictionary | the store protocol, restricted | key collisions; read-modify-write of a whole session | scopes are disjoint |
| drf-mcp and spec bridges (`integrations/`) | per-run advertised names | list and call tools for a user | a call to a name advertised earlier | only advertised tools are called |
| Authorization (`utils.py`) | none | `authorize`, `aauthorize`, `acall_get_user` | sync and async callables | the first refusal decides |

The components interact through the store protocols (the attachment toolset and
the transports call the stores), through two database relations (links, and rows
that share a blob), and through pydantic-ai's capability hooks. pydantic-ai, the
harness, Django's ORM and `Storage`, sessions and drf-mcp are external and are
modelled, where needed, by how the package uses them.

## Plan

Most important behaviour first: what can lose or leak a user's data, then what
can act without the user's leave, then what the record of it says.

1. `MemoryStore` against `VersionedFiles`, with its safety and the refinement
   proved. **Done.**
2. `AttachmentStore` and `ConversationStore`, which composes it. **Modelled, checked
   and proved.**
3. `ToolCall`: the hooks of audit, failure policy and the project's own
   capabilities around nested calls, for both hook orders. **Modelled, checked and
   proved.**
4. `StepStore`, and `SessionStore` behind its scopes against `MountedThreads`.
   **Modelled, checked and proved.**
5. `AgentRun`, composing `ToolRegistry`, `DRFMCPToolset`, the guard, the catalog
   and the gates. **Modelled, checked and proved.**
6. Left to model: titles, previews and rename of the default conversation store,
   and the reads of the attachment toolset.
7. Left to prove: nothing a run checks but `EveryCallEnds`. What could still be
   said is about the bridges alone, say that what `CallTool` answers is a function
   of the server's answer and the advertised names.

## Modules

| Module | Models |
| --- | --- |
| `VersionedFiles` | What the memory store promises: requests answered in one atomic step. |
| `MemoryStore` | `write`, `delete` and `purge`, one action per SQL statement. |
| `MemoryStoreProperties` | Their properties and the refinement mapping. |
| `MemoryStoreProofs` | The inductive invariant and the safety theorems. |
| `MemoryStoreRefinement` | The proofs that `MemoryStore` implements `VersionedFiles`, and about its ceilings. |
| `AttachmentStore` | Upload and deletion over rows and blobs. |
| `ConversationStore` | Extends it with conversations, links and the commands. |
| `ConversationStoreProperties` | The properties of both. |
| `ConversationStoreProofs` | Their inductive invariant, and what holds however operations interleave. |
| `ConversationStoreAlone` | What holds besides with one operation at a time. |
| `ToolCall` | One tool call, and those its tool makes, through the chain of capabilities. |
| `ToolCallProperties` | What audit and the failure policy promise of it. |
| `ToolCallProofs` | The proof that they keep it, for any chain and both hook orders. |
| `StepStore`, `StepStoreProperties` | The four tables of the step store under the harness's calls; what a resumed run may rely on. |
| `StepStoreProofs` | Its inductive invariant and the proofs of its properties. |
| `MountedThreads` | What endpoints that share a session store may expect: a store each. |
| `SessionStore`, `SessionStoreProperties` | The session store behind the scoped one; the refinement mapping to `MountedThreads`. |
| `SessionStoreProofs` | The proof that one dictionary with prefixed keys implements `MountedThreads`. |
| `ToolRegistry` | Schema and binding of a registered tool's parameters (operators). |
| `DRFMCPToolset` | How the bridge maps what the server answers (operators). |
| `AgentRun`, `AgentRunProperties` | The tools of a run from all sources: offered, guarded, deferred, called. |
| `AgentRunProofs` | The proofs of all its properties. |
| `MCMemory`, `MCStore`, `MCToolCall`, `MCStepStore`, `MCSessionStore`, `MCAgentRun` | Instances for TLC. |

A definition whose name ends in `Slip` is a plausible mistake in the definition
that follows it. The specifications do not use it; putting it in place of that
definition makes TLC find the property named beside it in `PROJECT.json`
violated, which shows that the property depends on that line of the code.

### MemoryStore

`memory` and `receipts` are the two tables, as committed. `txn[w]` is the
`transaction.atomic()` block a worker is in: the arguments of the call, the row
`select_for_update` returned, and how far the block has come. The actions follow
`_write` and `_delete`: `Call`, then the receipt lookup (`Replay`,
`RefuseReusedId`, `NoReceiptFound`), the locking read with its compare
(`SelectForUpdate`, `RefuseStale`), the ceilings (`CountFiles`, `SumChars`), the
statement itself (`CreateRow`, `CreateCollides`, `UpdateRow`, `DeleteRow`), the
receipt (`Record`) and `Commit`. `Abort` may roll back at any point. A purge is
two actions.

The database is modelled at READ COMMITTED, which is what Django opens on a
server database unless told otherwise. A row returned by `select_for_update` is
locked until the transaction ends; a read that finds no row locks nothing; an
insert waits for the uncommitted insert of the same unique key and then fails if
the key is taken. On SQLite, where writers are serialised, fewer interleavings
are possible. `uuid4` never repeats: versions are numbered in the order drawn.
`shown` remembers the versions a caller may know. A worker of a refused anonymous
request keeps nothing (`UnpersistedWrite`).

What is left out: the text of files beyond its length and whether it holds a
fence tag, the length check of a path, and the reads, which change nothing.

### AttachmentStore and ConversationStore

None of these operations runs in a transaction of its own, so every query and
every storage call is an action. An upload is `Upload`, `FindTwins`, `Probe`
(one `exists` per name), `WriteBlob` if no twin has live bytes, `InsertRow`.
`delete_attachments` is the loop `DeleteRow`, `CheckShared`, `DeleteBlob`,
entered by `Remove`, by the cascade of a deleted conversation and by the prune
command. A save is `Save`, `GetConversation` or `CreateConversation`,
`UpdateMessages`, `Resolve`, and the transaction of `attachments.set`
(`ReadLinks`, `FindMissing`, `SetLinks`), whose insert fails when a row it
points to is gone or another save has made the same link. Deleting a thread is
`Drop`, `CollectReferenced`, `EraseConversation`, `SelectOrphans` and the loop.
Backfill and strip are a read and a write each.

A file's bytes are its digest. Messages are the attachment ids they quote and
whether they hold inline bytes. `rows[i].holds` and `issued` are history
variables. `LoseBlob` is storage losing bytes, between operations; `Crash` ends
an operation where it is. Names, MIME types, sizes, titles, previews and the
order in which candidate names are probed are left out.

### ToolCall

`Chain` is what `build_agent` composes, outermost first, as `agent_factory.py`
orders it: the failure policy, the project's capabilities of each tier, audit.
`pc[c]` is the hook a call is at: a phase and a place in the chain. Phases run
inward (`before`, `wrap`) or outward (`error`, `after`, `unwrap`), and `Past` and
`Handles` say which phase follows. That order belongs to pydantic-ai and is
external: up to 2.53 the `before`, `after` and `error` hooks enclose the wrappers,
from 2.54 the wrappers enclose them. `hooksInside` picks either, since the code
supports both.

The state audit itself keeps is `context` (the context variable of the asyncio
task; `Start` copies the creator's), `exec` (the `_Execution` objects), `token`
(what the wrapper resets) and `records` (what the sink got). `AuditWraps`,
`AuditBefore`, `AuditHook` and `AuditUnwraps` are its four overridden methods,
the wrapper split where it awaits its handler; `Current`, `Fresh`, `Begin`, `Settle`
and `DidNotExecute` are its helpers. `PolicyFails` is the only method
`ToolFailurePolicy` overrides. `runs` is a history variable: what the tool was
really given and what came of it, next to which `records` is judged.

The actions `Other*` give each other capability every freedom a hook has: pass,
rewrite the arguments or the result, answer without calling the rest of the
chain, recover, run the call again, and in every hook raise an exception of its own.
Exceptions are of six kinds: an ordinary error, a denial of access, the two
answers for the model (`ModelRetry`, `ToolFailed`), `SkipToolExecution`, and a
deferral. Those a hook may raise around call `c` are `Raises[c]`, those `c`'s tool may
raise `ToolRaises[c]`; the theorems are for all of them. What becomes of one is
pydantic-ai's order again:

* before 2.54 the error hooks enclose the wrappers, so a failure a wrapper raises
  reaches the policy even after the tool has succeeded, and is converted into a
  failed result; from 2.54 it ends the run;
* a failure of a result hook ends the run, under either order;
* one of `before_tool_execute` either ends the run or is handed to the error hooks:
  nothing in the package says which, so both are allowed;
* what an error hook raises in place of the exception it was handed goes to the
  next one and in the end to the policy, which converts it too, a veto or a
  deferral included, unless it is an answer for the model or exempt.

An outcome is its kind, its author, the hook and entry of the chain it came from,
and the exception it was raised `from`; time is the number of other capabilities'
hooks that have run, so that a record's duration can be compared with the tool's own,
zero. A tool whose `ModelRetry` comes when its retries are spent raises an ordinary
error. Left out: a sink that raises, cancellation, the client's address, redaction
and the wording of converted failures.

### StepStore

`storedRuns`, `storedEvents`, `storedSnapshots` and `storedEffects` are the four
tables, the appended ones in the order of their ids; the operators `RunsOf`,
`LastListed`, `ListEvents`, `LatestSnapshot` and `Unresolved` are the reads.
`RegisterRun`, `AppendEvent`, `SaveSnapshot` and `RecordToolEffect` are the
writes; a store without an owner writes nothing. The order in which they are
called is the harness's (external, as the protocol's docstrings state it): a
call's effect is recorded `started`, the tool acts (`RunTool`), the effect is recorded
`completed` or `failed`. `Crash` ends a process between any two calls, and a
run whose process is gone may be registered again, by its owner, under the same
id; so may another owner's run, ids being the harness's and the model's. `landed`,
`boundary`, `appended` and `latest` are history variables. Payloads, parent
runs, statuses and the optional filters of `list_runs` are left out.

### SessionStore

`stored` is the session backend, `held[w]` the copy of a session that Django
loads once for a request. `Save`, `Delete` and `Rename` are `_save`, `_delete` and
`_rename` on that copy, under the key `ScopedConversationStore` makes; `Respond`
is `SessionMiddleware` writing a modified session back as a whole, `Fail` a
request that ended in a server error, which writes nothing (both external). A
string is the sequence of its parts between colons, so that `Key` is
concatenation and a thread id may hold colons, which is all the partition
turns on. `List`, `HasPrefix` and `Unkey` are the scoped store's own.

`MountedThreads` has the whole-session write-back too: that one of two
overlapping requests loses its change is the session's nature, not the store's. What
it does not have is keys; each mount simply has its own threads.

### AgentRun, ToolRegistry, DRFMCPToolset

`Register` and `BuildAgent` run at start-up. A registry tool has two names.
`build_agent` passes on the bare functions, so pydantic-ai offers the tool under
the function's name (`agent.functions`, `RegistryTools`); the guard, the catalog and
the names other sources leave out go by the name it is registered under
(`agent.names`, `agent.destructive`). `@tool(name=...)` makes the two differ.

`Arrive` is a request `aauthorize` lets through (`Deny`), carrying the approvals
of calls deferred earlier. Its user is any the `get_user` hook or the middleware
may have established, an anonymous one and none included.

In each step pydantic-ai asks for the tools and for the instructions, in
either order: `GetTools` is `DRFMCPToolset.get_tools` together with the other
toolsets and `ToolGuard.prepare_tools`, `GetInstructions` the bridge's notice of
tools that are unavailable; the definitions are listed once per run
(`LoadToolDefs`), availability is asked each time. The server's conditions and
permissions flip at any moment. `Defer`, `Execute` and `CallServer` are the
model's calls, `Answers` every answer the server may give, and `CallTool` (in
`DRFMCPToolset`) what the bridge makes of it: a result, a retry, a failure or
the end of the run. Where two toolsets put one name before the model, pydantic-ai
raises `UserError` and the run ends (`NamesClash`). `RequiresApproval` and
`DeclaresAMutation` are the guard's test over the vocabularies of the four sources: the registry's destructive names,
the server's and the specs' hints, a toolset's stamp.

A text is the set of names it says, a detail the set of its leaves, and an
argument who supplied it. External: pydantic-ai's step, deferral of an `unapproved`
tool and its resumption; drf-mcp's enforcement of conditions and permissions at the
call; the transport, which passes the names of one source to the next as
exclusions (`ServerExcludes`, `SpecsExclude`). Of the registry's it is taken to
pass the names registered, which are all that the registry and the catalog can name.

`MutationsAreApproved`, `SourcesKeepApart` and `CardsNameTheToolThatRuns` state how
far the guard's, the exclusions' and the catalog's promises reach: to every tool but a
registry tool whose function has another name (`Renamed`). The instance has two
such mutations. Nobody is asked before `shut`, and `post`, which `RequireApproval`
names by its function's name, is held.

`AdvertisedArgumentsBind` is likewise stated in two halves: what the schema lets the
model send binds if no positional-only parameter is among it, and no call binds of a
tool that must be given one.

## Runs

| Run | Shows | Bounds |
| --- | --- | --- |
| `memory` | All safety of concurrent calls, and the refinement `Promise` | 2 workers, 1 owner, 3 files, 1 content, 1 operation id, 3 versions, one file allowed |
| `memory_request` | Ownership in request mode, both ceilings for one caller | a user and an anonymous caller, 3 files, contents with a fence tag, 4 versions |
| `memory_progress` | Every call ends | 2 workers, 2 files, 1 id, 2 versions |
| `store_blobs` | Sharing and reclaiming of bytes | 2 workers, 2 owners, 3 ids of which one legacy, 2 contents |
| `store_links` | Links across owners, deletions, re-creation and crashes | 2 workers, 2 owners, 2 ids, 2 conversation rows |
| `store_alone` | Everything one operation at a time, with crashes and lost blobs | 1 worker, 2 ids of which one legacy, 2 threads |
| `store_race_bytes` | A documented claim concurrency breaks | 2 workers, 2 ids |
| `tool_call` | One record per run of the tool, conversion last, failures contained | a call whose tool makes another one; the outer one entered twice; a recorder outside, a guardrail beside audit; around the outer call hooks raise errors, retries and skips, and its tool raises anything it can; around the inner one hooks raise retries, its tool errors and deferrals; both hook orders |
| `step_store` | Effects, events, listing and resumption | 2 workers, 2 owners and anonymous requests, 2 run ids, 1 call id, crashes, 3 starts, 2 snapshots, 1 event |
| `session` | The refinement `Partition`, and limited lists | 2 workers, 2 sessions, scopes `a`, `b` and the refused `a:b`, thread ids `t` and `b:t`, 2 saves |
| `session_rename` | A comment the code contradicts | 1 worker, 1 session, 3 saves |
| `agent_run` | Approval, offers, clashes, cards, retries and binding | a user, an anonymous one and none; 5 registry tools of which three bear another name than their function, two mutations among them; 3 server, 2 spec and 2 project tools whose names collide; 1 conditional and 1 restricted tool; 1 call waiting at a time |

Two workers are enough for each pairwise race; a purge is a third actor of its
own. Two rows are the least that share bytes, a third lets one survive outside
the set deleted. Three versions let a file be created, deleted and created again
while a stale caller waits; three files exceed a ceiling of one by more than the
overshoot allowed. One content suffices where only identity matters; the runs
about lengths and digests have several. In `tool_call` the inner call starts inside
the outer tool, so audit meets a context that is another call's, and the outer
call is entered twice, so it meets its own earlier execution; an error, a retry and a
skip are one of each way an exception is treated, and the policy exempts the denial,
which the tool raises. In `step_store`
three starts let a run be resumed after another was started, and two snapshots
put an interrupted or a foreign one after a boundary. With thread `b:t`, scopes
`a` and `a:b` would share a key; that is why the second is refused. In
`agent_run` one waiting call suffices because approvals are per name. `VersionBound`, `PkBound`, `MaxEntries`,
`MaxSnapshots`, `MaxEvents`, `MaxStarts`, `MaxTime` and `MaxWaiting` cap what is
minted or repeated, in the guards of the actions that mint.

Deadlock is not checked in the `MCStore` runs, where a state in which every id
is used up has no next step, in `tool_call`, where every call ends, and in
`step_store`, where the bounded starts run out. It is checked in the others: in
`agent_run` a request, once let in, can always be brought to an end.

The fairness of `memory_progress` is strong fairness of a call's statements:
a database grants a contended lock to its waiters in turn, so a statement that
is possible again and again is run. Calls, aborts and purges are not fair.

No fairness is stated elsewhere: a request may stop at any await, and what must
not happen then is what those runs are about.

## Where the documentation says more than the code does

Two runs whose expected result is a violation exhibit, in a trace of a few steps:

* `store_race_bytes`: an upload can adopt bytes a deletion is about to take, and
  is left with a row and no bytes (`contrib/store/default_attachment_store.py:74`).
* `session_rename`: the save after a rename starts a new entry and drops the
  chosen title (`persistence/django_session_conversation_store.py:95`).

These were met while modelling and have no run of their own. The first six are
of the same two patterns, a check and a statement apart, and a read and a write
apart:

* `max_files` is checked by a count without a lock; two concurrent creates exceed
  it (`docs/storage.md:439`). `OvershootIsBounded` is what does hold.
* `purge` is two statements, not one (`docs/storage.md:466`).
* The prune command deletes candidates that became referenced since it listed them.
* An attachment deleted during a save can make it raise, whereas
  `reconcile_conversation_attachments.py:30` expects such ids to be dropped.
* The strip command can write back messages that a save has replaced.
* Two saves of a thread can leave the messages of one with the links of the other.
* A store without a request keys its rows on the leading path segment, whereas
  `agent_store_purge_memory.py:20` calls the owner "the user's pk".
* A destructive registry tool whose function has another name runs unapproved, unless
  `require_approval` has the function's name. The repository's `README.md:10` and
  `docs/moving.md:88` say so, as a known defect; `agent/agent_factory.py:41`,
  `policy/guard/tool_guard.py:31` and `registry/types/tool_spec.py:19` ("exposed to
  the agent") do not. Besides the guard, the card of such a tool, and the exclusions
  that are to keep a run from ending by a duplicate name
  (`integrations/drf_mcp.py:83`, `integrations/build_spec_capability.py:57`), do not
  know the name it is offered by.
* A positional-only parameter is advertised, and required if it has no default
  (`registry/build_input_schema.py:50`), but `Signature.bind` takes none by keyword
  (`registry/tool_registry.py:116`): such a tool can be registered and not called.

With one operation at a time (`store_alone`) all of the attachment claims hold;
`OwnerIsTheUser` is checked in request mode.

## Proofs

### Memory store

Proved for any finite sets of workers, owners and paths, and any contents,
operation ids, ceilings and bounds; in `MemoryStoreProofs`:

* `TypeCorrect`: `Spec => []TypeOK`
* `LocksHold`: `Spec => []LockedRowIsCurrent`
* `ReceiptsMatchRows`: `Spec => []RowHasItsReceipt`
* `RetriesAgree`: `Spec => []AnswersAgree`
* `NoABA`: `Spec => VersionsNeverReturn`

in `MemoryStoreRefinement`:

* `OwnersAreUsers`: `Spec => []OwnerIsTheUser`, if the store is request-bound
* `Implements`: `Spec => Promise`, that is, `MemoryStore` implements `VersionedFiles`
* `OvershootBound`: `Spec => []OvershootIsBounded`, if there is a worker
* `CeilingsHold`: `Spec => []WithinCeilings`, if at most one worker is ever let in
  (`OneCaller`)

The first five follow from one inductive invariant, `IInv`, the conjunction of the type
invariant with what the checked properties leave implicit: what a worker holds
at each statement of its block (the compare has passed, a version drawn is above
every version shown or stored), that at most one worker has staged a given row
or receipt, and that an answer given under an id is the receipt's. The staged
writer's exclusiveness is what makes `Commit` preserve the properties:
`LockedRowIsCurrent` alone is not inductive, since a row could be created under
a worker that locked nothing. The step lemma splits on the actions; those that
only move one worker share `QuietStep` and `LeaveStep`.

The refinement needs three facts more (`RInv`): a call past its compare holds
the version it expected, so that the abstract compare still succeeds when the
transaction commits; every write under way has a version left below the bound;
and calls and rows carry the owner `_owner` answers. Each action then maps to an
abstract one: `Call` to `Ask`, a statement that ends the call without committing
to `AnswerOnly`, `Commit` to `Write`, `Delete` or `NoteAbsent`, the two halves of
a purge to `ForgetReceipts` and `ForgetFiles`, and every other statement to a
stutter.

`OvershootIsBounded` is not inductive either. What is bounded is `Claimed`: the
files of an owner together with the keys that calls past their count may yet
create. Only `CountFiles` adds to it, and it has just counted at most
`MaxFiles - 1` other files, to which each other worker adds at most one key.

For `WithinCeilings` the invariant (`Fits`) says that what the two checks have
established is still true when the call commits; with two callers it is not, and
`OvershootIsBounded` is all that is left. The total of the lengths is a fold
(`Chars`), so nothing about it follows by expanding definitions. The section on
counting characters proves that the fold's recursion has a solution (`SumsExist`),
that files may be added up in any order (`SumsInAnyOrder`), and that the total
depends on no other rows (`SumsAgree`). Each is an induction, done without an
induction theorem: take a smallest set, by inclusion, for which the claim fails
(`LeastSet`, from the well-foundedness of the subset order), and remove an element.
Counting the content before it is escaped breaks the step of `SumChars`.

The assumptions are the `ASSUME`s of `MemoryStore` and `MemoryStoreProperties`:
sentinels are not values, the mode is one of the two, the key sets are finite,
and escaping is idempotent with natural lengths. Changing the code's model
breaks the proofs: without the operation id in `MemoryAfter`, for instance, the
step from `Commit` to `Write` fails.

### Step store

In `StepStoreProofs`, for any workers, owners, run ids, call ids and bounds:

* `StepTypesHold`: `Spec => []TypeOK`
* `EffectsAccounted`: `Spec => []EffectsAreAccountedFor`
* `EventsPartitioned`: `Spec => []EventsAreTheOwners`
* `LastRunIsLatest`: `Spec => []LastListedIsLatest`
* `RunsResumeAtTheBoundary`: `Spec => ResumesAtTheBoundary`

The invariant adds to the properties what they rest on. Two live requests of one
owner never serve one run (`RunsAreExclusive`), without which one request's
`completed` could overwrite the other's `started`; a tool that ran is in
`landed` (`RanHasLanded`), so that `EffectsAreAccountedFor` survives the step
from "ran" to "settled"; the newest complete snapshot is the boundary
(`BoundaryIsNewest`), which an incomplete one leaves alone; and the run an owner
registered last ranks above its others (`LatestRanksHighest`). The assumptions
are `StepStoreAssumption`: the sentinels are no owners and no runs, and the
bounds are naturals. `OwnAfterAppend` and the lemmas after it say how a read
of a table changes when a row is appended.

### Session store

In `SessionStoreProofs`, for any sessions, requests, scopes, thread ids and times:

* `DictionariesHold`: `Spec => []TypeOK`
* `MountsAreApart`: `Spec => Partition`, that is, `SessionStore` implements `MountedThreads`
* `ListsAreNewest`: `Spec => []ListsTheNewest`

All rests on `KeysDiffer`: `Key` is injective on mounts and thread ids. A
mount's scope holds no colon, so it is one part, the first of the key, and the
thread id is the rest; a thread id may hold any number of colons. With a scope
of two parts the lemma is false, and the refinement with it. Each operation of a
request then maps to the abstract `Put` on its mount, an arrival to `Open`, a
response or failure to `Close`. `SessionStoreAssumption` says that scopes and
thread ids are sequences of at least one part.

### Attachment and conversation stores

In `ConversationStoreProofs`, for any workers, owners, ids, digests and threads, any
set of operations that may crash, and storage that may lose blobs:

* `TypeCorrect`: `Spec => []TypeOK`
* `SharedBlobs`: `Spec => []SharedBlobsAreTwins`
* `Bytes`: `Spec => []BytesAreTheUploads`
* `Links`: `Spec => []LinksStayWithinOwner`
* `Reclaimed`: `Spec => []BlobsAreReclaimed`, if no operation crashes

None of these is inductive: a row, a link or a blob is written several steps after
what justified it was read, and the table says nothing of an operation half way.
The invariant (`IInv`) therefore speaks of claims. A claim on a stored name is made
by a row, and by an upload that is about to probe the name as a twin's or has chosen
it for its own row; any two claims on one name agree on owner and digest
(`ClaimsAgree`), and what the name holds is that digest or nothing (`ClaimsAreTrue`).
Names and ids are an upload's own until it has returned them (`NamesAreIssued`,
`UploadsAreNew`). What an operation read of a row some steps ago is still so if the
row is still there: the stored names of a deletion's list (`LoadedIsCurrent`), the
bytes the backfill hashed (`HashIsCurrent`), the owner of what a save resolved
(`FoundIsTheOwners`). A link joins a conversation to a row of its owner, and no two
conversations share a primary key (`LinksJoin`, `PksAreUnique`). `Reclaimed` needs
no more than this, but a crash leaves the bytes its operation had in hand; hence
the hypothesis `MayCrash = {}`, which is how `store_blobs` checks it.

In `ConversationStoreAlone`, if there is but one worker (`Alone`); crashes and lost
blobs are still there:

* `RowsKeep`: `Spec => RowsKeepTheirBytes`
* `UploadsOpen`: `Spec => UploadsAreReadable`
* `CollectorsSpare`: `Spec => CollectorsSpareReferenced`
* `ForecastIsExact`: `Spec => []PreviewIsExact`
* `LinksDescribe`: `Spec => []LinksDescribeMessages`, if no save is cut short

With two workers these are false; `store_race_bytes` shows the first of the reasons.
The invariant (`AloneInv`) says that a look is still true at the leap: an upload
about to insert has bytes at hand and a deletion about to unlink has no sharer
(`BytesAtHand`), what a deletion listed is still there and still unreferenced
(`TodoIsThere`), the blobs freed so far and those still doomed add up to the
forecast (`Foretold`). For the links (`SaveInv`), a thread whose links do not
describe its messages is one whose save is between the two, and what that save
resolved and read still stands (`SaveIsUnderWay`). A save that dies there leaves
them apart, hence the hypothesis, which `store_alone` has as well.

`AttachmentAssumption` and `ConversationAssumption` say that sentinels are not
values, that there are finitely many ids, that legacy rows have an owner, and that
a thread has one.

### Tool calls

In `ToolCallProofs`, for any calls nested in any way, any number of entries, any
capabilities of a project, with the failure policy on or off:

* `TypeCorrect`: `Spec => []TypeOK`
* `RecordIsComplete`: `Spec => []OneRecordPerRun`
* `PolicyHearsLast`: `Spec => []ConversionComesLast`
* `PolicyContains`: `Spec => []FailuresAreContained`

The invariant has three parts for each call. `LedgerOK` says, for each phase and
place in the chain, how what audit has written stands to what the tool has done: even;
one record owed, with the execution it will be written from; or waiting for a tool
not reached yet. There is one such table for each hook order, since audit's
`before` comes before its wrapper in one and after it in the other. It also says
whose execution the context variable may hold: the call's own, or, before its
wrapper has run, that of the call whose tool made it. `ExecutionsOK` says that an
execution is settled once it has taken an outcome. `OutcomesOK` says who may have
authored the outcome in each phase and, for the policy's promise, what an error hook
may be handed (`Handed`), that an outcome from the tool is its newest run's
(`IsLastRun`), what the policy's answer was made of (`Answered`), and that a failure
that gets past it comes from a hook pydantic-ai does not listen to. All of it turns on audit being the last of the
chain, next to the tool (`build_agent` orders it so): what happens between its
hooks and the tool is the tool's own.

`PolicyContains` claims for the policy what the code does and no more: of the
failures it is handed, whoever raised them, none ends the run unless it is exempt, and
what it converts was neither an answer for the model nor an exempt type. That it
answers for the tool only would be false, since it converts what a wrapper or an error
hook raised as well; what is proved of the tool's own failures is that the one converted
is the newest run's, never one an earlier entry of the chain has recovered from.

`ToolCallAssumption` says that no call makes itself, that a project's
capabilities are neither audit nor the policy, and which kinds of exception there are
(`Raises`, `ToolRaises`); `NoneAssumption` that `None` is no call, cause, outcome,
account or execution.

### Agent run

In `AgentRunProofs`, for any tools, sources, users, gates and guard configuration:

* `TypeCorrect`: `Spec => []TypeOK`
* `MutationsWait`: `Spec => []MutationsAreApproved`
* `NamesAreApart`: `Spec => []SourcesKeepApart`
* `CardsAreRight`: `Spec => []CardsNameTheToolThatRuns`
* `ToolsAreExplained`: `Spec => []OfferedOrExplained`
* `RetriesHaveNotActed`: `Spec => []RetriesAreSafe`
* `RetriesTell`: `Spec => []RetriesSayEverything`
* `ArgumentsBind`: `Spec => []AdvertisedArgumentsBind`

The invariant says that what the agent was built of is what the registry holds
(`AgentKnows`), and that no definition on offer which must be approved is plainly
executable (`OffersAreGuarded`). `GuardReads` is the heart of it: one case per
source, since each declares a mutation in a vocabulary of its own (the agent's
`destructive` names, which reach a registry tool if its function has the name too, `metadata["destructive"]` from the bridge, `mutates` from the
specs, the stamp of a project's toolset).

The other properties rest on `OInv`: what a step offers and tells is what the
server's list and conditions say (`StepOK`: offered tools bear one label each, the
catalog's, and while a step is steady offered and told add up to the list), where the
state ranges (`RangesOK`), and that the last answer was mapped by `CallTool`
(`HeardOK`), about which the lemmas on each kind of error speak. `SourcesAreLabelled`
says of each source that the catalog labels its tools after it or that their name is
contested by a project's toolset or a renamed registry tool; from it follow
`NamesAreApart`, for the definitions as they are collected, and `CardsAreRight`, for
those the guard has let through. `ArgumentsBind` is about `InputSchema` and `Bind`
alone, for signatures with parameters of all five kinds.

What is assumed: `NamesAssumption`, that no source lists a name twice (two tools of
one source under one name could differ in what they declare), for the server, the specs
and the project's toolsets (`BuildAgent` refuses two functions of one name);
`ErrorsAssumption`, that the server's request for input carries no
validation detail and a validation error requests nothing, as drf-mcp makes them;
`SignaturesAssumption`, that a signature is a sequence of named parameters whose
context parameter is not `*args`; and `AgentRunAssumption`, the ranges of the
constants.

### Only model-checked

`EveryCallEnds` of the memory store, since liveness under fairness is beyond the
prover. Every other property a run checks is a theorem.

## Not modelled

* Titles, previews, rename and the thread list of the default conversation store:
  they touch columns no other operation reads.
* `attachment_storage` chooses a Django `Storage` once, at import.
* Memory namespaces are pure functions of characters and hashes; the model takes
  from them which owner a path belongs to.
* The base classes of the model-backed stores dispatch to the stores modelled.
* The attachment toolset reads the attachment store for the model and keeps
  nothing; the model's construction and the run's settings are plain data.
* In audit: cancellation and other `BaseException`s, sinks that raise, the
  request's details. In the registry: the schema of a parameter's type, running a
  sync tool in a thread. In the gates: how a `get_user` hook, a coroutine function or
  one that returns an awaitable, is run (`acall_get_user`, `call_get_user`): a request
  has the user it gives; and the JSON of a refusal.
* Settings names, migrations, exports and packaging: nothing to check.
