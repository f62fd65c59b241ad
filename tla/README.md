# ticket2prompt: TLA+ models

ticket2prompt turns a Jira ticket into a coding prompt. It indexes a Git
repository into Postgres (symbols, call edges) and Qdrant (embeddings), indexes
the project's Jira tickets, and for a ticket retrieves, ranks and compresses code
into a prompt. A FastAPI application serves a React front end; Celery workers run
the indexing jobs; Redis carries the job queue, the job status and a cache.

This directory holds the models of that system, the TLC runs that check them and
the TLAPS proofs about them. `PROJECT.json` links every definition to the lines
it stands for, every run to its properties and every hazard to the properties
that watch it.

Run from this directory:

    tlc -workers 2 -config MCRepositoryIndex_one.cfg MCRepositoryIndex
    tlapm JiraSyncProofs.tla

## 1. Inventory

| Component | State | Operations | Talks to | What makes it correct |
|---|---|---|---|---|
| Full-index job (`workers/tasks.py`, `indexing/monorepo_indexer.py`) | the attempt's position, the module it works on | clone, delete the old index, index each module, retry | Git, Postgres, Qdrant, Redis, broker | the index left behind is one commit, in every store, each edge once; a retry, redelivery or second job never damages a finished index |
| Repository clone (`indexing/repo_cloner.py`) | `clone_base_dir/org/project` on the worker's disk | `clone_repo`, `cleanup_repo` | Git remote | the tree that is read is complete and of the commit asked for |
| Module detection and symbol extraction (`indexing/module_detector.py`, `file_filter.py`, `symbol_extractor.py`, `graph_builder.py`) | none | walk the tree, name modules, traverse syntax trees, link calls | clone | a file has one module; each symbol one row and one vector; edges are calls |
| Code stores (`storage/postgres.py`, `storage/qdrant_client.py`) | `symbols`, `graph_edges`, points with a `project_id` payload | batch upsert, delete by project, search | – | rows, points and edges of one project agree; one project's writes never reach another |
| Project CRUD (`api/routes/project_routes.py`) | `projects` rows | create, update, delete (Qdrant, Postgres, cache, disk) | all stores | a deleted project leaves nothing; settings do not orphan an index |
| Job status (`api/routes/repo_routes.py`, `jira_sync_routes.py`, `tasks.py`, `ProjectDetailPage.tsx`) | one Redis key per job, the page's interval and job id | enqueue, write status, poll | Redis, broker | the status a job ends with is the status that is read; polling ends |
| Incremental index (`integrations/webhook_handlers.py`, `indexing/incremental_service.py`, `git_analysis/`) | a clone per repository | push and pull-request events, per-file delete and re-insert | clone, stores | what an event changed is in the index afterwards |
| Jira sync (`indexing/jira_indexer.py`) | `jira_tickets` rows, Jira points | fetch, upsert, embed | Jira, stores | rows and points agree; the status tells what is there |
| Accounts (`api/routes/auth_routes.py`, `org_routes.py`, `team_routes.py`, `auth/`) | users, organizations, members, teams, API keys, tokens | register, login, create, invite, check access | Postgres | access follows membership; nobody gains an organization he was not let into |
| Connection pool (`storage/postgres.py:41`) | free and lent connections | get, put | threads of the API | each connection is returned, exhaustion is handled |
| Redis cache (`storage/redis_cache.py`) | keys with expiry | get, set, sweeps by pattern | – | failures cost only the cache |
| Prompt pipeline (`workflows/`) | the pipeline state | intake, expansion, search, ranking, compression, prompt | everything above | a failed step costs only what it would have found |
| Retrieval (`retrieval/`) | none | query expansion, vector and keyword search, graph expansion, ranking | stores | least distances; the best files by score |
| Prompt budget (`prompts/`) | none | greedy compression, one retry at 80 % | – | the prompt stays within the budget |
| Front-end session (`frontend/src/contexts`) | token and user | login, restore, logout | API | a signed-out page holds no user |

How they meet. The API enqueues a Celery message and returns the task id. The
worker container runs two processes (`docker-compose.yml:89`, `--concurrency=2`)
and takes messages with late acknowledgement and a prefetch of one
(`workers/celery_app.py:8-21`). A job is a sequence of separate transactions on
separate stores; nothing locks a project. The worker writes its progress into
Redis, the API reads it there, and the project page polls the API. A ticket's
pipeline runs inside one API request, on stores a job may be rewriting.

What is hard here:

* **Interleaving.** Two jobs of one project, a job and `delete_project`, or a job
  and a prompt, use the same rows, points and directory; two registrations use
  the same address.
* **Partial failure and retry.** Any call of an attempt may raise. Three retries
  repeat it from the start over what the failed one left. Some steps collect
  their failure and go on.
* **Crash and redelivery.** A killed process or container leaves half an index and
  perhaps half a clone; a message outliving the visibility timeout is delivered
  while its first delivery is still running.
* **Ordering.** Edges are found through symbols, vectors are deleted before rows,
  the API's status write follows the enqueue it reports on, responses of
  overlapping polls arrive in any order.
* **Stale state.** A clone is never fetched; a token is believed without a look at
  the tables; a file's lines may be of another commit than its row.
* **Numeric edges.** Budgets, line ranges, pages and scores.

The hazards are listed line by line in `PROJECT.json`.

## 2. Plan

| Module | Extends, uses | State of the plan | Proofs in |
|---|---|---|---|
| `RepositoryIndex` | – | done, eight theorems | `RepositoryIndexProofs`, `ExactIndexProofs` |
| `JobStatus` | – | done, four theorems | `JobStatusProofs` |
| `JobLifecycle` | – | done: the abstract specification of a background job | – |
| `JiraSync` | implements `JobLifecycle` | done, five theorems | `JiraSyncProofs` |
| `IncrementalIndex` | – | done, checked only | – |
| `ModuleDetector`, `SymbolExtractor` | – | done: pure operators | lemmas in `SourceAnalysisProofs` |
| `SourceAnalysis` | extends the two | done, five theorems | `SourceAnalysisProofs` |
| `Retrieval`, `PromptBudget` | – | done: pure operators | lemmas in `TicketToPromptProofs` |
| `TicketToPrompt` | extends the two | done, six theorems | `TicketToPromptProofs` |
| `Accounts` | – | done, five theorems | `AccountsProofs` |

What is left to prove is named at the end of section 5.

`JobStatus` and `RepositoryIndex` do not implement `JobLifecycle`, and no mapping
would make them: a message delivered a second time gives the job a second
attempt while the first runs, and both count their own retries. `JiraSync` has
crashes but no second delivery of a living attempt: the broker's visibility
timeout is left at its default, and a sync is one search request and one batch of
embeddings long.

## 3. What is modelled

### RepositoryIndex

One module holds the job, the stores it writes and the other writer of these
stores, `delete_project`, because every property is about their interleaving.

| State | In the program |
|---|---|
| `projects` | ids of the `projects` table |
| `symbols` | `symbols` table. The id of a row is a hash of repository name, path, name and type (`symbol_extractor.py:36`), so the model's id is `<<slug, file>>`; the value is the row's `project_id` |
| `edges` | `graph_edges`: how many copies of a file's edges a project has; the table has no uniqueness |
| `points` | Qdrant collections: the `project_id` payload of each point |
| `head`, `clone`, `cloned` | the remote's newest commit; the clone directory (absent, partly written, complete) and the commit it holds |
| `queue`, `requested`, `redelivered` | broker messages (task id and retries header), tasks the API has enqueued, repeated deliveries so far |
| `pc`, `job`, `todo`, `seen`, `unsent` | each worker process: its next call, its message, the modules left, the files of the current module, those whose vectors are not sent |
| `deleting` | a `delete_project` call between the vector store and Postgres |
| `got`, `edgeCleaner`, `symbolCleaner`, `pointCleaner`, `overlap` | history, see below; no action of the program reads it |

The unit of data is a source file. Symbols, points and call edges of a file are
always written and deleted together by the full index, and call edges stay within
a file (`graph_builder.py:38-93`), so the rows of one file are one bit per store
(a count for edges).

Every store access of an attempt is an action of its own, in the order of
`tasks.py:54-104` and `monorepo_indexer.py:89-167`: `LoadProject`, `StartClone` /
`FinishClone` or `OpenClone`, `DeleteEdges`, `DeleteSymbols`, `DeleteOldPoints`,
`DetectModules`, then per module `ParseModule`, `UpsertSymbols`, `UpsertPoints`
(one request per batch), `InsertEdges`, and `Finish`. `Fail` is any call raising:
it publishes the retry or gives up. `Crash` kills a process; `Recreate` replaces
the container with its disk; `Redeliver` is the broker's visibility timeout. The
API is `RequestIndex`, `DeletePoints` and `DeleteRows`; `Push` moves the remote.

Facts the model takes from the deployment:

* API and worker containers share no volume for clones, so the directory that
  `delete_project` removes (`project_routes.py:181`) is not the worker's, and the
  model leaves that call out.
* A clone is opened whenever `.git` exists and is never fetched
  (`repo_cloner.py:31-34`); the `branch` argument changes nothing of this.
* `task_acks_late` is set and `task_reject_on_worker_lost` is not: the message of a
  killed pool child is acknowledged and lost, that of a worker that dies whole is
  delivered again. `Crash` has both outcomes.
* `symbols` and `graph_edges` have a foreign key to `projects`; Qdrant has none.

History variables. To say "the last attempt to empty this store succeeded", each
store remembers per project who last emptied it: nobody, a process that still
runs, an attempt that ended `whole` (every file of a commit parsed), `partial`
(finished with files left out), `broken` (raised or killed), or `delete_project`
(`deleted`, or `kept` when its vector call failed). `overlap[p]` is set when two
writers of `p` have ever been active together.

Left out: the pass over all symbols at the end of a job
(`detect_and_store_cross_module_deps`), which despite its docstring ("Find and
record") only counts edges and is in `SourceAnalysis`; its failure here is a `Fail`.
The text of symbols and
vectors, the status key (module `JobStatus`), the cache sweep and the Jira
collection of `delete_project`, and `clone_or_update_repo`, `delete_by_repo` and
others that no code path of the application calls.

### JobStatus

One indexing job's status from the worker to the screen. What an attempt does to
the stores is abstract here; `RepositoryIndex` has it, and has no status. The two
share the shape of the queue, the retries and the crashes.

| State | In the program |
|---|---|
| `api` | how far the POST handler of a job is: requested, enqueued, status written, answered; `refused` when nothing was enqueued |
| `queue`, `redelivered`, `pc`, `job` | as in `RepositoryIndex`; `pc` names the status an attempt has written last, `retrying` stands between that write and the publication of the retry, `ending` before the acknowledgement |
| `key` | the Redis key `org:indexing:job`, `none` when it does not exist |
| `open`, `jobId`, `shown` | the project page: mounted, its job, the status it displays |
| `timers`, `ref` | intervals that run (named by the job they poll) and `pollingRef` |
| `requests` | GETs in flight: sent, or carrying the answer the API read |
| `late` | history: jobs that were over when the API wrote its `in_progress` |

POST is `Press`, `Enqueue`, `WriteInProgress`, `Answer`, in the order of
`repo_routes.py:31-45`: the job is enqueued before its first status is written.
`Refuse` is every way in which the page gets an error. An attempt is
`ReportCloning`, `ReportParsing`, `ReportFile`, `ReportGraph`, `ReportCompleted`, or
`Raise` and `Publish`, then `Acknowledge`. A poll is `Tick`, `Serve`, `Receive`;
`Miss` is a failed one. `Leave` is the unmount.

The model follows one visit of the page: a remounted page is a new instance with
its own state and never resumes the polling of an old job. Losses are switched on
per instance by `Faults`: `outage` (a status write, a publication or a GET is
lost), `forget` (a key expires or is swept by `project_routes.py:176`), `crash` (a
pool child is killed and its message lost). Repeated delivery is always on.

Left out: counters and messages carried with the status, toasts, and the
difference between the two expiry times.

### JobLifecycle and JiraSync

`JobLifecycle` is what a background job promises: it is queued, runs, is retried at
most `MaxRetries` times and ends once, or it is lost with its worker. `JiraSync` is
the task that keeps it, with the Jira server and the deletion of the project around
it.

| State | In the program |
|---|---|
| `jira`, `recent` | the server: each ticket's version, and the order of the search result |
| `job` | an attempt's locals: position, the `page` it fetched, how many of it are `stored`, the `texts` to embed and how many are `sent`, the set `synced`, whether `errors` is not empty, whether the organization is known (`loaded`) |
| `trigger`, `status` | the POST handlers that have not answered yet, the Redis keys |
| `rows`, `points` | `jira_tickets` and the Jira collection: the version each was made from |
| `project`, `crashes`, `purged`, `alone` | the deletion; a bound; history: vectors deleted, attempts that met no other |

The steps are those of `tasks.py:117-206` and `jira_indexer.py:34-184`: `LoadProject`,
`BuildClients`, `Fetch` (one request), `StoreTicket` for each ticket, `Embed` (one
call for all texts), `UpsertBatch`, `Finish`; `Raised` writes `failed` and publishes
the retry. What `sync_project_tickets` catches becomes an error of the result, and
the job is `completed` all the same. `ParseDescription` is the split of a description at
its first heading of acceptance criteria.

Refinement: `Phase` is `running` for every position between `Take` and the end and
the position itself otherwise, `Attempts` is the retries header. `Crash` maps to
`Return` when the whole worker died and to `Lose` when its child did; everything else
inside an attempt stutters.

### IncrementalIndex

| State | In the program |
|---|---|
| `head` | the newest commit of the default branch |
| `task` | of each delivery: state, the two commits of its payload, retries, the lists of its result |
| `run` | each worker process: position, event, changes found |
| `clone` | `clone_base_dir/<repository>`: none, partly written, or the last commit it holds |
| `faults` | bound of `Crash` and `FailClone` |

`Deliver` is the webhook handler with the guards of `webhook_handlers.py`; the task is
`Take`, `OpenClone` or `StartClone` and `FinishClone`, `DetectChanges`, `OpenStores`,
`ProcessChanges`. `Diff` and `ParseDiffStatus` translate `git diff --name-status` and its
parser, which knows no `T`.

Two facts of the code make this component do nothing. `Settings` has no
`qdrant_collection_name` (`incremental_service.py:70`): `HasCollection` is FALSE in the
code, and a task with a change raises. If it were there, the calls of
`commit_analyzer.py` that write lack the organization and project their callees
require, so every file with a symbol would end in the error list. The model keeps
both, so that the first can be repaired in it by a constant. `Spec` has weak
fairness of `Work` only: the worker keeps taking and working; nothing is assumed of Git,
GitHub or the faults.

### ModuleDetector, SymbolExtractor, SourceAnalysis

`ModuleDetector` has the operators of `module_detector.py` and `file_filter.py`: which
directories are modules, which files belong to one, which are indexed.
`SymbolExtractor` has what the traversals of `symbol_extractor.py` and
`graph_builder.py` make of a syntax tree. A tree is a sequence of nodes in preorder
with a kind, a name and the number of the parent; a node's number stands for its line.

`SourceAnalysis` runs one attempt of `MonorepoIndexer.index_repository` over both,
from the files of the clone to rows, points and edges: `Detect`, `ReadFile` for each
file, `UpsertSymbolsBatch`, `UpsertEmbeddings`, `InsertEdges` for each module, and
`DetectAndStoreCrossModuleDeps`.

| State | In the program |
|---|---|
| `files` | the clone: path, suffix and syntax tree of each file, and whether reading it fails |
| `modules`, `current`, `batch` | the list of modules, the one being indexed, the symbols and raw edges found in it |
| `rows`, `points`, `edges` | the three stores, of this project |
| `parsed`, `cross` | history: the paths read, in order; the dependencies counted |

`PageSize` is the page of psycopg2's `execute_values` (100), since a page is one
statement. Names of directories are ordered by `Names`, because `module_detector.py` sorts what `os.listdir` returns.

### Retrieval, PromptBudget, TicketToPrompt

`Retrieval` has keyword extraction and scoring, the merging of vector results, the
breadth-first expansion and the ranking; `PromptBudget` the line ranges, the greedy
compression and the generator's second attempt. Scores are in hundredths; the token
estimate is the code's, a quarter of the characters.

`TicketToPrompt` composes them into the pipeline of one POST. Its steps are those of
`pipeline_steps.py` in the order of `langgraph_pipeline.py`; `errors` holds the steps whose
failure is collected, `failed` is a `PipelineError`. `vector`, `keyword`, `graph`, `ranked`,
`context` and `prompt` are fields of the pipeline state. `cachedQueries` and `stored` are
Redis.

A step that reads a store is as many actions as it sends queries: `SearchSingleQuery` for
each embedding (`hits` so far) and `SearchKeyword` for each keyword (`named` so far), before
`MergeVectorHits` and `ScoreKeywords` build the matches; then `StartWalk`, for each symbol
taken from the queue `GetEdgesFrom` and `GetEdgesTo` (`graph_expansion.py:39,46`), `EndWalk`,
`GetSymbol` for each symbol reached (`:76`), and `ExpandGraph`. `distances`, `pending` and
`current` are the locals of `_bfs_expand`. `GraphRaises` and `StepRaises` are a query that
raises, in a step that collects its failure and in one that does not.

Around it an indexing job takes one step (`indexing`) for each transaction or request
with which it deletes edges, rows and points of the old commit and then writes, module by
module, rows, points by batches, and edges of the new one (`Writes`), between any two of
the pipeline's queries. `read` remembers which version of a row or payload is in the
matches. History: `seenEdges` and `steadyEdges` are the edges there were at some, and at
every, query of the walk, `steadyRows` the symbols with a row at every look-up.
`DistancesInBounds` compares the expansion with the least distances over either set; with
no job at work they are one set, and the distances are exact.

`disk` is the version of the files the API can open. In the delivered
`docker-compose.yml` it can open none, since the clones are in the worker's container;
`"none"` is one of the initial values, and a deployment on one machine has the others.

### Accounts

The tables are state (`users`, `orgs`, `members`, `teams`, `teamMembers`, `projects`,
`keys`), the issued tokens that have not expired are, and so is the request each
client has in flight (`req`), with the identity it was let in with. A handler is a
chain of transactions (`Register`, `FindRegistered`, `InsertUser`, `InsertOrg`,
`InsertMember`), each an action, and `Fail` ends it between any two. A token is its
claims: nothing is stored, and `require_org_admin` and `require_project_access` look at
the claims, `get_org_membership` at the table.

Three requests end in an exception whatever the state, and the model has them as the
code has them: a login of a user with a membership (`OrgsOfUser`), the answers of
`create_org` and `create_team` after their commits, and any request with an API key
(`UseApiKey`).

## 4. Runs

The MC modules only give values to constants, state bounds and symmetry.

| Run (cfg) | Instance | Shows |
|---|---|---|
| `index_one_project` (`MCRepositoryIndex_one`) | 1 project, 2 tasks, 2 processes, 2 commits of which the second drops a module, 1 redelivery | `CompleteIndex`: when the attempt that emptied a store last has succeeded on a whole commit, the store holds at least that commit, whatever else ran. `IndexInv`: the inductive invariant of the proof. `ExactIndex`, `NoDanglingEdges`: without overlapping writers the three stores agree on one commit and no edge dangles or is doubled. `RowsNeedProject`: rows of a deleted project do not come back although jobs of it go on. `CleanDelete`: a deletion that met no job and reached Qdrant leaves no vectors. No deadlock |
| `index_serial` (`MCRepositoryIndex_serial`) | 1 process, the code's 3 retries, 1 redelivery, both files in one module | `CompleteIndex`, `ExactIndex` and `NoDanglingEdges` over every chain of failed, retried and crashed attempts, with vectors sent in one batch or two. `JobsSettle`: under fairness every job leaves the system |
| `status_of_a_job` (`MCJobStatus_job`) | 1 job, 2 processes, 3 retries, 1 redelivery, no losses | `StatusSettles`: a job nobody works on reads `completed` or `failed`, unless the API wrote after its end. `PollingEnds`: under fairness the page learns the end, unless that write came late |
| `status_page` (`MCJobStatus_page`) | 2 jobs, 1 process, 1 retry, every loss, 2 polls in flight | `FailedIsFinal`: no attempt follows a `failed` status. `OneTimer`: at most one interval, always the one the page can clear, in whatever order answers arrive |
| `jira_sync` (`MCJiraSync`) | 2 syncs, 2 processes, 2 tickets of which one is refused, 1 edit, 1 retry, 1 crash | `VectorsHaveRows`: no vector without its row. `ReportedIsStored`: what a completed sync counts is there. `AloneMirrorsJira`: a sync that met no other leaves the versions it read over whatever was left before. `KeepsLifecycle`: refinement of `JobLifecycle` |
| `source_analysis` (`MCSourceAnalysis`) | 2 layouts, flat and with five modules, every Python tree of at most 3 nodes in one file, JavaScript and Go beside it | `OneModulePerFile`, `RowsMatchVectors`, `EdgesAreCalls`: what is stored is what the files contain |
| `ticket_to_prompt` (`MCTicketToPrompt`) | 5 symbols in 3 files, call graphs of two commits (chains, cycle, self-call, none), 2 modules of which one has two batches of points, any query failing, the indexing job between any two queries | `DistancesInBounds`, `EvidenceReachesRanking`, `BudgetKept`, `OverBudgetOnlyByFraming`, `SnippetsFromTheFile`: see the comments in the module |
| `accounts` (`MCAccounts`) | 2 requests at once, 2 users, 2 organizations, 1 team, 1 project | `TokensBacked`: what tokens claim is what the membership table says. `OneFounder`: an organization is founded once. `OrphansStayOrphans`: one whose founder's request died stays without members. `ServesOwnProject`: a handler that goes on with a row it read works for a member of its organization. No deadlock |
| `accounts_login` (`MCAccounts_login`) | 1 client, 1 user | **violation** of `LoginAnswers` (`auth_routes.py:49`) |
| `incremental_webhook` (`MCIncrementalIndex`) | 2 deliveries, 2 processes, 3 commits, 1 retry, no fault | **violation** of `AcceptedIsIndexed` (`README.md:393`) |
| `source_twins` (`MCSourceAnalysis_twins`) | 1 file with two classes that have a method of one name, pages of 100 | **violation** of `EachSymbolStored` (`postgres.py:126`) |
| `source_cross` (`MCSourceAnalysis_cross`) | five modules, a function of `services/pay` calls one of `services/ship` | **violation** of `CrossModuleCallsFound` (`20_monorepo_indexing_strategy.md:131`) |

**Bounds.** Two processes are the deployed pool; two jobs are the least that overlap,
and a redelivery makes a third delivery. Two files in two modules are the least
that distinguish a module written from one not yet written and, in one module
(`index_serial`), a batch sent from one left; two commits are the least that
distinguish an exact index from one with leftovers. No run has two projects, which
would take either instance beyond its time: that a shared collection keeps them apart
(`IsolatedProjects`) is proved in section 5 only. `MaxRetries` is 3 in the code;
`index_serial` and `status_of_a_job` use 3, the others fewer, since a retry there is
one more attempt in the same interleavings. In `JobStatus` one job suffices for the key,
since keys of different jobs never meet, and two jobs for the page, where an
answer about the first can meet the interval of the second. Two polls in flight are
the least that overtake each other; `status_of_a_job` has one, for the time of its
liveness check (with two it passes as well). `MaxRedeliveries`
bounds repeated deliveries, of which the broker has no limit.

`jira_sync`: a batch of one text makes every ticket a chain of batches; the one
ticket that is edited changes its texts by it (its second version has acceptance
criteria and no description); `FewFaults` leaves two of an edit, a crash, failed
attempts and a deletion to any behaviour, which is every pair of them. `PageSize` is
the number of tickets: that the sync asks for one page only is in `Fetch`, and no
property is about the tickets beyond it. `accounts`: `FewRows` bounds rows of teams
and keys, which no property relates to anything else. `source_analysis`: three nodes
are the least with a caller, a callee and a call, and with a class around a method; the
trees that need more (declarations with several functions, methods in callbacks) are
given. `ticket_to_prompt`: the old graphs are two chains, a cycle, a self-call
with an edge both ways, and none, all replaced by a single call, which one of the chains
has too; the new commit drops, moves and truncates. The graphs vary
with no clone on the disk, and the disk with one pair of graphs, since snippets depend on
the versions read and not on the edges.

**Symmetry.** Processes and tasks in `index_one_project`, jobs and polls in `status_page`,
syncs in `jira_sync`, clients,
users and organizations in `accounts` are interchangeable: no constant or property
tells them apart. No run with a liveness property uses symmetry. `KeepsLifecycle` is a
safety formula, and every permutation of syncs maps to one of its variables.

**Deadlock.** `index_one_project`, `index_serial` and `accounts` check it. The other
systems come to rest: jobs have settled and nobody asks for another, the page is left,
the run has ended.

**Fairness.** `FairSpec` of `RepositoryIndex` assumes that an idle process takes a
queued message, that a busy one's next call returns or raises, and that a started
`delete_project` ends: the pool runs until stopped, and the clients of Postgres,
Qdrant and Git return or raise. Nobody is obliged to request, push, delete or
crash. `FairSpec` of `JobStatus` adds that POST handlers end, the interval fires
and a GET is served and comes back; reporting one more file is not fair, since a
repository has finitely many. `IncrementalIndex` assumes that each process goes on with
its work, so that its counterexample is a task that fails, not a worker that stops.

### Findings

* **Nobody logs in.** `login` reads `org["role"]` (`auth_routes.py:65`) from rows that have
  no such column (`postgres.py:586`): every login of a user with a membership raises.
  Registration issues the only tokens there are.
* **Webhooks index nothing.** The missing setting ends every task with a change; and the
  clone that a task opens is never fetched, so that a later commit is not in it
  (`repo_cloner.py:32`), and diffing it raises too.
* **Twins refuse their module.** The id of a method has no class in it
  (`symbol_extractor.py:38`). Two `__init__` of one file in one page touch a row twice, which
  `ON CONFLICT DO UPDATE` refuses: the module is not stored, and the job fails through
  all its retries.
* **No dependency between modules is found.** A callee's id is a hash of the caller's own
  path (`symbol_extractor.py:340`, `:359`), and `build_graph` keeps an edge only if both its
  ends are symbols of the module: an edge never leaves its file, and
  `detect_and_store_cross_module_deps` counts 0. `20_monorepo_indexing_strategy.md:131`
  wants the graph to "capture these relationships across modules", the docstring of
  `index_repository` says "then build cross-module edges", and the test of the count gives
  its mocked store such an edge. `NoDependencyIsCounted` proves it for every repository.

### Also seen, without a run

Formulas that are in the modules and that TLC finds violated when they are added to a
cfg:

* `RowsKeepTheirProject` (two projects, `RepoOf` mapped to `SameSlug`): ids contain the
  slug but not the organization, and `ON CONFLICT` overwrites `project_id`
  (`postgres.py:149`). The positive properties are therefore stated for projects whose
  slug is unique (`UniqueRepo`).
* `OpensFinishedClones` (two tasks, two processes): a clone being written, or left by a
  killed process, is opened as if complete. This is why `CompleteIndex` speaks of an
  attempt that parsed a whole commit.
* `DeleteLeavesNothing` (one task): `delete_project` swallows a failed vector deletion, and
  running attempts upsert after it; Qdrant has no foreign key.
* `SettledStatusShown` (one job): `in_progress` is written after the enqueueing, so a job
  that ends first stays `in_progress` until the key expires.
* `NoTimerAfterUnmount` (one job): `handleIndex` starts polling after its await whether or
  not the page is still mounted.
* `StoppedShowsEnd` (two polls in flight): polls overlap, since the interval
  does not wait for answers, and an older `parsing` that comes after `completed` stays on
  display with nothing polling any more. With one poll in flight the page shows an end,
  but not always its own: a late `completed` of the first job stops the interval of the
  second and is shown for it. A test of the page (`ProjectDetailPage.test.tsx:330`) covers
  one answer.

Facts that the translation showed and no property states:

* A list of Jira labels, even an empty one, is bound as JSON to an array column
  (`postgres.py:862`), so such tickets are errors of a result that reads `completed`. A sync
  reads one page of 100 tickets. A text that becomes empty keeps its old vector. Of two
  overlapping syncs the one that read earlier may write last.
* Files outside every detected module are not indexed.
  Ignored directories directly below `services/` and its like become modules, against
  `docs/04_repository_indexing.md:15`. The ignored suffix `.min.js` never matches, since a
  suffix is what follows the last dot.
* A symbol matched by keywords keeps graph score 0, unlike in
  `docs/15_ranking_algorithm_spec.md:53`. Nothing calls `upsert_file`, so every file has the
  recency of an unknown one. `llm_fn` defaults to an empty answer. The collected errors are
  not returned. The key of cached expansions has no organization in it.
* `add_team_member` and `create_project` do not check that the user, or the team, is of the
  organization. A user whose registration died after its first commit can neither
  register nor log in. A token cannot be revoked before it expires.

## 5. Proofs

`RepositoryIndexProofs` proves, for every value of the constants that satisfies
`ConstantsAssumption`:

| Theorem | Statement | Argument |
|---|---|---|
| `TypeCorrect` | `Spec => []TypeOK` | inductive by itself; one step per action, one lemma per helper (`Without`, `With`, `Settled`, `Retry`) |
| `DeletedRowsStayDeleted` | `Spec => []RowsNeedProject` | inductive with `TypeOK`: both inserts need the project's row, and `DeleteRows` removes row and data in one transaction |
| `IndexInductive` | `Spec => []IndexInv` | the strengthening of the next one |
| `IndexIsComplete` | `Spec => []CompleteIndex` | through `IndexInv` |

`CompleteIndex` is not inductive: it says nothing of attempts under way, so `Finish`
could declare any store complete. `IndexInv` adds a ledger for each store: while
the attempt that emptied it last is running, it is past its deletion, and the
store holds every file the attempt has written since (`RowsLedger`,
`PointsLedger`, `EdgesLedger`); and `Ledger` says what a process holds at each
stage, so that at `Finish` "written" is "everything parsed". Another attempt of the
same project can disturb a ledger only by deleting, and then it becomes the last
to empty that store; attempts of other projects cannot touch the ids of a project
with a unique slug. The edge case needs `DeleteEdges` to become the cleaner even
though it finds edges only through symbols. TLC checks `IndexInv` in
`index_one_project`.

`ExactIndexProofs` goes on from there:

| Theorem | Statement | Argument |
|---|---|---|
| `ProjectsAreIsolated` | `Spec => IsolatedProjects` | proved, not run; no step of one project's attempt or deletion changes an id, an edge count or a payload of another slug, even in a shared collection |
| `IndexIsExact` | `Spec => []ExactIndex` | through `ExactInv` |
| `EdgesAreAttached` | `Spec => []NoDanglingEdges` | through `ExactInv` |
| `DeletionIsClean` | `Spec => []CleanDelete` | through `CleanInv` |

`IndexInv` bounds the stores from below only. What bounds them from above is that a
project nobody else writes to has one writer: `SoleInv` says that until `overlap[p]` is
set, the attempts and the deletion of `p` are one process at most. Given that, `ExactInv`
adds what the writer has and has not written at its place in the code (`Written`,
`Exact`, `Attached`): after its deletion a store holds exactly the files it has written
since, each file's edges once, and a module that was parsed is never parsed again
(`ModulesLedger`). `CleanInv` is the same
with the deletion as the writer (`Gone`): once the project's row is gone, an attempt of it
is at `load` and finds no project, so nothing can refill what `DeletePoints` emptied.

Assumptions of both modules: only `ConstantsAssumption` (types of the constants,
sentinels distinct from processes and messages).

`JobStatusProofs` proves, from `JobStatusAssumption` alone:

| Theorem | Statement | Argument |
|---|---|---|
| `JobTypeCorrect` | `Spec => []TypeOK` | inductive; the type of a worker about to publish a retry says that one is left, which is what keeps the retries header in range |
| `StatusIsFinal` | `Spec => []StatusSettles` | inductive with `TypeOK`: each write of an unfinished status is followed by work for the same job (`ReportSettles`), work is only taken away after a final write or together with a new message, and the API's write either meets work or marks the job late |
| `FailureIsFinal` | `Spec => []FailedIsFinal` | through `FinalInv` |
| `TimersAreCleared` | `Spec => []OneTimer` | inductive by itself: `StartPolling` clears the interval of `pollingRef` before it starts one and keeps its handle there, `StopPolling` clears it |

`FailedIsFinal` is not inductive: that nothing follows `failed` is known only because a
job has one message or one process, never both. `FinalInv` says so of every job as long as
nothing was delivered twice (`Alone`), that a job the API has not enqueued has neither
(`Unborn`), and that a failed one has neither any more (`FailedOver`).

`JiraSyncProofs` proves, from `SyncAssumption` alone, for any number of syncs, tickets,
versions, processes, retries and crashes:

| Theorem | Statement | Argument |
|---|---|---|
| `SyncKeepsLifecycle` | `Spec => KeepsLifecycle` | `Shaped` (the attempts are records with retries in range) is inductive; each action maps to one action of `JobLifecycle` or to a stutter, one lemma per action |
| `VectorsStayWithRows` | `Spec => []VectorsHaveRows` | through `SyncInv` |
| `ReportsAreTrue` | `Spec => []ReportedIsStored` | through `SyncInv` |
| `SyncTypeCorrect` | `Spec => []TypeOK` | through `MirrorInv` |
| `AloneSyncMirrors` | `Spec => []AloneMirrorsJira` | through `MirrorInv` |

`SyncInv` is `SyncType /\ AttemptsBacked /\ VectorsHaveRows /\ ReportsBacked`. Neither
property is inductive alone: a batch of vectors can only be known to have rows, and a
count only to be true at `Finish`, from what the attempt did earlier. `AttemptsBacked`
says this of every attempt under way: the ticket of each text it collected and of each
it counts has a row unless the project is deleted, and each text it sent has its vector
unless vectors were deleted (`purged`). Other attempts keep it because they overwrite rows
and vectors with others and never remove one; only the deletion removes, and
each part is guarded by the half of the deletion that undoes it. `ReportsBacked` is the
same of the written reports, and implies `ReportedIsStored`.

`MirrorInv` is `SyncInv` with versions. `Past` says that rows, vectors and what attempts
have read are never newer than the ticket in Jira. `Reading` says of each attempt that its
page has distinct tickets, its texts are of that page, and a ticket it counts is one it has
gone through, all of whose texts it has collected. `AloneInv` says of a sync
that met no other (`alone`) that it is the only one active and that what it has
`Written` is in the stores at the version it read: `Active = {j}` is what
excludes an overwriting by another, and edits of a ticket do not touch the stores.

`SourceAnalysisProofs` proves, from `AnalysisAssumption`, for every repository, every
syntax tree and every page size:

| Theorem | Statement | Argument |
|---|---|---|
| `AnalysisTypeCorrect` | `Spec => []TypeOK` | through `AnalysisInv` |
| `FilesHaveOneModule` | `Spec => []OneModulePerFile` | through `AnalysisInv` and `ModulesAre`, `ClassifyIs` |
| `NoDependencyIsCounted` | `Spec => []NoCrossModuleEdges` | through `AnalysisInv` and `EdgesStayInFiles` |
| `StoresAgree` | `Spec => []RowsMatchVectors` | through `AnalysisInv` |
| `EdgesComeFromCalls` | `Spec => []EdgesAreCalls` | through `AnalysisInv` and `ExtractIs` |

Three facts about the operators carry them. `AncestorsExist`: the recursion over
the parents of a node ends, because a node follows its parent; from it follow that a
subtree lies within the lines of its root, and with it each call below a function within the
function's. `ModulesAre`: of the modules `DetectModules` returns, no two are above one
path (`Apart`), which makes the longest prefix of `ClassifyFileToModule` the only one.
`ExtractIs`: the id of each symbol and both ends of each edge begin with the path of
the file. `AnalysisInv` has four parts. `AttemptInv` ties the modules to the clone. `ReadInv`
says the files still to be read lie in the current module and those read in it or an
earlier one, so no file is read twice. `BatchInv` says the batch has rows and edges
of files (`Stated`, `EdgeIn`). `StoreInv` says rows and vectors are equal except between
the two upserts, and each symbol of a file that was read is stored or in the batch.

The assumption says that no two entries of a directory have one name and that a node of a
tree comes after its parent. The first is a file system's, the second holds because nodes are
numbered in preorder.

`TicketToPromptProofs` proves, from `RetrievalAssumption`, `BudgetAssumption` and
`PipelineAssumption`, for every graph, every budget and every version of the index:

| Theorem | Statement | Argument |
|---|---|---|
| `PipelineTypeCorrect` | `Spec => []TypeOK` | through `PipelineInv` |
| `DistancesAreBounded` | `Spec => []DistancesInBounds` | through `PipelineInv`, whose part `WalkInv` is the walk |
| `EvidenceIsRanked` | `Spec => []EvidenceReachesRanking` | through `PipelineInv` and the ranking's lemmas |
| `BudgetIsKept` | `Spec => []BudgetKept` | through `PipelineInv` and the compression's lemmas |
| `OnlyFramingExceeds` | `Spec => []OverBudgetOnlyByFraming` | through `PipelineInv` and the generator's lemmas |
| `SnippetsAreFromTheFile` | `Spec => []SnippetsFromTheFile` | through `PipelineInv`; the clamps of `SnippetLines` |

The steps of the pipeline are simple once the operators are understood, so most of
the module is about these. The breadth-first walk is several actions, between which the
edges change, and `WalkInv` has an invariant for it in three parts. `Near`: each distance is
that of a path over edges the walk has seen. `Ordered`: the queue is in order of distance and
spans at most two levels; between the two queries of a symbol it is `Level`. `Settled`: the
neighbours, over the edges that were there at every query, of a symbol that was asked about
have a distance, at most one more. `Near` survives because `seenEdges` only grows,
`Settled` because `steadyEdges` only shrinks; at the end they give the two bounds
(`NearIsWithin`, `SettledIsWithin`). The reference definition, balls that grow
around the matches, is recursive (`Balls`). The greedy compression is a fold, for which the running sum never passes the
limit. That a prompt over its budget is the framing's fault is arithmetic with the
quotient of `EstimateTokens`, one lemma per rounding. `PipelineInv` then says of each
symbol which version of it a search has read, one that exists, and that `ranked`, `context` and
`prompt` are what the operators make of the matches: a step of the indexing job may
change the stores, but not what was read.

The assumptions say that the lines of a row lie within the file of the same commit it was
parsed from, that a similarity is between -1 and 1 (a cosine, in hundredths), and that an
edge joins symbols of one file, which `SourceAnalysisProofs` proves of the edges that are
stored.

`AccountsProofs` proves, from `AccountsAssumption` (the sentinels are no names) alone:

| Theorem | Statement | Argument |
|---|---|---|
| `AccountsTypeCorrect` | `Spec => []TypeOK` | through `AccountsInv` |
| `TokensAreTrue` | `Spec => []TokensBacked` | through `AccountsInv` |
| `FoundersAreAlone` | `Spec => []OneFounder` | through `AccountsInv` |
| `HandlersServeTheirOrg` | `Spec => []ServesOwnProject` | through `AccountsInv` |
| `OrphansRemain` | `Spec => OrphansStayOrphans` | `AccountsInv` and one step: only three actions insert a membership or come to it, and for an ownerless organization each of them is excluded |

Not even the types are inductive: `InsertTeam` may insert a team only because somebody
was a member when the request began. `AccountsInv` says of every request that what its
handler has found out still fits the tables (`Fits`), which rests on `Grows`: no step
removes a row of these tables or changes a role, and a project is only deleted. That is
also why tokens are true although nobody checks them, and the proof would break with
the first handler that removes a member. `OneFounder` is part of the invariant because a
founder and an inviter could only meet if the inviter were no member: it needs the part
about tokens. Apart from the inserts, one lemma (`QuietStep`) covers each action.

`DataLemmas` has the facts about sequences, sets and recursive functions that two
modules need: induction over a bounded range (`Induction`, `InductionUpTo`), written with a
set of numbers in place of a predicate and proved from the least element of a set of
naturals (the library's `WFMin`, `NatLessThanWellFounded`), that iterating a step defines a
sequence (`Iterates`), sums and their bounds (`SumExists` to `SumBound`), and what
`FlattenSeq`, `SetToSeq` and a filter written with them return (`FlatSequence`,
`SetToSeqOrders`, `KeepingKeeps`). `FilterFiles`, `ChildDirs` and `Extract` are written
with `FlattenSeq` instead of `SelectSeq`, whose definition is not accessible to the provers.

**Model-checked only.**

* `IncrementalIndex`: its one run shows that what a webhook accepted is not indexed; there is
  no promise it keeps that would be worth a theorem.
* Liveness (`JobsSettle`, `PollingEnds`): it rests on fairness, whose ENABLED the
  prover cannot expand.
* The findings: a violation is shown by its counterexample.

## 6. Not modelled

* **Project settings.** `update_project` is one UPDATE under a membership test. It may
  change `collection_group`, after which the vectors of the old collection belong to no
  project; `RepositoryIndex` takes the collection of a project for a constant.
* **Connection pool.** psycopg2's `SimpleConnectionPool`; the program adds a limit beyond
  which it raises. A call that raises is a `Fail` of every model.
* **Redis cache.** One command per call, whose failure is logged. The models write the
  keys they need; `get_or_set` has no caller.
* **Embedding pipeline.** A neural model; the jobs see that it may raise.
* **Front end** other than the polling page: presentation, and a token in local storage.
* **Evaluation and scripts.** Offline and sequential. `scripts/index_repository.py` reads
  the missing setting of the webhook tasks before it connects to anything (line 237).
* Parts of modelled components: the deletions per module, per file and per repository
  in the stores, which nothing calls with effect; the mapping of Jira fields to columns;
  passwords and signatures; the text of symbols, vectors, prompts and messages.
