# Verification of the customer-service agents

TLA+ modules, TLC configurations and TLAPS proofs about the multi-agent ticket
system of this repository. The models are translated from the Python source;
paths and line numbers below are relative to the repository's root.

## 1. The system

A customer's ticket arrives at `submit_ticket` (`api/main.py`, or the same
sequence in `ui/app.py` and `demo/run_demo.py`). Input guardrails may block it;
otherwise its state is created in Redis, the meta-planner asks an LLM what to
do with it, asks for clarification, resolves it itself or delegates it to one
specialist over the in-process A2A protocol. The specialist runs a fixed plan
of skills through the execution engine, writes a note, and hands its results
back; the planner writes its own notes; the trajectory is scored, logged in
SQLite and its outcome answered. The logged trajectories are what offline training
builds its dataset from. Beside this, an evaluation harness runs suites of
scenarios through the planner and leaves a report file, which a regression gate
judges against a baseline file on a developer's machine and in CI.

| component | state it keeps | operations | what is hard about it | what makes it correct |
|---|---|---|---|---|
| shared ticket memory `memory/shared_memory.py` | one JSON state with a version per ticket, in Redis | create, get, update, update_with_retry, delete, init_from_ticket | Redis commands of concurrent calls interleave; replies get lost; retries | an update is one atomic commit; errors tell what was written; retries end |
| notes and results `agents/base_agent.py:91`, `a2a/protocol.py:85` | lists inside the shared state | `_log_note`, the merge in `delegate` | the list is computed from a read that is older than the version check | nothing acknowledged is lost |
| ticket submission `api/main.py:101`, `ui/app.py:145`, `demo/run_demo.py:65` | none | submit_ticket, the submit page, `_run_and_log` | each later step may fail when earlier ones have had effects; a page that is interrupted; no Redis | every request is answered; what is logged has a ticket |
| meta-planner `agents/meta_planner.py` | the graph's state for one ticket | decompose, clarify, self_handle, delegate, handle | an LLM answer that contradicts category and priority; notes written at the end | urgent tickets go to a human; the notes are complete |
| A2A `a2a/` | capability registry, filled once by `agents/system_bootstrap.py` | find, delegate | the deadline is looked at afterwards; every exception becomes a failure | results arrive complete or not at all |
| specialists `agents/{billing,policy,escalation}_agent.py` | none | handle, handle_delegation | a refused step is not a failed step | the customer is told what happened |
| execution engine `skills/execution_engine.py` | the trajectory | execute, retries | retries of skills with effects; stopping at the first error | no step after a failed one |
| skill registry `skills/registry.py` | metadata and counters of the skills, shared by all threads | register, get, record_invocation, synthesise_skill, prune_unused | counts by name while skills come and go | promotion is earned, pruning spares built-ins, no run counts twice |
| input guardrails `guardrails/input_guardrails.py` | events | check_input | each caller does something else with the verdict | a blocked text reaches nothing, a redacted one is stored redacted |
| trajectory log `rl_pipeline/trajectory_logger.py`, `memory/sqlite_store.py` | a SQLite table, one connection per process | log, fetch_all | request threads share a transaction; processes lock each other out; crashes | an answered ticket has its one row for good |
| metrics, harness `evaluation/` | the report file | run_scenario, run_suite, the evaluation page | scenarios that raise; two runners that treat them differently | a report's averages are over what they claim |
| regression gate `evaluation/regression_gate.py`, `ci.yml` | the baseline file | check_regression, save_baseline | missing, empty and stale files; zeros; many small drops | what passes is close to the first baseline |
| rewards, offline training `rl_pipeline/` | the dataset file | score_trajectory, build_dataset | trajectories without steps | the reward separates resolved tickets from others |
| governance, supervisor, per-agent memory, vector memory, LLM clients, observability, infrastructure | - | - | - | not modelled, see section 7 |

The components interact by calls inside one request thread; the only state
that request threads share is Redis, the skill registry, the SQLite
connections, the guardrails' lists and the planner's LLM client. Processes share
Redis, the SQLite file and the report and baseline files.

## 2. The modules

| module | models |
|---|---|
| `VersionedTicket` | what the shared memory promises: a versioned record per ticket with atomic Create, Commit and Delete |
| `SharedTicketMemory` | `memory/shared_memory.py`, one step per Redis command; implements `VersionedTicket` |
| `TicketNotes` | how `_log_note` and `delegate` grow the collections of a ticket, on top of `VersionedTicket` |
| `TicketPipeline` | one ticket from submission to answer: API, planner, A2A, specialists, engine, skills |
| `SkillRegistry` | `skills/registry.py` under threads that run, synthesise and prune skills |
| `Trajectories` | the metrics and the reward of a trajectory, as operators |
| `Scenarios` | the repository's scenario suites, as data |
| `Evaluation` | the harness under its two runners, the report and baseline files, the gate, CI; on `Trajectories` |
| `DurableLog` | what the trajectory log promises: rows are only added, one of a request, and an answer comes after its row |
| `TicketIntake` | tickets from arrival to answer in API, UI and demo with the SQLite log they share, and the training that reads it; on `Trajectories`; implements `DurableLog` |
| `MC...` | instances of these for TLC |
| `...Proofs` | theorems about them with TLAPS proofs |

**SharedTicketMemory.** `store` is Redis' key space, `conn` the WATCH flag of
each thread's pipeline connection ("clean" until another connection writes the
watched key). `pc` names the command a thread sends next, `call` holds its
arguments and `update_with_retry`'s locals, `snapshot` what `update` parsed.
The calls of `create`, `update` and so on are `CallCreate`, `CallUpdate`, ...;
each following action is one command: `Probe` / `Load` are lines 137 and 141,
`CreateExists` / `CreateSet` lines 61 and 63, `Read` is line 111, `Watch` line 79, `GetMissing`, `Conflict`,
`Retry` and `GetMatches` are what line 80's reply leads to, `Exec` and
`ExecAborted` are lines 95-97. A lost reply is an `Exec` that lands and raises;
`Break` is a connection that breaks before the command is executed. A delta is
a partial function from fields to values, a malformed one a model value that
validation refuses. `applied` and `raced` are history variables; no action
reads them. Not modelled: redis-py's own retries of a plain command (versions
from 6 on retry EXISTS, GET, SET and DEL on a new connection), which would let
one `create` execute SET twice. `time.sleep` of the retry loop is any number of
steps of other threads.
The demo's scenario 5 is a caller of `get` and `update` with a loop of its own;
`CallUpdate` with any expected version stands for such callers.

**TicketNotes** abstracts the memory to `VersionedTicket`: a writer reads the
collection (`ReadCollection`), and its `update_with_retry` is one `Commit` of the
collection with the entry added (`Add`, with or without a reply) or an
exception (`AddFails`). `SharedTicketMemory`'s refinement is the reason why
that is all a writer can observe. A list is the set of its entries; entries
name their writer.

**TicketPipeline** has one variable `pc` for the point a request has reached.
`Submit` is `submit_ticket` up to the call of the planner, `Decompose` is
`_decompose_node` with its override of the LLM (`DelegateTo`) and the graph's
routing, `Delegate` is `delegate` up to the handler, `Invoke` one attempt of one
skill under `_invoke_with_retry`, `SpecialistNote` the specialist's
`_log_note`, `HandBack` the deadline and the merge in `delegate`, `PlannerNote`
one `_log_note` of `handle`, `Respond` the scoring, logging and answer.
A request is its guardrail verdict, category, urgency, whether it names an order
and what kind of amount its context holds. The LLM answers anything in
`Answers`; a failing or unparsable LLM is the answer `{}` as in the code.
`ran` is the trajectory, `effects` a history of what the skills did outside the
system. What each skill may end with is an operator of its own
(`LookUpOrder`, `ProcessRefund`, ...), as is each specialist's plan. A call of the shared memory lands and returns, lands and raises, or
raises (`Update`).

**SkillRegistry.** `registered` is `_skills`; a skill is its metadata object,
with `count`, `good` and `promoted` as its fields; gated skills are the synthesised ones.
A step ends where CPython 3.11 may switch threads (entering a Python function,
a turn of a loop): `LookUp` is `get` and the start of the run, `Record` is
`record_invocation` up to `can_promote`, `CheckCount` and `CheckRate` are that
function's two comparisons, the second one with the promotion. `PruneStart`,
`Judge` and `DeleteVictim` are the copy and the two loops of `prune_unused`,
`PruneFails` its KeyError. Items are judged in any order, and one step
judges an item although it reads the count before the call of `success_rate`:
counters only grow, so the later reading decides alike. On an interpreter without
the global lock `meta.invocation_count += 1` could lose updates; the project's CI
runs 3.11.

**Trajectories.** Fractions are kept exact: metrics count 60ths, rewards are
thousandths over the number of calls, with the weights applied. A step has one
tool call, as `_execute_step` builds them, so a trajectory is the sequence of
its calls. `HandledTrajectory` is what `handle` returns: no steps, since the
specialist's stay in its own trajectory.

**Evaluation.** `runner` is the demo's `run_suite` or the page's loop. `ScenarioEnds` is
`run_scenario` with any outcome the planner can give that scenario (`Answers`, the table
`OutcomesOf` of `Trajectories`, which the theorem `AnswersFollowTheTable` derives from
the planner's graph in `TicketPipeline`), `ScenarioRaises` the exception path, where
the two runners differ. `OpenReport` and `DumpReport` are `open(..., "w")` and
`json.dump`; a stop in between leaves the file `Torn`. The averages are exact for
the page and rounded to three decimals for the demo, as the code writes them.
`GateLoads`, `OpenBaseline`, `DumpBaseline`, `Compares` are `main` and
`check_regression`, `CIBuild` the workflow's step with the baseline that a fresh checkout
has (`CheckoutBaseline`: none). `first`, `accepted` and `deployed` are history variables.

**TicketIntake.** A thread serves one request: `Block` or `Accept` is the guardrail,
`CreateTicket` the shared state, `CreateRaises` its exception, which may come after the ticket
was stored, `Interrupted` a click that ends the page's script at one of its outputs
(the warning of redacted PII, the spinner, the outcome), `Handle` or `HandleRaises` the planner and the scoring; then
`log` at the points where it yields the interpreter: `Execute` looks whether
the connection is in a transaction, `Begin`, `Insert` and `CommitStatement` are
SQLite's statements, with their outcomes when another thread or another
process was faster (`BeginFails`, `InsertAlone`, `InsertLocked`, `CommitFails`, `CommitLocked`).
`lock` is the state of a process's connection: "open" a transaction that has
written nothing, "reserved" one that has, "pending" one whose COMMIT met a
reader. `unsaved` are the rows of that transaction, `db` what is committed. `Crash`
takes a process with its threads and its transaction. `FetchBegins` and `FetchEnds` are
the offline script's `fetch_all` and the dataset it writes, `TrainOnPage` the same on the
UI's own connection. A request's text is its guardrail verdict; a trajectory is
its outcome and whether it was fast.

## 3. How the project grew

First the shared memory with its abstract specification and proofs, the
collections built on it, the pipeline of one ticket and the skill registry;
then the evaluation with the gate, and the intake with the log and its
abstract specification, with the notes' and the pipeline's remaining
invariants proved. Two modules that had been considered were not written: one for the
engine with arbitrary skills, since the program registers five and
`TicketPipeline` has their plans, and one for governance, which nothing calls.

## 4. What the runs check

| run | bounds | checks |
|---|---|---|
| `store_safety` | 2 threads, 1 ticket, one creator, 3 attempts, versions to 2, all methods for ever, broken connections | `TypeOK`, `CleanSnapshotIsCurrent`, `OutcomeTellsWhatWasWritten`, `KeepsPromise`, `RetriesOnlyOnContention`, `CallsAreShort`, `CallsReturn` |
| `notes_exclusive` | 3 writers, 2 tickets, 2 collections, 2 entries each, failing and unacknowledged writes | `TypeOK`, `AcknowledgedEntriesStay`, `HeldIsCurrent`, `CollectionsOnlyGrow` |
| `pipeline` | all 160 requests, all 10 answers, 3 attempts, everything may fail | `TypeOK`, `UrgentTicketsAreNeverRefunded`, `NoticesFollowTheWork`, `ResolvedMeansDone`, `AnswerIsDocumented`, `WorkIsBounded`, `EveryTicketIsAnswered` |
| `registry` | 2 threads, 2 built-ins (one of them not always protected), 2 synthesised skills that take their names, 3 runs per name, thresholds 2 and 85% to promote, 1 and 50% to prune | `TypeOK`, `CreditsAreRuns`, `PromotedHaveRuns`, `PromotionIsEarned`, `PruneSparesBuiltIns` |
| `evaluation` | a page's suite of 7 scenarios of the repository, one of them guarded, the happy path for the demo, 3 runs, any exception, stop and gate run in between | `TypeOK`, `DropsDoNotAddUp`, `EveryScenarioIsAccountedFor`, `SafetyIsTheGuardrail`, `OnlyCompletionMeasuresTheAgent` |
| `intake` | 2 threads of the API, the UI, the demo, the training, 2 requests, a dataset from 2 rows on, 1 crash | `TypeOK`, `RowsHaveTickets`, `RewardsFollowOutcomes`, `LoneThreadsNeverRace`, `LogIsDurable`, `LoggingEnds` |

Why the bounds are enough. The shared memory's conflicts are between two
connections and one key: a third thread adds another writer of the kind the
second one is, keys do not interact, and the properties that hold are proved
without the bounds. Three attempts contain a first, a repeated and a last one;
`MaxVersion` only stops new calls, and recreation after a deletion brings back
version 0, so old and new states with equal versions occur. `TicketNotes`
starts with no ticket and every writer may fail at every entry. The
pipeline's run has no bound but the plans of the code and its three attempts.
In `registry` the thresholds are lowered from 10 and 5 so that three runs per
name reach both promotion and pruning, with one run left to interfere;
`SkillRegistryProofs` has no bound and any thresholds. In `evaluation` drops can add up only
over three reports: the baseline, a drop, and a further one. The page's suite is chosen so
that small drops exist: with one guarded scenario among seven, each clean one that raises
takes the safety score from 6/7 to 5/6 and to 4/5, each within 5% of the one before and the
second beyond it of the first; a gate that moved its baseline after a pass would accept both.
The gate may run any number of times in between. `evaluation_ci` has the repository's own
suites and two runs, a build each. In `intake` the races on a transaction need
two threads of one process and two requests; a third request adds nothing that two in one
transaction do not show, and the training's 10 rows are lowered to 2. Both modules' invariants,
and the refinement of the log, are proved without the bounds.

Deadlock is checked in the store's and the registry's runs. It is not in the others: writers stop
when they have added their entries, an answered ticket is finished, and so is
the last run or request.

**Fairness.** `SharedTicketMemory!FairSpec` assumes that a thread inside a call
keeps sending its commands and that Redis answers or the connection breaks
(WF on `Step(c)`); nobody is obliged to call. `TicketPipeline!FairSpec` assumes
that the request thread keeps running: every call it makes returns or raises,
since the LLM clients and Redis have timeouts, and every retry is bounded.
`TicketIntake!FairSpec` assumes of each thread only that it goes on when it is
about to log (WF on `LogStep(t)`): what follows is straight-line code, and SQLite
raises after its busy timeout of five seconds instead of waiting for another
process. Nothing is assumed of users, Redis, the LLM, or the training, which
may hold its read lock for ever.

### Where the code does what its documents do not say

| run | shows |
|---|---|
| `store_watch_error` | a write between GET and EXEC ends in `redis.WatchError`, not in the `VersionConflictError` that the class promises and `update_with_retry` retries |
| `pipeline_refund_notice` | a refused refund is announced to the customer as processed, and the ticket answered as resolved |
| `pipeline_expected` | an off-topic ticket is asked for clarification, against the scenarios that expect it to be resolved (`happy_path.py:56-65`) and `_self_handle_node`, which would redirect it politely (`meta_planner.py:117-130`) and is never reached. The property's second part is that no escalated ticket is answered as resolved (`expected_outcome="escalated"`, `happy_path.py:54`): TLC stops before it at the shorter counterexample, and the theorem `EscalatedIsAnsweredResolved` shows that it fails whenever an escalation is answered |
| `pipeline_hand_back` | a late or failing hand-back after the refund answers "failed" and leaves the results out of the shared state |
| `evaluation_ci` | CI lets a report pass that dropped against the last build's: its checkout holds no baseline, so the gate takes the report for its own baseline |
| `intake_dataset` | "Start Training" writes an empty dataset as soon as there are enough logged trajectories for it to use them: they hold no steps |

Other disagreements were met while modelling and have no run of their own,
because the program does not get into them, or nothing acts on them:

- `create` may replace a ticket that exists (EXISTS and SET are two commands) if two
  threads create one id. Ids are fresh `uuid4`s; the refinement has this as its
  hypothesis `SingleCreator`.
- With two threads on one ticket an acknowledged note is lost: the list is computed
  before the version it is checked against is read (`base_agent.py:92`, against
  `docs/architecture.md:52`). One thread serves a ticket; the theorems have this
  as their hypothesis `ExclusiveTargets`.
- A ticket that is deleted and created again restarts at version 0, so that an old expected
  version matches the new state. Only a test calls `delete`.
- A synthesised skill may take over a registered name, a built-in's or its own of before,
  and with it the credits of runs that began earlier. Nothing calls `synthesise_skill`.
- A synthesised skill runs before it is promoted (`registry.py:18`, `:78` say that it
  is gated): `get` and the engine look at no flag, only `list_available` does, which
  nothing calls.
- `system_bootstrap.py:79` says that the agents tolerate a missing shared memory; the
  planner's first note raises (`HandleRaises` is the only way on for such a UI).
- The API and the UI measure the latency and never set it on the trajectory, so
  that its reward always counts it as fast (`Trajectory` in `TicketIntake`).

## 5. What is proved

TLAPS checks these for all values of the constants, under the assumptions that
the modules name (`FreshAssumption`, `DeltasAssumption`, `MaxRetriesAssumption`,
...), which TLC evaluates in the runs.

- `SharedTicketMemoryProofs`: `TypeCorrect`, `SnapshotIsCurrent`,
  `OutcomesAreTruthful`, `RetriesAreContention`, and `Refinement`:
  `Spec => KeepsPromise` under `SingleCreator`. The type invariant is not enough:
  the inductive invariant adds, per program counter, which locals are set, that
  a clean connection's snapshot is the stored state, that a call in progress
  has written nothing, and that an attempt whose thread is not in `raced` still
  expects the stored version; for the refinement also that only the creator is between
  EXISTS and SET while the ticket is absent. The refinement maps `Exec` to
  `Commit` (its snapshot is the stored state, so `Apply` of the one is `Apply` of
  the other), `CreateSet` to `Create`, `DeleteKey` to `Delete` and all else to
  a stutter. From the refinement alone follows `VersionsAreSuccessive`: a ticket's version goes
  up one by one, which is why comparing versions is enough. `CallsTakeFewCommands` and
  `CommandsAreNumbered` prove the measure `CommandsLeft`: each command brings its
  call nearer to its end, from at most `4 * MaxRetries`, and no other client's step
  changes it. `AbortsAreContention` says what the run `store_watch_error` leaves
  open: EXEC is aborted for no other reason than a write by another client, so that the
  error that is not retried always is one that should be.
- `TicketNotesProofs`: `TypeCorrect` and `WritersUseThePromise` (every behaviour of the writers
  is one of `VersionedTicket`) without hypothesis: what goes wrong with two writers of a
  collection is the callers' doing, not the register's. `CopiesAreCurrent`,
  `NothingAcknowledgedIsLost` and `AppendOnly` under `ExclusiveTargets`. The strengthening is `HeldIsCurrent`: what a writer holds
  between read and write is the stored collection, because nobody else writes it.
- `TicketPipelineProofs`: `TypeCorrect`, `UrgentIsNeverRefunded`,
  `NoticesComeLast`, `ResolvedIsDone`, `AnswersAreDocumented`. The inductive invariant says that the
  route is kept (`RouteIsKept`: who acts is the agent the planner chose, for an
  urgent ticket the escalation agent), that what ran is a prefix of that
  agent's plan which raised at its end if at all (`RunFollowsPlan`), that the
  effects are the agent's own (`EffectsAreItsOwn`), and, for the results, what
  has been handed over at each point (`HandOver`). For the notes it says that
  those stored and those pending together tell the ticket's story (`Documented`);
  writing one moves it from the head of the second list to the end of the first.
  `WorkBounded` and `WorkIsNumbered` prove the measure `StepsLeft`: every step brings the answer
  nearer, from at most `3 * MaxAttempts + 8`, for which the invariant adds that
  the counters stay within the plan (`CountersInv`). `RefundsFollowRequests` says how far the flaw of
  `pipeline_refund_notice` goes: the notice is false for exactly the requests that
  `process_refund` refuses, and nothing is refunded without an order. `AnswersFollowTheTable`
  is what category and priority leave of the answers, in particular that an off-topic ticket is
  always asked for clarification; `EscalatedIsAnsweredResolved` that an escalated one is answered as
  resolved when nothing but skills fails. They say how far `pipeline_expected` goes.
- `SkillRegistryProofs`: `TypeCorrect`, `PromotionEarned`, `BuiltInsSpared`,
  `CreditsNeverExceedRuns`, `PromotionTakesRuns`. The
  inductive invariant carries what was read over to when it is used: a thread
  about to compare the rate has a skill whose count still reaches the threshold
  (`CountStillReached`), and what a prune has yet to judge or to delete is not
  protected and no built-in has its name (`UnjudgedInv`, `VictimsInv`). The credits of a
  name are summed as the cardinality of a disjoint union (`Credits`), so that a
  step adds or removes one element and no induction over the skills is needed; that
  they are finite is part of the invariant (`CreditsInv`). `PromotionTakesRuns` adds that a
  promoted skill still has the count it was promoted with (`PromotedHaveCount`).
- `EvaluationProofs`: `TypeCorrect`, `DropsNeverAddUp`, `AllScenariosAccountedFor`,
  `SafetyCountsGuardrails`, `OnlyCompletionCounts`, for any suites of well-formed
  scenarios and any number of runs. One lemma says what a scenario adds to the sums
  for each of its endings; the invariant counts, with the cardinalities of the
  guarded and the tool-free scenarios among those run so far, and that the steps add nothing to
  the plan quality (`StepsCountNothing`), so that no file holds one above 0 (`FilesArePlanFree`), from
  which `PlansNeverRegress` follows: no report fails the gate for its plan. For the gate it is
  that a baseline which is a report is the first one (`BaselineIsFirst`): without it an
  accepted report would be close to the last one only.
- `TicketIntakeProofs`: `TypeCorrect`, `Refinement` (`Spec => LogIsDurable`), `RowsComeFromTickets`,
  `LoneThreadsAreSafe`, `RewardsAreOutcomes`, for any threads, processes and crashes. The
  refinement needs to know where a row is when its thread goes on (`WhereRowsAre`: after the
  INSERT it is committed or in the connection's transaction, after the COMMIT,
  whoever's it was, it is committed), and that a request has one thread and one
  row (`OneThread`, `OneRow`). COMMIT, a statement of its own and a crash map to `Commit` or a
  stutter of `DurableLog`, an answer to its `Answer`. From the refinement alone follows
  `AnswersHaveRows`, also past crashes. `LogCallsAreShort` proves that `log` takes at
  most six steps and that nothing sends a thread back in it, `NothingLoggedTrains` that no
  logged trajectory is ever in a dataset: with few rows it is generated, with many it is
  empty, which is what the run `intake_dataset` shows once.
- `TrajectoriesProofs`: `RewardIsBounded`, `OnlyResolvedIsChosen`, `ShortResolvedIsChosen`,
  `MetricsAreFractions`, for trajectories of any length: the reward is between -1 and 1 and every
  metric between 0 and 1; a trajectory is preferred in training only if its ticket
  was resolved, and always if it was, in at most five calls without a failure.

## 6. What is only model-checked

Liveness (`CallsReturn`, `EveryTicketIsAnswered`, `LoggingEnds`), since the prover does not
handle ENABLED. What is proved of each is the measure that decreases
(`CallsTakeFewCommands`, `WorkBounded`, `LogCallsAreShort`), for all values of the constants;
what is left to TLC is that a next step is possible, which with the fairness of
section 4 makes it happen. All violations are TLC's too. The safety invariants and action
properties of the passing runs are all theorems.

## 7. What is not modelled

- Contents of messages, prompts, notes and JSON; the regular expressions of the
  guardrails (their verdict is an input); metrics, tracing and wording.
- `_self_handle_node`'s off-topic branch: `_decompose_node` never lets such a
  ticket through to it (line 90); `AnswersFollowTheTable` and the run `pipeline_expected` are
  about that.
- Skills missing from the registry and exceptions with empty messages: the
  built-in skills are registered at start and their exceptions have messages.
- Governance, the supervisor, `scrub_output` and per-agent memory: no agent or route
  calls them, only tests (and, for `scrub_output`, a page that shows what it does
  to a text typed in), so that the program has no behaviour of theirs.
- Vector memory (no agent reads it), the LLM clients (external), the training
  library behind `run_training`, synthetic data, tracing, infrastructure.
- The UI's pages that only display state, and the demo's narration.
- In `TicketIntake`, the contents of the log but outcome and latency, and SQLite's recovery of
  its own journal: a commit is atomic.
- A crash of the server in the middle of a request: it leaves the state in Redis
  that the answer "error" leaves, and nothing resumes it.
