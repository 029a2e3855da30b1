----------------------------- MODULE TicketIntake -----------------------------
(***************************************************************************)
(* A ticket from its arrival to its answer, in every process that takes    *)
(* tickets - the API, the UI and the demo -, with the trajectory log that  *)
(* they share: data/trajectories.db, to which each process has one SQLite  *)
(* connection for all of its threads, and which the offline training       *)
(* reads.                                                                  *)
(*                                                                         *)
(* TrajectoryLogger.log is two calls, execute and commit.  Each of them    *)
(* looks first whether the connection is in a transaction and gives up the *)
(* interpreter before it runs BEGIN, INSERT or COMMIT, so that the threads *)
(* of a process interleave at these points.  Whoever finds the database    *)
(* locked by another process waits for five seconds and then raises.       *)
(*                                                                         *)
(* What handling a ticket does in between is TicketPipeline's subject.     *)
(***************************************************************************)
EXTENDS Trajectories

CONSTANTS
    Processes, Threads, Requests,
    ProcessOf,        \* the process of a thread
    Kind,             \* "api", "ui" or "demo", of a process
    MinTrajectories,  \* offline_rl's MIN_TRAJECTORIES, a parameter of the model
    MaxCrashes,       \* bound: crashes of processes
    None,             \* no request, no row
    Synthetic         \* the trajectories that offline_rl makes up

Bodies == {"clean", "pii", "injection"}
Texts == {"clean", "redacted"}
PlannerOutcomes == {"resolved", "failed", "clarification_needed"}
LoggedTrajectories ==
    [calls : {<<>>}, outcome : PlannerOutcomes, latency : Latencies]
RowOf(r, tr) == [request |-> r, trajectory |-> tr, reward |-> CompositeReward(tr)]
Rows == {RowOf(r, tr) : r \in Requests, tr \in LoggedTrajectories}

ASSUME IntakeAssumption ==
    /\ ProcessOf \in [Threads -> Processes]
    /\ Kind \in [Processes -> {"api", "ui", "demo"}]
    /\ MinTrajectories \in Nat \ {0}
    /\ MaxCrashes \in Nat
    /\ {None, Synthetic} \cap (Requests \cup Rows) = {}

VARIABLES
    at,         \* where each thread is
    request,    \* the request it works on
    row,        \* the row it is to log
    reply,      \* what became of each request
    store,      \* tickets in the shared memory: the text of a request
    degraded,   \* processes that started without a shared memory
    db,         \* the committed rows
    lock,       \* of each connection: "none", "open", "reserved", "pending"
    unsaved,    \* the rows of its open transaction
    reader,     \* the training: "idle" or "reading"
    dataset,    \* data/orpo_dataset.json
    crashes

threadVars == <<at, request, row>>
logVars == <<db, lock, unsaved>>
readVars == <<reader, dataset>>
vars == <<threadVars, reply, store, degraded, logVars, readVars, crashes>>

LogSteps == {"handled", "begin", "insert", "inserted", "commit", "logged"}

TypeOK ==
    /\ at \in [Threads -> {"idle", "accepted", "created"} \cup LogSteps]
    /\ request \in [Threads -> Requests \cup {None}]
    /\ DOMAIN row = Threads /\ \A t \in Threads : row[t] = None \/ row[t] \in Rows
    /\ \A t \in Threads : at[t] # "idle" => request[t] \in Requests
    /\ \A t \in Threads : at[t] \in LogSteps =>
          row[t] \in Rows /\ row[t].request = request[t]
    /\ reply \in [Requests -> {"unsent", "open", "blocked", "failed", "answered", "lost"}]
    /\ store \subseteq [request : Requests, text : Texts]
    /\ degraded \subseteq {p \in Processes : Kind[p] = "ui"}
    /\ db \subseteq Rows
    /\ lock \in [Processes -> {"none", "open", "reserved", "pending"}]
    /\ unsaved \in [Processes -> SUBSET Rows]
    /\ \A p \in Processes : unsaved[p] # {} => lock[p] \in {"reserved", "pending"}
    /\ reader \in {"idle", "reading"}
    /\ dataset \subseteq Rows \cup {Synthetic}
    /\ crashes \in 0..MaxCrashes

Init ==
    /\ at = [t \in Threads |-> "idle"]
    /\ request = [t \in Threads |-> None]
    /\ row = [t \in Threads |-> None]
    /\ reply = [r \in Requests |-> "unsent"]
    /\ store = {}
    /\ degraded \in SUBSET {p \in Processes : Kind[p] = "ui"}
    /\ db = {}
    /\ lock = [p \in Processes |-> "none"]
    /\ unsaved = [p \in Processes |-> {}]
    /\ reader = "idle" /\ dataset = {}
    /\ crashes = 0

KindOf(t) == Kind[ProcessOf[t]]
IsDegraded(t) == ProcessOf[t] \in degraded

(* The thread is done with its request.                                    *)
Ends(t, how) ==
    /\ at' = [at EXCEPT ![t] = "idle"]
    /\ reply' = [reply EXCEPT ![request[t]] = how]
    /\ request' = [request EXCEPT ![t] = None]
    /\ row' = [row EXCEPT ![t] = None]

Raises(t) == Ends(t, "failed")

-------------------------------------------------------------------------------
(* From the request to the trajectory                                      *)

(* check_input's verdict: a prompt injection is blocked, PII is redacted.  *)
Screened(body) == IF body = "pii" THEN "redacted" ELSE body

(* The demo's tickets are constants of the program and are not screened.   *)
Offered(t) == IF KindOf(t) = "demo" THEN {"clean"} ELSE Bodies

Block(t) ==
    /\ at[t] = "idle"
    /\ "injection" \in Offered(t)
    /\ \E r \in Requests :
          /\ reply[r] = "unsent"
          /\ reply' = [reply EXCEPT ![r] = "blocked"]
    /\ UNCHANGED <<threadVars, store, degraded, logVars, readVars, crashes>>

Accept(t) ==
    /\ at[t] = "idle"
    /\ \E r \in Requests :
          /\ reply[r] = "unsent"
          /\ reply' = [reply EXCEPT ![r] = "open"]
          /\ request' = [request EXCEPT ![t] = r]
    /\ at' = [at EXCEPT ![t] = "accepted"]
    /\ UNCHANGED <<row, store, degraded, logVars, readVars, crashes>>

(* Mutant: the ticket is created with the text as it came in.              *)
CreateTicketAsReceived(t) ==
    /\ at[t] = "accepted"
    /\ at' = [at EXCEPT ![t] = "created"]
    /\ \E body \in Offered(t) \ {"injection"} :
          store' = IF IsDegraded(t) THEN store
                   ELSE store \cup {[request |-> request[t], text |-> body]}
    /\ UNCHANGED <<request, row, reply, degraded, logVars, readVars, crashes>>

(* The UI creates no ticket if it started without a shared memory.         *)
CreateTicket(t) ==
    /\ at[t] = "accepted"
    /\ at' = [at EXCEPT ![t] = "created"]
    /\ \E body \in Offered(t) \ {"injection"} :
          store' = IF IsDegraded(t) THEN store
                   ELSE store \cup {[request |-> request[t], text |-> Screened(body)]}
    /\ UNCHANGED <<request, row, reply, degraded, logVars, readVars, crashes>>

(* Redis may be gone by now, or only its reply to a SET that has landed.   *)
CreateRaises(t) ==
    /\ at[t] = "accepted"
    /\ ~IsDegraded(t)
    /\ \/ UNCHANGED store
       \/ \E body \in Offered(t) \ {"injection"} :
             store' = store \cup {[request |-> request[t], text |-> Screened(body)]}
    /\ Raises(t)
    /\ UNCHANGED <<degraded, logVars, readVars, crashes>>

(* The planner's trajectory, scored.  Only the demo tells the trajectory   *)
(* how long it took.                                                       *)
Trajectory(t, outcome, took) ==
    [HandledTrajectory(outcome) EXCEPT !.latency = IF KindOf(t) = "demo" THEN took ELSE @]

(* Mutant: the planner's notes are skipped when there is no shared memory. *)
HandleWithoutStore(t) ==
    /\ at[t] = "created"
    /\ at' = [at EXCEPT ![t] = "handled"]
    /\ \E outcome \in PlannerOutcomes, took \in Latencies :
          row' = [row EXCEPT ![t] = RowOf(request[t], Trajectory(t, outcome, took))]
    /\ UNCHANGED <<request, reply, store, degraded, logVars, readVars, crashes>>

Handle(t) ==
    /\ at[t] = "created"
    /\ ~IsDegraded(t)
    /\ at' = [at EXCEPT ![t] = "handled"]
    /\ \E outcome \in PlannerOutcomes, took \in Latencies :
          row' = [row EXCEPT ![t] = RowOf(request[t], Trajectory(t, outcome, took))]
    /\ UNCHANGED <<request, reply, store, degraded, logVars, readVars, crashes>>

(* The planner logs a note on every path, which needs the shared memory.   *)
HandleRaises(t) ==
    /\ at[t] = "created"
    /\ Raises(t)
    /\ UNCHANGED <<store, degraded, logVars, readVars, crashes>>

(* The user clicks while the page is working: Streamlit ends the script at *)
(* its next output, which is the warning of redacted PII, the spinner's,   *)
(* or, with the row in the log, that of the outcome.                       *)
Interrupted(t) ==
    /\ KindOf(t) = "ui"
    /\ at[t] \in {"accepted", "created", "handled", "logged"}
    /\ Ends(t, "lost")
    /\ UNCHANGED <<store, degraded, logVars, readVars, crashes>>

-------------------------------------------------------------------------------
(* TrajectoryLogger.log                                                    *)

(* Another connection holds a lock that keeps this one from writing.       *)
Blocked(p) ==
    \E q \in Processes \ {p} : lock[q] \in {"reserved", "pending"}

(* Mutant: every execute begins a transaction of its own.                  *)
ExecuteBegins(t) ==
    /\ at[t] = "handled"
    /\ at' = [at EXCEPT ![t] = "begin"]
    /\ UNCHANGED <<request, row, reply, store, degraded, logVars, readVars, crashes>>

(* execute: a transaction is begun unless the connection is in one.        *)
Execute(t) ==
    /\ at[t] = "handled"
    /\ at' = [at EXCEPT ![t] = IF lock[ProcessOf[t]] = "none" THEN "begin" ELSE "insert"]
    /\ UNCHANGED <<request, row, reply, store, degraded, logVars, readVars, crashes>>

Begin(t) ==
    LET p == ProcessOf[t] IN
    /\ at[t] = "begin"
    /\ lock[p] = "none"
    /\ at' = [at EXCEPT ![t] = "insert"]
    /\ lock' = [lock EXCEPT ![p] = "open"]
    /\ UNCHANGED <<request, row, reply, store, degraded, db, unsaved, readVars, crashes>>

(* "cannot start a transaction within a transaction": another thread was   *)
(* faster.                                                                 *)
BeginFails(t) ==
    /\ at[t] = "begin"
    /\ lock[ProcessOf[t]] # "none"
    /\ Raises(t)
    /\ UNCHANGED <<store, degraded, logVars, readVars, crashes>>

Insert(t) ==
    LET p == ProcessOf[t] IN
    /\ at[t] = "insert"
    /\ lock[p] # "none"
    /\ ~Blocked(p)
    /\ at' = [at EXCEPT ![t] = "inserted"]
    /\ unsaved' = [unsaved EXCEPT ![p] = @ \cup {row[t]}]
    /\ lock' = [lock EXCEPT ![p] = IF @ = "open" THEN "reserved" ELSE @]
    /\ UNCHANGED <<request, row, reply, store, degraded, db, readVars, crashes>>

(* Another thread has committed since execute looked: the statement is a   *)
(* transaction of its own.                                                 *)
InsertAlone(t) ==
    LET p == ProcessOf[t] IN
    /\ at[t] = "insert"
    /\ lock[p] = "none"
    /\ ~Blocked(p) /\ reader = "idle"
    /\ at' = [at EXCEPT ![t] = "inserted"]
    /\ db' = db \cup {row[t]}
    /\ UNCHANGED <<request, row, reply, store, degraded, lock, unsaved, readVars, crashes>>

(* "database is locked".                                                   *)
InsertLocked(t) ==
    /\ at[t] = "insert"
    /\ Blocked(ProcessOf[t]) \/ (lock[ProcessOf[t]] = "none" /\ reader = "reading")
    /\ Raises(t)
    /\ UNCHANGED <<store, degraded, logVars, readVars, crashes>>

(* Mutant: log ends without a commit.                                      *)
CommitNot(t) ==
    /\ at[t] = "inserted"
    /\ at' = [at EXCEPT ![t] = "logged"]
    /\ UNCHANGED <<request, row, reply, store, degraded, logVars, readVars, crashes>>

(* commit: nothing to do if the connection is in no transaction.           *)
Commit(t) ==
    /\ at[t] = "inserted"
    /\ at' = [at EXCEPT ![t] = IF lock[ProcessOf[t]] = "none" THEN "logged" ELSE "commit"]
    /\ UNCHANGED <<request, row, reply, store, degraded, logVars, readVars, crashes>>

(* COMMIT takes along what the other threads have inserted.                *)
CommitStatement(t) ==
    LET p == ProcessOf[t] IN
    /\ at[t] = "commit"
    /\ lock[p] # "none"
    /\ reader = "idle" \/ unsaved[p] = {}
    /\ at' = [at EXCEPT ![t] = "logged"]
    /\ db' = db \cup unsaved[p]
    /\ unsaved' = [unsaved EXCEPT ![p] = {}]
    /\ lock' = [lock EXCEPT ![p] = "none"]
    /\ UNCHANGED <<request, row, reply, store, degraded, readVars, crashes>>

(* "cannot commit - no transaction is active": another thread was faster,  *)
(* and the row is committed.                                               *)
CommitFails(t) ==
    /\ at[t] = "commit"
    /\ lock[ProcessOf[t]] = "none"
    /\ Raises(t)
    /\ UNCHANGED <<store, degraded, logVars, readVars, crashes>>

(* Mutant: commit is tried again until the database is not locked.         *)
CommitTriesAgain(t) ==
    /\ at[t] = "commit"
    /\ unsaved[ProcessOf[t]] # {}
    /\ reader = "reading"
    /\ at' = [at EXCEPT ![t] = "inserted"]
    /\ UNCHANGED <<request, row, reply, store, degraded, logVars, readVars, crashes>>

(* "database is locked" by a reader: the transaction stays open, and what  *)
(* it holds is left to the next commit of this process.                    *)
CommitLocked(t) ==
    LET p == ProcessOf[t] IN
    /\ at[t] = "commit"
    /\ unsaved[p] # {}
    /\ reader = "reading"
    /\ lock' = [lock EXCEPT ![p] = "pending"]
    /\ Raises(t)
    /\ UNCHANGED <<store, degraded, db, unsaved, readVars, crashes>>

Answer(t) ==
    /\ at[t] = "logged"
    /\ Ends(t, "answered")
    /\ UNCHANGED <<store, degraded, logVars, readVars, crashes>>

(* A process stops and is started again: its threads, its connection and   *)
(* what it had not committed are gone.                                     *)
Crash(p) ==
    /\ crashes < MaxCrashes
    /\ crashes' = crashes + 1
    /\ LET own == {t \in Threads : ProcessOf[t] = p}
           open == {request[t] : t \in {u \in own : at[u] # "idle"}}
       IN /\ at' = [t \in Threads |-> IF t \in own THEN "idle" ELSE at[t]]
          /\ request' = [t \in Threads |-> IF t \in own THEN None ELSE request[t]]
          /\ row' = [t \in Threads |-> IF t \in own THEN None ELSE row[t]]
          /\ reply' = [r \in Requests |-> IF r \in open THEN "lost" ELSE reply[r]]
    /\ lock' = [lock EXCEPT ![p] = "none"]
    /\ unsaved' = [unsaved EXCEPT ![p] = {}]
    /\ degraded' \in {degraded \ {p}} \cup {d \in {degraded \cup {p}} : Kind[p] = "ui"}
    /\ UNCHANGED <<store, db, readVars>>

-------------------------------------------------------------------------------
(* Offline training                                                        *)

(* _trajectory_to_orpo_sample: there is no sample of a trajectory without  *)
(* steps.                                                                  *)
Samples(rows) == {x \in rows : x.trajectory.calls # <<>>}

(* build_dataset: too few trajectories are replaced by generated ones.     *)
Dataset(rows) ==
    IF Cardinality(rows) < MinTrajectories THEN {Synthetic} ELSE Samples(rows)

(* The rows of fetch_all: while they are read no other connection commits. *)
FetchBegins ==
    /\ reader = "idle"
    /\ \A p \in Processes : lock[p] # "pending"
    /\ reader' = "reading"
    /\ UNCHANGED <<threadVars, reply, store, degraded, logVars, dataset, crashes>>

FetchEnds ==
    /\ reader = "reading"
    /\ reader' = "idle"
    /\ dataset' = Dataset(db)
    /\ UNCHANGED <<threadVars, reply, store, degraded, logVars, crashes>>

(* The UI reads through its own connection: its open transaction as well.  *)
PageRows(p) == db \cup unsaved[p]

(* "Start Training" on the page, which is offered when there are rows.     *)
TrainOnPage(t) ==
    LET p == ProcessOf[t] IN
    /\ at[t] = "idle"
    /\ KindOf(t) = "ui"
    /\ PageRows(p) # {}
    /\ \A q \in Processes \ {p} : lock[q] # "pending"
    /\ dataset' = Dataset(PageRows(p))
    /\ UNCHANGED <<threadVars, reply, store, degraded, logVars, reader, crashes>>

LogStep(t) ==
    \/ Execute(t) \/ Begin(t) \/ BeginFails(t)
    \/ Insert(t) \/ InsertAlone(t) \/ InsertLocked(t)
    \/ Commit(t) \/ CommitStatement(t) \/ CommitFails(t) \/ CommitLocked(t)
    \/ Answer(t)

Next ==
    \/ \E t \in Threads :
          \/ Block(t) \/ Accept(t) \/ CreateTicket(t) \/ CreateRaises(t)
          \/ Handle(t) \/ HandleRaises(t) \/ Interrupted(t)
          \/ LogStep(t)
          \/ TrainOnPage(t)
    \/ \E p \in Processes : Crash(p)
    \/ FetchBegins \/ FetchEnds

Spec == Init /\ [][Next]_vars

(* Logging is ordinary code, and SQLite gives up after its busy timeout:   *)
(* a thread that is about to log goes on.  Nothing is assumed of Redis,    *)
(* the LLM, users or the training.                                         *)
FairSpec == Spec /\ \A t \in Threads : WF_vars(LogStep(t))

-------------------------------------------------------------------------------
(* Properties                                                              *)

(* A request is answered with an outcome only when its row is committed,   *)
(* rows stay, and there is one of a request: other threads may commit, or  *)
(* lose, the transaction in which it is (rl_pipeline/trajectory_logger.py  *)
(* :37-60, memory/sqlite_store.py:15, api/main.py:135-153).                *)
Log == INSTANCE DurableLog WITH
    log <- db, answered <- {r \in Requests : reply[r] = "answered"}
LogIsDurable == Log!Spec

(* Whatever is logged, or waits for another commit, was accepted and is a  *)
(* ticket of the shared memory: a blocked request, and a UI that started   *)
(* without Redis, leave nothing (api/main.py:109-129, ui/app.py:152-189).  *)
RowsHaveTickets ==
    \A x \in db \cup UNION {unsaved[p] : p \in Processes} :
        /\ \E k \in store : k.request = x.request
        /\ reply[x.request] # "blocked"

(* The reward that is logged puts every resolved trajectory above every    *)
(* other one, however slow, and above the 0.6 of offline_rl                *)
(* (rl_pipeline/reward_functions.py:45-61, offline_rl.py:51).              *)
RewardsFollowOutcomes ==
    \A x \in db : IsChosen(x.reward) <=> x.trajectory.outcome = "resolved"

(* The transaction errors are errors of sharing a connection: a process    *)
(* with one thread never meets them, whatever other processes do to the    *)
(* database (memory/sqlite_store.py:15).                                   *)
LoneThreadsNeverRace ==
    \A t \in Threads :
        (\A u \in Threads \ {t} : ProcessOf[u] # ProcessOf[t]) =>
            /\ at[t] = "begin" => lock[ProcessOf[t]] = "none"
            /\ at[t] = "commit" => lock[ProcessOf[t]] # "none"

(* A handled ticket is answered, or its error reported, also when another  *)
(* process leaves the database locked (memory/sqlite_store.py:15, without  *)
(* a timeout of its own).                                                  *)
LoggingEnds == \A t \in Threads : at[t] \in LogSteps ~> at[t] = "idle"

(* README.md:221: Start Training "builds the ORPO dataset from logged      *)
(* trajectories" - with enough of them, there is one.                      *)
LoggedTrajectoriesTrain == [][dataset' # {}]_dataset
===============================================================================
