-------------------------- MODULE SharedTicketMemory --------------------------
(***************************************************************************)
(* SharedTicketMemory (memory/shared_memory.py): agent threads on one      *)
(* Redis server.  Every Redis command is one step, so the commands of      *)
(* concurrent calls interleave; what a call computes between two commands  *)
(* is part of the step of the command whose reply it computes from.        *)
(*                                                                         *)
(* Redis is external: a key space and, per pipeline connection, the WATCH  *)
(* flag that makes EXEC abort once another connection wrote the key.       *)
(***************************************************************************)
EXTENDS Naturals

CONSTANTS
    Tickets, Fields, Values, Fresh, Deltas,  \* see VersionedTicket
    Absent,       \* no state under a key, no argument, no call
    Clients,      \* agent threads, each with a connection of its own
    Operations,   \* the methods the clients call
    Creators,     \* per ticket, the clients that may create it
    Versions,     \* what callers of update pass as expected_version
    Malformed,    \* a delta that SharedTicketState.model_validate refuses
    MaxRetries,   \* MAX_RETRIES, 5 in the code
    MaxVersion,   \* bound: no update begins on a ticket of this version
    Lossy         \* may a connection break in the middle of a call?

ASSUME FreshAssumption == Fresh \in [Fields -> Values]
ASSUME DeltasAssumption == Deltas \subseteq UNION {[F -> Values] : F \in SUBSET Fields}
ASSUME OperationsAssumption ==
    Operations \subseteq {"create", "init", "update", "retry", "delete"}
ASSUME CreatorsAssumption == Creators \in [Tickets -> SUBSET Clients]
ASSUME VersionsAssumption == Versions \subseteq Nat
ASSUME MaxRetriesAssumption == MaxRetries \in Nat \ {0}
ASSUME MaxVersionAssumption == MaxVersion \in Nat

VARIABLES
    store,      \* Redis: the state under each ticket's key
    conn,       \* Redis: WATCH flag of each client's pipeline connection
    pc,         \* the command a client sends next
    call,       \* the arguments of its call and update_with_retry's locals
    snapshot,   \* the state update parsed from the reply to its GET
    outcome,    \* how the client's last call ended
    applied,    \* history: writes of the store by the client's last call
    raced       \* history: the clients whose ticket another client has written
                \* since their call last read it or last met a conflict

vars == <<store, conn, pc, call, snapshot, outcome, applied, raced>>

Promise == INSTANCE VersionedTicket WITH register <- store

States == Promise!States

Outcomes == {"none", "ok", "deleted", "loaded", "missing", "KeyError", "ValueError",
             "ValidationError", "VersionConflictError", "WatchError", "ConnectionError"}

Calls == [op : Operations, ticket : Tickets, delta : Deltas \cup {Malformed, Absent},
          expected : Nat, attempt : 0 .. MaxRetries - 1]

TypeOK ==
    /\ store \in [Tickets -> States \cup {Absent}]
    /\ conn \in [Clients -> {"off", "clean", "dirty"}]
    /\ pc \in [Clients -> {"idle", "probe", "load", "exists", "set", "read", "watch",
                           "get", "exec", "delete"}]
    /\ call \in [Clients -> Calls \cup {Absent}]
    /\ snapshot \in [Clients -> States \cup {Absent}]
    /\ outcome \in [Clients -> Outcomes]
    /\ applied \in [Clients -> Nat]
    /\ raced \in SUBSET Clients

Init ==
    /\ store = [t \in Tickets |-> Absent]
    /\ conn = [c \in Clients |-> "off"]
    /\ pc = [c \in Clients |-> "idle"]
    /\ call = [c \in Clients |-> Absent]
    /\ snapshot = [c \in Clients |-> Absent]
    /\ outcome = [c \in Clients |-> "none"]
    /\ applied = [c \in Clients |-> 0]
    /\ raced = {}

--------------------------------------------------------------------------------
(* Mutant: WATCH names the ticket id where GET names the prefixed key.     *)
WatchesWrongKey(c, t) == FALSE

Watches(c, t) == conn[c] = "clean" /\ call[c].ticket = t

(* A write of t by c's connection: Redis marks every other connection that *)
(* watches the key.                                                        *)
Write(c, t, state) ==
    /\ store' = [store EXCEPT ![t] = state]
    /\ conn' = [d \in Clients |-> IF d = c THEN "off"
                                 ELSE IF Watches(d, t) THEN "dirty" ELSE conn[d]]
    /\ raced' = raced \cup {d \in Clients \ {c} : pc[d] # "idle" /\ call[d].ticket = t}
    /\ applied' = [applied EXCEPT ![c] = @ + 1]

(* No write; c's connection watches nothing any more (unwatch, reset).     *)
NoWrite(c) ==
    /\ conn' = [conn EXCEPT ![c] = "off"]
    /\ UNCHANGED <<store, raced, applied>>

Return(c, how) ==
    /\ pc' = [pc EXCEPT ![c] = "idle"]
    /\ call' = [call EXCEPT ![c] = Absent]
    /\ snapshot' = [snapshot EXCEPT ![c] = Absent]
    /\ outcome' = [outcome EXCEPT ![c] = how]

(* The reply to a write may be lost after Redis has executed it.           *)
Reply(how, lost) == {how} \cup (IF Lossy THEN {lost} ELSE {})

Goto(c, location) ==
    /\ pc' = [pc EXCEPT ![c] = location]
    /\ UNCHANGED outcome

FirstCommand == [create |-> "exists", init |-> "probe", update |-> "watch",
                 retry |-> "read", delete |-> "delete"]

Begin(c, op, t, delta, expected) ==
    /\ pc[c] = "idle"
    /\ op \in Operations
    /\ pc' = [pc EXCEPT ![c] = FirstCommand[op]]
    /\ call' = [call EXCEPT ![c] = [op |-> op, ticket |-> t, delta |-> delta,
                                    expected |-> expected, attempt |-> 0]]
    /\ outcome' = [outcome EXCEPT ![c] = "none"]
    /\ applied' = [applied EXCEPT ![c] = 0]
    /\ raced' = raced \ {c}
    /\ UNCHANGED <<store, conn, snapshot>>

CallCreate(c, t) == c \in Creators[t] /\ Begin(c, "create", t, Absent, 0)

CallInitFromTicket(c, t) == c \in Creators[t] /\ Begin(c, "init", t, Absent, 0)

BelowBound(t) == store[t] # Absent => store[t].version < MaxVersion

CallUpdate(c, t, delta, version) ==
    BelowBound(t) /\ Begin(c, "update", t, delta, version)

CallUpdateWithRetry(c, t, delta) ==
    BelowBound(t) /\ Begin(c, "retry", t, delta, 0)

CallDelete(c, t) == Begin(c, "delete", t, Absent, 0)

--------------------------------------------------------------------------------
(* init_from_ticket: exists, then create, or get the state that is there.  *)
Probe(c) ==
    /\ pc[c] = "probe"
    /\ Goto(c, IF store[call[c].ticket] = Absent THEN "exists" ELSE "load")
    /\ UNCHANGED <<store, conn, call, snapshot, applied, raced>>

(* Its get returns None if the ticket has been deleted since.              *)
Load(c) ==
    /\ pc[c] = "load"
    /\ NoWrite(c)
    /\ Return(c, IF store[call[c].ticket] = Absent THEN "missing" ELSE "loaded")

(* create: EXISTS and SET are two commands, and SET is unconditional.      *)
CreateExists(c) ==
    /\ pc[c] = "exists"
    /\ \/ /\ store[call[c].ticket] = Absent
          /\ Goto(c, "set")
          /\ UNCHANGED <<store, conn, call, snapshot, applied, raced>>
       \/ /\ store[call[c].ticket] # Absent
          /\ NoWrite(c)
          /\ Return(c, "ValueError")

CreateSet(c) ==
    /\ pc[c] = "set"
    /\ Write(c, call[c].ticket, Promise!FreshState)
    /\ \E how \in Reply("ok", "ConnectionError") : Return(c, how)

(* update_with_retry's own read, whose version the attempt then expects.   *)
Read(c) ==
    /\ pc[c] = "read"
    /\ \/ /\ store[call[c].ticket] = Absent
          /\ NoWrite(c)
          /\ Return(c, "KeyError")
       \/ /\ store[call[c].ticket] # Absent
          /\ call' = [call EXCEPT ![c].expected = store[call[c].ticket].version]
          /\ raced' = raced \ {c}
          /\ Goto(c, "watch")
          /\ UNCHANGED <<store, conn, snapshot, applied>>

Watch(c) ==
    /\ pc[c] = "watch"
    /\ conn' = [conn EXCEPT ![c] = "clean"]
    /\ Goto(c, "get")
    /\ UNCHANGED <<store, call, snapshot, applied, raced>>

(* The state update finds under the watched key decides how it goes on.    *)
GetMissing(c) ==
    /\ pc[c] = "get"
    /\ store[call[c].ticket] = Absent
    /\ NoWrite(c)
    /\ Return(c, "KeyError")

Conflicts(c) ==
    /\ pc[c] = "get"
    /\ store[call[c].ticket] # Absent
    /\ store[call[c].ticket].version # call[c].expected

(* VersionConflictError leaves update, or update_with_retry on its last    *)
(* attempt.                                                                *)
Conflict(c) ==
    /\ Conflicts(c)
    /\ call[c].op = "update" \/ call[c].attempt = MaxRetries - 1
    /\ NoWrite(c)
    /\ Return(c, "VersionConflictError")

(* Mutant: the loop has no bound.                                          *)
RetryForever(c) ==
    /\ Conflicts(c)
    /\ call[c].op = "retry"
    /\ call' = [call EXCEPT ![c].attempt = @ + 1]
    /\ Goto(c, "read")
    /\ conn' = [conn EXCEPT ![c] = "off"]
    /\ raced' = raced \ {c}
    /\ UNCHANGED <<store, snapshot, applied>>

(* Mutant: the loop does not count and its read has been hoisted out of it.*)
RetryWithoutReading(c) ==
    /\ Conflicts(c)
    /\ call[c].op = "retry"
    /\ Goto(c, "watch")
    /\ conn' = [conn EXCEPT ![c] = "off"]
    /\ raced' = raced \ {c}
    /\ UNCHANGED <<store, call, snapshot, applied>>

(* update_with_retry catches it, sleeps and reads again.                   *)
Retry(c) ==
    /\ Conflicts(c)
    /\ call[c].op = "retry" /\ call[c].attempt < MaxRetries - 1
    /\ call' = [call EXCEPT ![c].attempt = @ + 1]
    /\ Goto(c, "read")
    /\ conn' = [conn EXCEPT ![c] = "off"]
    /\ raced' = raced \ {c}
    /\ UNCHANGED <<store, snapshot, applied>>

GetMatches(c) ==
    /\ pc[c] = "get"
    /\ store[call[c].ticket] # Absent
    /\ store[call[c].ticket].version = call[c].expected
    /\ \/ /\ call[c].delta = Malformed
          /\ NoWrite(c)
          /\ Return(c, "ValidationError")
       \/ /\ call[c].delta # Malformed
          /\ snapshot' = [snapshot EXCEPT ![c] = store[call[c].ticket]]
          /\ Goto(c, "exec")
          /\ UNCHANGED <<store, conn, call, applied, raced>>

(* Mutant: the SET is sent outside MULTI/EXEC.                             *)
ExecUnwatched(c) ==
    /\ pc[c] = "exec"
    /\ Write(c, call[c].ticket, Promise!Apply(snapshot[c], call[c].delta))
    /\ \E how \in Reply("ok", "WatchError") : Return(c, how)

(* Mutant: update_with_retry retries on WatchError too, so it repeats an   *)
(* EXEC whose reply was lost.                                              *)
ExecRetriedOnWatchError(c) ==
    /\ pc[c] = "exec"
    /\ conn[c] = "clean"
    /\ Write(c, call[c].ticket, Promise!Apply(snapshot[c], call[c].delta))
    /\ \/ Return(c, "ok")
       \/ Lossy /\ Goto(c, "read") /\ UNCHANGED <<call, snapshot>>

(* MULTI, SET, EXEC: the new state is computed from the snapshot.          *)
Exec(c) ==
    /\ pc[c] = "exec"
    /\ conn[c] = "clean"
    /\ Write(c, call[c].ticket, Promise!Apply(snapshot[c], call[c].delta))
    /\ \E how \in Reply("ok", "WatchError") : Return(c, how)

(* Mutant: update swallows the WatchError of an aborted EXEC.              *)
ExecAbortedUnnoticed(c) ==
    /\ pc[c] = "exec"
    /\ conn[c] = "dirty"
    /\ NoWrite(c)
    /\ Return(c, "ok")

(* EXEC aborts; nothing turns redis.WatchError into VersionConflictError.  *)
ExecAborted(c) ==
    /\ pc[c] = "exec"
    /\ conn[c] = "dirty"
    /\ NoWrite(c)
    /\ Return(c, "WatchError")

DeleteKey(c) ==
    /\ pc[c] = "delete"
    /\ IF store[call[c].ticket] = Absent
       THEN NoWrite(c)
       ELSE Write(c, call[c].ticket, Absent)
    /\ \E how \in Reply("deleted", "ConnectionError") : Return(c, how)

(* The connection breaks before Redis receives the command.  redis-py      *)
(* reports that as WatchError on a pipeline that watches a key.            *)
Break(c) ==
    /\ Lossy
    /\ pc[c] # "idle"
    /\ NoWrite(c)
    /\ Return(c, IF conn[c] = "off" THEN "ConnectionError" ELSE "WatchError")

--------------------------------------------------------------------------------

Start(c) ==
    \E t \in Tickets :
        \/ CallCreate(c, t)
        \/ CallInitFromTicket(c, t)
        \/ CallDelete(c, t)
        \/ \E delta \in Deltas \cup {Malformed} :
              \/ CallUpdateWithRetry(c, t, delta)
              \/ \E version \in Versions : CallUpdate(c, t, delta, version)

Step(c) ==
    \/ Probe(c) \/ Load(c) \/ CreateExists(c) \/ CreateSet(c)
    \/ Read(c) \/ Watch(c) \/ GetMissing(c) \/ Conflict(c) \/ Retry(c)
    \/ GetMatches(c) \/ Exec(c) \/ ExecAborted(c)
    \/ DeleteKey(c) \/ Break(c)

Next == \E c \in Clients : Start(c) \/ Step(c)

(* A thread that is inside a call keeps running; nobody has to call.       *)
Fairness == \A c \in Clients : WF_vars(Step(c))

Spec == Init /\ [][Next]_vars

FairSpec == Spec /\ Fairness

--------------------------------------------------------------------------------
(* The reason optimistic locking works: as long as the watched connection  *)
(* is clean, the state that update parsed is still the stored one, and its *)
(* version the one the caller expected, so what EXEC writes extends what   *)
(* it replaces (shared_memory.py:79-97).                                   *)
CleanSnapshotIsCurrent ==
    \A c \in Clients :
        pc[c] = "exec" /\ conn[c] = "clean" =>
            /\ snapshot[c] # Absent
            /\ snapshot[c] = store[call[c].ticket]
            /\ snapshot[c].version = call[c].expected

(* What a caller may conclude from how its call ended: the state that      *)
(* create, update or update_with_retry returns was written, exactly once,  *)
(* however many attempts it took; an error other than a broken connection  *)
(* means that nothing was written; and no retry writes a delta twice       *)
(* (shared_memory.py:59-143).                                              *)
OutcomeTellsWhatWasWritten ==
    \A c \in Clients :
        /\ applied[c] <= 1
        /\ outcome[c] = "ok" => applied[c] = 1
        /\ outcome[c] \in {"loaded", "missing", "KeyError", "ValueError", "ValidationError",
                           "VersionConflictError"} => applied[c] = 0
        /\ pc[c] # "idle" => applied[c] = 0

(* update_with_retry sees a version conflict only when another client      *)
(* wrote the ticket after this attempt's own read: attempts are spent on   *)
(* contention and never on a stale version (shared_memory.py:110-119).     *)
RetriesOnlyOnContention ==
    [][\A c \in Clients :
            Conflicts(c) /\ call[c].op = "retry" => c \in raced]_vars

(* How many commands a call can still send, other calls' writes included.  *)
CommandsOfAttempt == [read |-> 4, watch |-> 3, get |-> 2, exec |-> 1]
CommandsOfOthers == [probe |-> 3, load |-> 1, exists |-> 2, set |-> 1, delete |-> 1]

CommandsLeft(c) ==
    CASE pc[c] \in DOMAIN CommandsOfAttempt ->
            4 * (MaxRetries - 1 - call[c].attempt) + CommandsOfAttempt[pc[c]]
      [] pc[c] \in DOMAIN CommandsOfOthers -> CommandsOfOthers[pc[c]]
      [] pc[c] = "idle" -> 0

(* Whatever the other threads and the connections do, each command brings  *)
(* its call nearer to its end, and no step of another client costs or      *)
(* grants it one: a call sends at most 4 * MAX_RETRIES commands            *)
(* (shared_memory.py:110-120).                                             *)
CallsAreShort ==
    [][\A c \in Clients : pc[c] # "idle" =>
            \/ pc'[c] = pc[c] /\ CommandsLeft(c)' = CommandsLeft(c)
            \/ CommandsLeft(c)' < CommandsLeft(c)]_vars

(* A ticket id comes from uuid4 in the thread that creates the ticket      *)
(* (api/main.py:117), so one thread creates it.                            *)
SingleCreator == \A t \in Tickets : \A c, d \in Creators[t] : c = d

(* Given SingleCreator, every write is a creation, one version-checked     *)
(* commit or a deletion: no step loses another one's fields                *)
(* (shared_memory.py:26-31).                                               *)
KeepsPromise == Promise!Spec

(* Every call returns or raises: the attempts of update_with_retry are     *)
(* bounded and no command waits for another client.                        *)
CallsReturn == \A c \in Clients : pc[c] # "idle" ~> pc[c] = "idle"

(* shared_memory.py:29-30 and 72-75: a write that lost the race is         *)
(* reported as VersionConflictError, so that callers can retry.            *)
StaleWritesAreVersionConflicts == \A c \in Clients : outcome[c] # "WatchError"
================================================================================
