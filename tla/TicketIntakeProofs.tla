-------------------------- MODULE TicketIntakeProofs --------------------------
(***************************************************************************)
(* For any threads, processes and requests: the trajectory log is the      *)
(* durable log that it promises to be, and the invariants of the intake.   *)
(***************************************************************************)
EXTENDS TicketIntake, FiniteSetTheorems, TLAPS

(* The row is committed, or in the open transaction of some connection.    *)
Held(x) == x \in db \/ \E p \in Processes : x \in unsaved[p]
HasTicket(r) == \E k \in store : k.request = r
Alone(t) == \A u \in Threads \ {t} : ProcessOf[u] # ProcessOf[t]
Answered == {r \in Requests : reply[r] = "answered"}

(* A request has at most one thread, and is open as long as it has one.    *)
OneThread ==
    /\ \A t \in Threads : at[t] # "idle" => reply[request[t]] = "open"
    /\ \A t, u \in Threads :
          at[t] # "idle" /\ at[u] # "idle" /\ request[t] = request[u] => t = u

(* Where the row of a thread is once it has been inserted.                 *)
WhereRowsAre ==
    \A t \in Threads :
        /\ at[t] \in {"inserted", "commit"} => row[t] \in db \cup unsaved[ProcessOf[t]]
        /\ at[t] = "logged" => row[t] \in db

(* A held row belongs to a request that was accepted and has a ticket, and *)
(* whose thread, if it still has one, has passed its INSERT.               *)
WhoseRowsAre ==
    \A x \in Rows : Held(x) =>
        /\ reply[x.request] \notin {"unsent", "blocked"}
        /\ HasTicket(x.request)
        /\ \A t \in Threads : at[t] # "idle" /\ request[t] = x.request =>
              at[t] \in {"inserted", "commit", "logged"}

OneRow == \A x, y \in Rows : Held(x) /\ Held(y) /\ x.request = y.request => x = y

TicketsFirst ==
    \A t \in Threads :
        at[t] \in LogSteps \/ (at[t] = "created" /\ ~IsDegraded(t)) => HasTicket(request[t])

Lone ==
    \A t \in Threads : Alone(t) =>
        /\ at[t] = "begin" => lock[ProcessOf[t]] = "none"
        /\ at[t] = "commit" => lock[ProcessOf[t]] # "none"

IInv ==
    /\ TypeOK
    /\ OneThread
    /\ WhereRowsAre
    /\ WhoseRowsAre
    /\ OneRow
    /\ TicketsFirst
    /\ Lone

(* What a step may do to the log and to the answers.                       *)
LogStays == db' = db /\ Answered' = Answered
RowsCommitted ==
    /\ db \subseteq db' /\ db' \subseteq Rows
    /\ \A a, b \in db' : a.request = b.request => a = b
    /\ Answered' = Answered
OneAnswered == \E x \in db : Answered' = Answered \cup {x.request} /\ db' = db
Promised == LogStays \/ RowsCommitted \/ OneAnswered

-------------------------------------------------------------------------------
(* Rows and their requests                                                 *)

LEMMA RowFacts ==
    ASSUME NEW x \in Rows
    PROVE  x.request \in Requests
  BY DEF Rows, RowOf

LEMMA ScoredRow ==
    ASSUME NEW t \in Threads, NEW r \in Requests,
           NEW outcome \in PlannerOutcomes, NEW took \in Latencies
    PROVE  RowOf(r, Trajectory(t, outcome, took)) \in Rows
           /\ RowOf(r, Trajectory(t, outcome, took)).request = r
<1> DEFINE tr == Trajectory(t, outcome, took)
<1>1. tr \in LoggedTrajectories
  BY DEF Trajectory, HandledTrajectory, LoggedTrajectories, Latencies
<1> HIDE DEF tr
<1>2. RowOf(r, tr) \in Rows
  BY <1>1 DEF Rows
<1>3. RowOf(r, tr).request = r
  BY DEF RowOf
<1>4. QED
  BY <1>2, <1>3 DEF tr

LEMMA InitInv == Init => IInv
<1> SUFFICES ASSUME Init PROVE IInv
  OBVIOUS
<1>1. TypeOK
  <2>1. crashes \in 0..MaxCrashes
    BY IntakeAssumption DEF Init
  <2>2. degraded \subseteq {p \in Processes : Kind[p] = "ui"}
    BY DEF Init
  <2>3. /\ at \in [Threads -> {"idle", "accepted", "created"} \cup LogSteps]
        /\ \A t \in Threads : at[t] = "idle"
    BY DEF Init
  <2>4. /\ request \in [Threads -> Requests \cup {None}]
        /\ DOMAIN row = Threads /\ \A t \in Threads : row[t] = None
    BY DEF Init
  <2>5. /\ reply \in [Requests -> {"unsent", "open", "blocked", "failed", "answered", "lost"}]
        /\ store = {} /\ db = {}
        /\ lock \in [Processes -> {"none", "open", "reserved", "pending"}]
        /\ unsaved \in [Processes -> SUBSET Rows] /\ \A p \in Processes : unsaved[p] = {}
        /\ reader = "idle" /\ dataset = {}
    BY DEF Init
  <2>6. QED
    BY <2>1, <2>2, <2>3, <2>4, <2>5 DEF TypeOK, LogSteps
<1>2. \A x : ~Held(x)
  BY DEF Init, Held
<1>3. \A t \in Threads : at[t] = "idle"
  BY DEF Init
<1>4. QED
  BY <1>1, <1>2, <1>3
     DEF IInv, OneThread, WhereRowsAre, WhoseRowsAre, OneRow, TicketsFirst, Lone, LogSteps

-------------------------------------------------------------------------------
(* A thread ends its request; the connection may be left locked.           *)

LockKept ==
    /\ lock' \in [Processes -> {"none", "open", "reserved", "pending"}]
    /\ \A p \in Processes :
          /\ lock'[p] = "none" <=> lock[p] = "none"
          /\ unsaved[p] # {} => lock'[p] \in {"reserved", "pending"}

LEMMA EndsInv ==
    ASSUME IInv, NEW t \in Threads, NEW how \in {"failed", "lost", "answered"},
           at[t] # "idle", Ends(t, how), LockKept,
           store \subseteq store', store' \subseteq [request : Requests, text : Texts],
           UNCHANGED <<degraded, db, unsaved, readVars, crashes>>
    PROVE  IInv'
<1> USE DEF readVars
<1>1. /\ request[t] \in Requests /\ reply[request[t]] = "open"
      /\ ProcessOf[t] \in Processes
  BY IntakeAssumption DEF IInv, TypeOK, OneThread
<1>2. \A x : Held(x)' <=> Held(x)
  BY DEF Held
<1>3. TypeOK'
  BY <1>1 DEF IInv, TypeOK, Ends, LockKept, LogSteps
<1>4. OneThread'
  BY <1>1 DEF IInv, TypeOK, OneThread, Ends
<1>5. WhereRowsAre'
  BY DEF IInv, TypeOK, WhereRowsAre, Ends
<1>6. WhoseRowsAre'
  <2> SUFFICES ASSUME NEW x \in Rows, Held(x)
               PROVE  /\ reply'[x.request] \notin {"unsent", "blocked"}
                      /\ HasTicket(x.request)'
                      /\ \A u \in Threads : at'[u] # "idle" /\ request'[u] = x.request =>
                            at'[u] \in {"inserted", "commit", "logged"}
    BY <1>2 DEF WhoseRowsAre
  <2>1. x.request \in Requests
    BY RowFacts
  <2>2. QED
    BY <2>1, <1>1 DEF IInv, TypeOK, WhoseRowsAre, HasTicket, Ends
<1>7. OneRow'
  BY <1>2 DEF IInv, OneRow
<1>8. TicketsFirst'
  BY DEF IInv, TypeOK, TicketsFirst, HasTicket, IsDegraded, Ends, LogSteps
<1>9. Lone'
  BY IntakeAssumption DEF IInv, TypeOK, Lone, Alone, Ends, LockKept
<1>10. QED
  BY <1>3, <1>4, <1>5, <1>6, <1>7, <1>8, <1>9 DEF IInv

LEMMA EndsKeepsLog ==
    ASSUME IInv, NEW t \in Threads, NEW how \in {"failed", "lost"},
           at[t] # "idle", Ends(t, how), db' = db
    PROVE  Promised
<1>1. request[t] \in Requests /\ reply[request[t]] = "open"
  BY DEF IInv, TypeOK, OneThread
<1>2. QED
  BY <1>1 DEF IInv, TypeOK, Ends, Promised, LogStays, Answered

(* Everything that ends in an error or without an answer.                  *)
LEMMA RaisesInv ==
    ASSUME IInv, NEW t \in Threads,
           \/ CreateRaises(t) \/ HandleRaises(t) \/ Interrupted(t)
           \/ BeginFails(t) \/ InsertLocked(t) \/ CommitFails(t) \/ CommitLocked(t)
    PROVE  IInv' /\ Promised
<1>1. CASE CreateRaises(t) \/ HandleRaises(t) \/ Interrupted(t)
             \/ BeginFails(t) \/ InsertLocked(t) \/ CommitFails(t)
  <2>0. store \subseteq store' /\ store' \subseteq [request : Requests, text : Texts]
    <3>1. CASE CreateRaises(t)
      <4>1. request[t] \in Requests
        BY <3>1 DEF CreateRaises, IInv, TypeOK
      <4>2. \A body \in Offered(t) \ {"injection"} : Screened(body) \in Texts
        BY DEF Offered, Bodies, Screened, Texts
      <4>3. QED
        BY <3>1, <4>1, <4>2 DEF CreateRaises, IInv, TypeOK
    <3>2. CASE ~CreateRaises(t)
      BY <1>1, <3>2 DEF HandleRaises, Interrupted, BeginFails, InsertLocked, CommitFails,
                        IInv, TypeOK
    <3>3. QED
      BY <3>1, <3>2
  <2>1. PICK how \in {"failed", "lost"} : Ends(t, how)
    BY <1>1 DEF CreateRaises, HandleRaises, Interrupted, BeginFails, InsertLocked,
                CommitFails, Raises
  <2>2. at[t] # "idle"
    BY <1>1 DEF CreateRaises, HandleRaises, Interrupted, BeginFails, InsertLocked, CommitFails
  <2>3. UNCHANGED <<degraded, logVars, readVars, crashes>>
    BY <1>1 DEF CreateRaises, HandleRaises, Interrupted, BeginFails, InsertLocked, CommitFails
  <2>4. LockKept
    BY <2>3 DEF IInv, TypeOK, LockKept, logVars
  <2>5. QED
    BY <2>0, <2>1, <2>2, <2>3, <2>4, EndsInv, EndsKeepsLog DEF logVars
<1>2. CASE CommitLocked(t)
  <2>1. ProcessOf[t] \in Processes
    BY IntakeAssumption
  <2>2. LockKept
    BY <1>2, <2>1 DEF IInv, TypeOK, LockKept, CommitLocked
  <2>3. Ends(t, "failed") /\ at[t] # "idle"
    BY <1>2 DEF CommitLocked, Raises
  <2>4. store' = store /\ store \subseteq [request : Requests, text : Texts]
    BY <1>2 DEF CommitLocked, IInv, TypeOK
  <2>5. QED
    BY <1>2, <2>2, <2>3, <2>4, EndsInv, EndsKeepsLog DEF CommitLocked
<1>3. QED
  BY <1>1, <1>2

LEMMA AnswerInv ==
    ASSUME IInv, NEW t \in Threads, Answer(t)
    PROVE  IInv' /\ Promised
<1>1. /\ request[t] \in Requests /\ reply[request[t]] = "open"
      /\ row[t] \in db /\ row[t].request = request[t]
  BY DEF IInv, TypeOK, OneThread, WhereRowsAre, Answer, LogSteps
<1>2. LockKept
  BY DEF IInv, TypeOK, LockKept, Answer, logVars
<1>3. IInv'
  BY <1>2, EndsInv DEF Answer, logVars, IInv, TypeOK
<1>4. Answered' = Answered \cup {row[t].request}
  BY <1>1 DEF IInv, TypeOK, Answer, Ends, Answered
<1>5. QED
  BY <1>1, <1>3, <1>4 DEF Promised, OneAnswered, Answer, logVars

-------------------------------------------------------------------------------
(* A request on its way to the log                                         *)

LEMMA BlockInv ==
    ASSUME IInv, NEW t \in Threads, Block(t)
    PROVE  IInv' /\ Promised
<1>1. PICK r \in Requests : reply[r] = "unsent" /\ reply' = [reply EXCEPT ![r] = "blocked"]
  BY DEF Block
<1>2. UNCHANGED <<threadVars, store, degraded, logVars, readVars, crashes>>
  BY DEF Block
<1> USE DEF threadVars, logVars, readVars
<1>3. \A x : Held(x)' <=> Held(x)
  BY <1>2 DEF Held
<1>4. TypeOK'
  BY <1>1, <1>2 DEF IInv, TypeOK
<1>5. OneThread'
  BY <1>1, <1>2 DEF IInv, TypeOK, OneThread
<1>6. WhoseRowsAre'
  BY <1>1, <1>2, <1>3 DEF IInv, TypeOK, WhoseRowsAre, HasTicket
<1>7. WhereRowsAre' /\ OneRow' /\ TicketsFirst' /\ Lone'
  BY <1>2, <1>3 DEF IInv, WhereRowsAre, OneRow, TicketsFirst, Lone, Alone, HasTicket, IsDegraded
<1>8. LogStays
  BY <1>1, <1>2 DEF IInv, TypeOK, LogStays, Answered
<1>9. QED
  BY <1>4, <1>5, <1>6, <1>7, <1>8 DEF IInv, Promised

LEMMA AcceptInv ==
    ASSUME IInv, NEW t \in Threads, Accept(t)
    PROVE  IInv' /\ Promised
<1>1. PICK r \in Requests : /\ reply[r] = "unsent"
                            /\ reply' = [reply EXCEPT ![r] = "open"]
                            /\ request' = [request EXCEPT ![t] = r]
  BY DEF Accept
<1>2. /\ UNCHANGED <<row, store, degraded, logVars, readVars, crashes>>
      /\ at[t] = "idle" /\ at' = [at EXCEPT ![t] = "accepted"]
  BY DEF Accept
<1> USE DEF logVars, readVars
<1>3. \A x : Held(x)' <=> Held(x)
  BY <1>2 DEF Held
<1>4. TypeOK'
  BY <1>1, <1>2 DEF IInv, TypeOK, LogSteps
<1>5. OneThread'
  BY <1>1, <1>2 DEF IInv, TypeOK, OneThread
<1>6. WhoseRowsAre'
  BY <1>1, <1>2, <1>3 DEF IInv, TypeOK, WhoseRowsAre, HasTicket
<1>7. WhereRowsAre' /\ OneRow'
  BY <1>2, <1>3 DEF IInv, TypeOK, WhereRowsAre, OneRow
<1>8. TicketsFirst'
  BY <1>1, <1>2 DEF IInv, TypeOK, TicketsFirst, HasTicket, IsDegraded, LogSteps
<1>9. Lone'
  BY <1>2 DEF IInv, TypeOK, Lone, Alone
<1>10. LogStays
  BY <1>1, <1>2 DEF IInv, TypeOK, LogStays, Answered
<1>11. QED
  BY <1>4, <1>5, <1>6, <1>7, <1>8, <1>9, <1>10 DEF IInv, Promised

LEMMA CreateTicketInv ==
    ASSUME IInv, NEW t \in Threads, CreateTicket(t)
    PROVE  IInv' /\ Promised
<1>1. PICK body \in Offered(t) \ {"injection"} :
         store' = IF IsDegraded(t) THEN store
                  ELSE store \cup {[request |-> request[t], text |-> Screened(body)]}
  BY DEF CreateTicket
<1>2. /\ UNCHANGED <<request, row, reply, degraded, logVars, readVars, crashes>>
      /\ at[t] = "accepted" /\ at' = [at EXCEPT ![t] = "created"]
  BY DEF CreateTicket
<1> USE DEF logVars, readVars
<1>3. \A x : Held(x)' <=> Held(x)
  BY <1>2 DEF Held
<1>4. Screened(body) \in Texts
  BY DEF Offered, Bodies, Screened, Texts
<1>5. store' \subseteq [request : Requests, text : Texts]
  BY <1>1, <1>2, <1>4 DEF IInv, TypeOK
<1>6. TypeOK'
  BY <1>2, <1>5 DEF IInv, TypeOK, LogSteps
<1>7. OneThread' /\ WhereRowsAre' /\ OneRow' /\ Lone'
  BY <1>2, <1>3 DEF IInv, TypeOK, OneThread, WhereRowsAre, OneRow, Lone, Alone
<1>8. store \subseteq store' /\ (~IsDegraded(t) => HasTicket(request[t])')
  <2> DEFINE k == [request |-> request[t], text |-> Screened(body)]
  <2>1. k.request = request[t]
    OBVIOUS
  <2> HIDE DEF k
  <2>2. store' = IF IsDegraded(t) THEN store ELSE store \cup {k}
    BY <1>1 DEF k
  <2>3. QED
    BY <1>2, <2>1, <2>2 DEF HasTicket
<1>9. WhoseRowsAre'
  BY <1>2, <1>3, <1>8 DEF IInv, TypeOK, WhoseRowsAre, HasTicket
<1>10. TicketsFirst'
  BY <1>2, <1>8 DEF IInv, TypeOK, TicketsFirst, HasTicket, IsDegraded, LogSteps
<1>11. LogStays
  BY <1>2 DEF LogStays, Answered
<1>12. QED
  BY <1>6, <1>7, <1>9, <1>10, <1>11 DEF IInv, Promised

LEMMA HandleInv ==
    ASSUME IInv, NEW t \in Threads, Handle(t)
    PROVE  IInv' /\ Promised
<1>1. PICK outcome \in PlannerOutcomes, took \in Latencies :
         row' = [row EXCEPT ![t] = RowOf(request[t], Trajectory(t, outcome, took))]
  BY DEF Handle
<1>2. /\ UNCHANGED <<request, reply, store, degraded, logVars, readVars, crashes>>
      /\ at[t] = "created" /\ at' = [at EXCEPT ![t] = "handled"] /\ ~IsDegraded(t)
  BY DEF Handle
<1> USE DEF logVars, readVars
<1>3. \A x : Held(x)' <=> Held(x)
  BY <1>2 DEF Held
<1>4. request[t] \in Requests
  BY <1>2 DEF IInv, TypeOK
<1>5. PICK new \in Rows : row' = [row EXCEPT ![t] = new] /\ new.request = request[t]
  BY <1>1, <1>4, ScoredRow
<1>6. TypeOK'
  BY <1>2, <1>5 DEF IInv, TypeOK, LogSteps
<1>7. OneThread' /\ WhereRowsAre' /\ OneRow' /\ Lone'
  BY <1>2, <1>3, <1>5 DEF IInv, TypeOK, OneThread, WhereRowsAre, OneRow, Lone, Alone
<1>8. WhoseRowsAre'
  BY <1>2, <1>3 DEF IInv, TypeOK, WhoseRowsAre, HasTicket
<1>9. TicketsFirst'
  BY <1>2 DEF IInv, TypeOK, TicketsFirst, HasTicket, IsDegraded, LogSteps
<1>10. LogStays
  BY <1>2 DEF LogStays, Answered
<1>11. QED
  BY <1>6, <1>7, <1>8, <1>9, <1>10 DEF IInv, Promised

-------------------------------------------------------------------------------
(* TrajectoryLogger.log                                                    *)

(* The two looks at the connection's state.                                *)
LEMMA LooksInv ==
    ASSUME IInv, NEW t \in Threads, Execute(t) \/ Commit(t)
    PROVE  IInv' /\ Promised
<1>1. UNCHANGED <<request, row, reply, store, degraded, logVars, readVars, crashes>>
  BY DEF Execute, Commit
<1> USE DEF logVars, readVars
<1>2. \A x : Held(x)' <=> Held(x)
  BY <1>1 DEF Held
<1>3. ProcessOf[t] \in Processes
  BY IntakeAssumption
<1>4. lock[ProcessOf[t]] = "none" => unsaved[ProcessOf[t]] = {}
  BY <1>3 DEF IInv, TypeOK
<1>5. TypeOK'
  BY <1>1 DEF IInv, TypeOK, LogSteps, Execute, Commit
<1>6. OneThread' /\ OneRow'
  BY <1>1, <1>2 DEF IInv, TypeOK, OneThread, OneRow, Execute, Commit
<1>7. WhereRowsAre'
  BY <1>1, <1>4 DEF IInv, TypeOK, WhereRowsAre, Execute, Commit
<1>8. WhoseRowsAre'
  BY <1>1, <1>2 DEF IInv, TypeOK, WhoseRowsAre, HasTicket, Execute, Commit
<1>9. TicketsFirst'
  BY <1>1 DEF IInv, TypeOK, TicketsFirst, HasTicket, IsDegraded, LogSteps, Execute, Commit
<1>10. Lone'
  BY <1>1 DEF IInv, TypeOK, Lone, Alone, Execute, Commit
<1>11. LogStays
  BY <1>1 DEF LogStays, Answered
<1>12. QED
  BY <1>5, <1>6, <1>7, <1>8, <1>9, <1>10, <1>11 DEF IInv, Promised

LEMMA BeginInv ==
    ASSUME IInv, NEW t \in Threads, Begin(t)
    PROVE  IInv' /\ Promised
<1>1. /\ UNCHANGED <<request, row, reply, store, degraded, db, unsaved, readVars, crashes>>
      /\ at[t] = "begin" /\ at' = [at EXCEPT ![t] = "insert"]
      /\ lock[ProcessOf[t]] = "none" /\ lock' = [lock EXCEPT ![ProcessOf[t]] = "open"]
  BY DEF Begin
<1> USE DEF readVars
<1>2. \A x : Held(x)' <=> Held(x)
  BY <1>1 DEF Held
<1>3. ProcessOf \in [Threads -> Processes]
  BY IntakeAssumption
<1>4. TypeOK'
  BY <1>1, <1>3 DEF IInv, TypeOK, LogSteps
<1>5. OneThread' /\ OneRow' /\ WhereRowsAre'
  BY <1>1, <1>2 DEF IInv, TypeOK, OneThread, OneRow, WhereRowsAre
<1>6. WhoseRowsAre'
  BY <1>1, <1>2 DEF IInv, TypeOK, WhoseRowsAre, HasTicket
<1>7. TicketsFirst'
  BY <1>1 DEF IInv, TypeOK, TicketsFirst, HasTicket, IsDegraded, LogSteps
<1>8. Lone'
  BY <1>1, <1>3 DEF IInv, TypeOK, Lone, Alone
<1>9. LogStays
  BY <1>1 DEF LogStays, Answered
<1>10. QED
  BY <1>4, <1>5, <1>6, <1>7, <1>8, <1>9 DEF IInv, Promised

(* The row becomes held: it is the only one of its request.                *)
LEMMA InsertInv ==
    ASSUME IInv, NEW t \in Threads, Insert(t) \/ InsertAlone(t)
    PROVE  IInv' /\ Promised
<1>1. /\ UNCHANGED <<request, row, reply, store, degraded, readVars, crashes>>
      /\ at[t] = "insert" /\ at' = [at EXCEPT ![t] = "inserted"]
  BY DEF Insert, InsertAlone
<1> USE DEF readVars
<1>2. ProcessOf \in [Threads -> Processes]
  BY IntakeAssumption
<1>3. /\ row[t] \in Rows /\ row[t].request = request[t] /\ request[t] \in Requests
      /\ reply[request[t]] = "open" /\ HasTicket(request[t])
  BY <1>1 DEF IInv, TypeOK, OneThread, TicketsFirst, LogSteps
<1>4. \/ /\ unsaved' = [unsaved EXCEPT ![ProcessOf[t]] = @ \cup {row[t]}]
         /\ db' = db
         /\ lock' = [lock EXCEPT ![ProcessOf[t]] = IF @ = "open" THEN "reserved" ELSE @]
         /\ lock[ProcessOf[t]] # "none"
      \/ /\ db' = db \cup {row[t]}
         /\ UNCHANGED <<unsaved, lock>>
  BY DEF Insert, InsertAlone
<1>5. \A x : Held(x)' => Held(x) \/ x = row[t]
  BY <1>2, <1>4 DEF IInv, TypeOK, Held
<1>6. \A x \in Rows : Held(x) => x.request # request[t]
  BY <1>1 DEF IInv, WhoseRowsAre
<1>7. TypeOK'
  <2>1. at' \in [Threads -> {"idle", "accepted", "created"} \cup LogSteps]
    BY <1>1 DEF IInv, TypeOK, LogSteps
  <2>2. db' \subseteq Rows /\ unsaved' \in [Processes -> SUBSET Rows]
    BY <1>2, <1>3, <1>4 DEF IInv, TypeOK
  <2>3. lock' \in [Processes -> {"none", "open", "reserved", "pending"}]
    BY <1>2, <1>4 DEF IInv, TypeOK
  <2>4. \A p \in Processes : unsaved'[p] # {} => lock'[p] \in {"reserved", "pending"}
    BY <1>2, <1>4 DEF IInv, TypeOK
  <2>5. \A u \in Threads : at'[u] \in LogSteps => at[u] \in LogSteps
    BY <1>1 DEF IInv, TypeOK, LogSteps
  <2>6. \A u \in Threads : at'[u] # "idle" => at[u] # "idle"
    BY <1>1 DEF IInv, TypeOK
  <2>7. QED
    BY <1>1, <2>1, <2>2, <2>3, <2>4, <2>5, <2>6 DEF IInv, TypeOK
<1>8. OneThread'
  BY <1>1 DEF IInv, TypeOK, OneThread
<1>9. WhereRowsAre'
  <2>1. db \subseteq db' /\ \A p \in Processes : unsaved[p] \subseteq unsaved'[p]
    BY <1>2, <1>4 DEF IInv, TypeOK
  <2>2. row[t] \in db' \cup unsaved'[ProcessOf[t]]
    BY <1>2, <1>4 DEF IInv, TypeOK
  <2>3. \A u \in Threads \ {t} : at'[u] = at[u]
    BY <1>1 DEF IInv, TypeOK
  <2>4. at'[t] = "inserted" /\ row' = row
    BY <1>1 DEF IInv, TypeOK
  <2>5. \A u \in Threads : ProcessOf[u] \in Processes
    BY <1>2
  <2>6. QED
    BY <2>1, <2>2, <2>3, <2>4, <2>5 DEF IInv, WhereRowsAre
<1>10. WhoseRowsAre'
  <2> SUFFICES ASSUME NEW x \in Rows, Held(x)'
               PROVE  /\ reply[x.request] \notin {"unsent", "blocked"}
                      /\ HasTicket(x.request)
                      /\ \A u \in Threads : at'[u] # "idle" /\ request[u] = x.request =>
                            at'[u] \in {"inserted", "commit", "logged"}
    BY <1>1 DEF WhoseRowsAre, HasTicket
  <2>1. CASE Held(x)
    BY <2>1, <1>1, <1>6 DEF IInv, TypeOK, WhoseRowsAre
  <2>2. CASE x = row[t]
    BY <2>2, <1>1, <1>3 DEF IInv, TypeOK, OneThread
  <2>3. QED
    BY <1>5, <2>1, <2>2
<1>11. OneRow'
  BY <1>3, <1>5, <1>6 DEF IInv, OneRow
<1>12. TicketsFirst'
  BY <1>1 DEF IInv, TypeOK, TicketsFirst, HasTicket, IsDegraded, LogSteps
<1>13. Lone'
  <2>1. \A p \in Processes : lock'[p] = "none" <=> lock[p] = "none"
    BY <1>2, <1>4 DEF IInv, TypeOK
  <2>2. \A u \in Threads : at'[u] \in {"begin", "commit"} => at'[u] = at[u]
    BY <1>1 DEF IInv, TypeOK
  <2>3. QED
    BY <1>2, <2>1, <2>2 DEF IInv, Lone, Alone
<1>14. RowsCommitted \/ LogStays
  <2>1. Answered' = Answered
    BY <1>1 DEF Answered
  <2>2. \A x \in db' : Held(x)' /\ x \in Rows
    BY <1>7 DEF TypeOK, Held
  <2>3. \A a, b \in db' : a.request = b.request => a = b
    BY <2>2, <1>11 DEF OneRow
  <2>4. db \subseteq db' /\ db' \subseteq Rows
    BY <1>4, <2>2
  <2>5. QED
    BY <2>1, <2>3, <2>4 DEF RowsCommitted
<1>15. QED
  BY <1>7, <1>8, <1>9, <1>10, <1>11, <1>12, <1>13, <1>14 DEF IInv, Promised

(* All rows of the connection's transaction are committed.                 *)
LEMMA CommitStatementInv ==
    ASSUME IInv, NEW t \in Threads, CommitStatement(t)
    PROVE  IInv' /\ Promised
<1> DEFINE p == ProcessOf[t]
<1>1. /\ UNCHANGED <<request, row, reply, store, degraded, readVars, crashes>>
      /\ at[t] = "commit" /\ at' = [at EXCEPT ![t] = "logged"]
      /\ db' = db \cup unsaved[p]
      /\ unsaved' = [unsaved EXCEPT ![p] = {}]
      /\ lock' = [lock EXCEPT ![p] = "none"]
  BY DEF CommitStatement
<1> USE DEF readVars
<1>2. ProcessOf \in [Threads -> Processes]
  BY IntakeAssumption
<1>3. \A x : Held(x)' <=> Held(x)
  BY <1>1, <1>2 DEF IInv, TypeOK, Held
<1>4. TypeOK'
  BY <1>1, <1>2 DEF IInv, TypeOK, LogSteps
<1>5. OneThread' /\ OneRow'
  BY <1>1, <1>3 DEF IInv, TypeOK, OneThread, OneRow
<1>6. WhereRowsAre'
  <2>1. \A u \in Threads : db \cup unsaved[ProcessOf[u]] \subseteq db' \cup unsaved'[ProcessOf[u]]
    BY <1>1, <1>2 DEF IInv, TypeOK
  <2>2. row[t] \in db'
    BY <1>1 DEF IInv, WhereRowsAre
  <2>3. \A u \in Threads \ {t} : at'[u] = at[u]
    BY <1>1 DEF IInv, TypeOK
  <2>4. at'[t] = "logged" /\ row' = row /\ db \subseteq db'
    BY <1>1 DEF IInv, TypeOK
  <2>5. QED
    BY <2>1, <2>2, <2>3, <2>4 DEF IInv, WhereRowsAre
<1>7. WhoseRowsAre'
  BY <1>1, <1>3 DEF IInv, TypeOK, WhoseRowsAre, HasTicket
<1>8. TicketsFirst'
  BY <1>1 DEF IInv, TypeOK, TicketsFirst, HasTicket, IsDegraded, LogSteps
<1>9. Lone'
  <2>1. \A u \in Threads : at'[u] \in {"begin", "commit"} => u # t /\ at'[u] = at[u]
    BY <1>1 DEF IInv, TypeOK
  <2>2. \A u \in Threads : ProcessOf[u] # p => lock'[ProcessOf[u]] = lock[ProcessOf[u]]
    BY <1>1, <1>2 DEF IInv, TypeOK
  <2>3. QED
    BY <1>2, <2>1, <2>2 DEF IInv, Lone, Alone
<1>10. RowsCommitted
  <2>1. Answered' = Answered
    BY <1>1 DEF Answered
  <2>2. \A x \in db' : Held(x)' /\ x \in Rows
    BY <1>4 DEF TypeOK, Held
  <2>3. \A a, b \in db' : a.request = b.request => a = b
    BY <2>2, <1>5 DEF OneRow
  <2>4. db \subseteq db' /\ db' \subseteq Rows
    BY <1>1, <2>2
  <2>5. QED
    BY <2>1, <2>3, <2>4 DEF RowsCommitted
<1>11. QED
  BY <1>4, <1>5, <1>6, <1>7, <1>8, <1>9, <1>10 DEF IInv, Promised

(* The threads of the process are gone, and with them what it held.        *)
LEMMA CrashInv ==
    ASSUME IInv, NEW p \in Processes, Crash(p)
    PROVE  IInv' /\ Promised
<1> DEFINE own == {t \in Threads : ProcessOf[t] = p}
           open == {request[t] : t \in {u \in own : at[u] # "idle"}}
<1>1. /\ at' = [t \in Threads |-> IF t \in own THEN "idle" ELSE at[t]]
      /\ request' = [t \in Threads |-> IF t \in own THEN None ELSE request[t]]
      /\ row' = [t \in Threads |-> IF t \in own THEN None ELSE row[t]]
      /\ reply' = [r \in Requests |-> IF r \in open THEN "lost" ELSE reply[r]]
  BY DEF Crash
<1>2. /\ UNCHANGED <<store, db, readVars>>
      /\ lock' = [lock EXCEPT ![p] = "none"]
      /\ unsaved' = [unsaved EXCEPT ![p] = {}]
      /\ crashes < MaxCrashes /\ crashes' = crashes + 1
  BY DEF Crash
<1> USE DEF readVars
<1>3. ProcessOf \in [Threads -> Processes] /\ MaxCrashes \in Nat
  BY IntakeAssumption
<1>4. \A t \in Threads : ProcessOf[t] # p =>
          /\ at'[t] = at[t] /\ request'[t] = request[t] /\ row'[t] = row[t]
          /\ unsaved'[ProcessOf[t]] = unsaved[ProcessOf[t]]
          /\ lock'[ProcessOf[t]] = lock[ProcessOf[t]]
          /\ IsDegraded(t)' <=> IsDegraded(t)
  <2>1. \A q \in Processes : q # p => (q \in degraded' <=> q \in degraded)
    BY DEF Crash
  <2>2. QED
    BY <1>1, <1>2, <1>3, <2>1 DEF IInv, TypeOK, IsDegraded
<1>5. \A t \in Threads : ProcessOf[t] = p => at'[t] = "idle"
  BY <1>1
<1>6. \A x : Held(x)' => Held(x)
  BY <1>2 DEF IInv, TypeOK, Held
<1>7. \A r \in Requests : r \in open => reply[r] = "open"
  BY DEF IInv, OneThread
<1>8. \A t \in Threads : ProcessOf[t] # p /\ at[t] # "idle" => request[t] \notin open
  BY DEF IInv, OneThread
<1> HIDE DEF open
<1>9. TypeOK'
  <2>1. degraded' \subseteq {q \in Processes : Kind[q] = "ui"}
    BY DEF Crash, IInv, TypeOK
  <2>2. crashes' \in 0..MaxCrashes
    BY <1>2, <1>3 DEF IInv, TypeOK
  <2>3. /\ at' \in [Threads -> {"idle", "accepted", "created"} \cup LogSteps]
        /\ request' \in [Threads -> Requests \cup {None}]
        /\ DOMAIN row' = Threads /\ \A t \in Threads : row'[t] = None \/ row'[t] \in Rows
    BY <1>1 DEF IInv, TypeOK
  <2>4. /\ \A t \in Threads : at'[t] # "idle" => request'[t] \in Requests
        /\ \A t \in Threads : at'[t] \in LogSteps =>
              row'[t] \in Rows /\ row'[t].request = request'[t]
    BY <1>4, <1>5 DEF IInv, TypeOK, LogSteps
  <2>5. reply' \in [Requests -> {"unsent", "open", "blocked", "failed", "answered", "lost"}]
    BY <1>1 DEF IInv, TypeOK
  <2>6. /\ lock' \in [Processes -> {"none", "open", "reserved", "pending"}]
        /\ unsaved' \in [Processes -> SUBSET Rows]
        /\ \A q \in Processes : unsaved'[q] # {} => lock'[q] \in {"reserved", "pending"}
    BY <1>2 DEF IInv, TypeOK
  <2>7. QED
    BY <1>2, <2>1, <2>2, <2>3, <2>4, <2>5, <2>6 DEF IInv, TypeOK
<1>10. OneThread'
  BY <1>1, <1>4, <1>5, <1>8 DEF IInv, TypeOK, OneThread
<1>11. WhereRowsAre'
  BY <1>2, <1>4, <1>5 DEF IInv, WhereRowsAre
<1>12. WhoseRowsAre'
  <2> SUFFICES ASSUME NEW x \in Rows, Held(x)
               PROVE  /\ reply'[x.request] \notin {"unsent", "blocked"}
                      /\ HasTicket(x.request)'
                      /\ \A u \in Threads : at'[u] # "idle" /\ request'[u] = x.request =>
                            at'[u] \in {"inserted", "commit", "logged"}
    BY <1>6 DEF WhoseRowsAre
  <2>1. x.request \in Requests
    BY RowFacts
  <2>2. QED
    BY <2>1, <1>1, <1>2, <1>4, <1>5 DEF IInv, WhoseRowsAre, HasTicket
<1>13. OneRow'
  BY <1>6 DEF IInv, OneRow
<1>14. TicketsFirst'
  BY <1>2, <1>4, <1>5 DEF IInv, TicketsFirst, HasTicket, LogSteps
<1>15. Lone'
  BY <1>4, <1>5 DEF IInv, Lone, Alone
<1>16. LogStays
  <2>1. \A r \in Requests : reply'[r] = "answered" <=> reply[r] = "answered"
    BY <1>1, <1>7
  <2>2. QED
    BY <1>2, <2>1 DEF LogStays, Answered
<1>17. QED
  BY <1>9, <1>10, <1>11, <1>12, <1>13, <1>14, <1>15, <1>16 DEF IInv, Promised

(* The training reads; nothing else changes.                               *)
LEMMA TrainingInv ==
    ASSUME IInv, FetchBegins \/ FetchEnds \/ \E t \in Threads : TrainOnPage(t)
    PROVE  IInv' /\ Promised
<1>1. UNCHANGED <<threadVars, reply, store, degraded, logVars, crashes>>
  BY DEF FetchBegins, FetchEnds, TrainOnPage, PageRows
<1>2. reader' \in {"idle", "reading"} /\ dataset' \subseteq Rows \cup {Synthetic}
  <2>1. \A rows \in SUBSET Rows : Dataset(rows) \subseteq Rows \cup {Synthetic}
    BY DEF Dataset, Samples
  <2>2. CASE FetchBegins
    BY <2>2 DEF FetchBegins, IInv, TypeOK
  <2>3. CASE FetchEnds
    BY <2>1, <2>3 DEF FetchEnds, IInv, TypeOK
  <2>4. ASSUME NEW t \in Threads, TrainOnPage(t)
        PROVE  reader' \in {"idle", "reading"} /\ dataset' \subseteq Rows \cup {Synthetic}
    <3>1. db \cup unsaved[ProcessOf[t]] \in SUBSET Rows
      BY IntakeAssumption DEF IInv, TypeOK
    <3>2. QED
      BY <2>1, <2>4, <3>1 DEF TrainOnPage, PageRows, IInv, TypeOK
  <2>5. QED
    BY <2>2, <2>3, <2>4
<1> USE DEF threadVars, logVars
<1>3. \A x : Held(x)' <=> Held(x)
  BY <1>1 DEF Held
<1>4. TypeOK'
  BY <1>1, <1>2 DEF IInv, TypeOK
<1>5. OneThread' /\ WhereRowsAre' /\ WhoseRowsAre' /\ OneRow' /\ TicketsFirst' /\ Lone'
  BY <1>1, <1>3 DEF IInv, OneThread, WhereRowsAre, WhoseRowsAre, OneRow, TicketsFirst, Lone,
                    Alone, HasTicket, IsDegraded
<1>6. LogStays
  BY <1>1 DEF LogStays, Answered
<1>7. QED
  BY <1>4, <1>5, <1>6 DEF IInv, Promised

LEMMA StepInv == IInv /\ [Next]_vars => IInv' /\ Promised
<1> SUFFICES ASSUME IInv, [Next]_vars PROVE IInv' /\ Promised
  OBVIOUS
<1>1. CASE UNCHANGED vars
  <2> USE <1>1 DEF vars, threadVars, logVars, readVars
  <2>1. TypeOK'
    BY DEF IInv, TypeOK
  <2>2. \A x : Held(x)' <=> Held(x)
    BY DEF Held
  <2>3. OneThread' /\ WhereRowsAre' /\ WhoseRowsAre' /\ OneRow' /\ TicketsFirst' /\ Lone'
    BY <2>2 DEF IInv, OneThread, WhereRowsAre, WhoseRowsAre, OneRow, TicketsFirst, Lone,
                Alone, HasTicket, IsDegraded
  <2>4. LogStays
    BY DEF LogStays, Answered
  <2>5. QED
    BY <2>1, <2>3, <2>4 DEF IInv, Promised
<1>2. ASSUME NEW t \in Threads,
             \/ Block(t) \/ Accept(t) \/ CreateTicket(t) \/ CreateRaises(t)
             \/ Handle(t) \/ HandleRaises(t) \/ Interrupted(t)
             \/ LogStep(t)
      PROVE  IInv' /\ Promised
  BY <1>2, BlockInv, AcceptInv, CreateTicketInv, HandleInv, RaisesInv, LooksInv, BeginInv,
     InsertInv, CommitStatementInv, AnswerInv DEF LogStep
<1>3. CASE Next
  BY <1>2, <1>3, CrashInv, TrainingInv DEF Next
<1>4. QED
  BY <1>1, <1>3

LEMMA Inductive == Spec => []IInv
  BY InitInv, StepInv, PTL DEF Spec

-------------------------------------------------------------------------------
(* Every variable keeps its type; above all, whatever text is in the       *)
(* shared memory has been screened (api/main.py:109-124, ui/app.py:152).   *)
THEOREM TypeCorrect == Spec => []TypeOK
<1>1. IInv => TypeOK
  BY DEF IInv
<1>2. QED
  BY <1>1, Inductive, PTL

(* The log that threads, processes and crashes share is the durable log: a *)
(* request is answered only when its row is committed, and rows stay       *)
(* (trajectory_logger.py:37-60, sqlite_store.py:15, api/main.py:135-153).  *)
THEOREM Refinement == Spec => LogIsDurable
<1>1. Init => Log!Init
  BY DEF Init, Log!Init
<1>2. IInv' /\ Promised => [Log!Next]_(Log!logVars)
  <2> SUFFICES ASSUME IInv', Promised PROVE [Log!Next]_(Log!logVars)
    OBVIOUS
  <2>1. CASE LogStays
    BY <2>1 DEF LogStays, Answered, Log!logVars
  <2>2. CASE RowsCommitted
    BY <2>2 DEF RowsCommitted, Answered, Log!Next, Log!Commit
  <2>3. CASE OneAnswered
    BY <2>3 DEF OneAnswered, Answered, Log!Next, Log!Answer
  <2>4. QED
    BY <2>1, <2>2, <2>3 DEF Promised
<1>3. QED
  BY <1>1, <1>2, InitInv, StepInv, PTL DEF Spec, LogIsDurable, Log!Spec

(* Whatever is logged, or waits to be, was accepted and is a ticket of the *)
(* shared memory (api/main.py:109-129, ui/app.py:152-189).                 *)
THEOREM RowsComeFromTickets == Spec => []RowsHaveTickets
<1>1. IInv => RowsHaveTickets
  <2> SUFFICES ASSUME IInv, NEW x \in db \cup UNION {unsaved[p] : p \in Processes}
               PROVE  /\ \E k \in store : k.request = x.request
                      /\ reply[x.request] # "blocked"
    BY DEF RowsHaveTickets
  <2>1. x \in Rows /\ Held(x)
    BY DEF IInv, TypeOK, Held
  <2>2. QED
    BY <2>1 DEF IInv, WhoseRowsAre, HasTicket
<1>2. QED
  BY <1>1, Inductive, PTL

(* A process with one thread never meets SQLite's transaction errors,      *)
(* whatever the other processes do (sqlite_store.py:15).                   *)
THEOREM LoneThreadsAreSafe == Spec => []LoneThreadsNeverRace
<1>1. IInv => LoneThreadsNeverRace
  BY DEF IInv, Lone, Alone, LoneThreadsNeverRace
<1>2. QED
  BY <1>1, Inductive, PTL

(* The reward of a trajectory without calls.                               *)
LEMMA RewardOfNoCalls ==
    ASSUME NEW tr \in LoggedTrajectories
    PROVE  IsChosen(CompositeReward(tr)) <=> tr.outcome = "resolved"
<1>1. /\ tr.calls = <<>> /\ tr.outcome \in PlannerOutcomes /\ tr.latency \in Latencies
  BY DEF LoggedTrajectories
<1>2. ErrorPenalty(tr) = 0
  <2>1. Failures(tr) = {}
    BY <1>1 DEF Failures
  <2>2. QED
    BY <2>1, FS_EmptySet DEF ErrorPenalty
<1>3. RewardBase(tr) = 1
  BY <1>1 DEF RewardBase
<1>4. LatencyReward(tr) \in {-10, 0, 10}
  BY DEF LatencyReward
<1>5. ResolutionSuccess(tr) = IF tr.outcome = "resolved" THEN 500 ELSE 0
  BY <1>1 DEF ResolutionSuccess, PlannerOutcomes
<1>6. CompositeReward(tr) =
        [den |-> 1,
         num |-> Clamped((ResolutionSuccess(tr) + 0 + LatencyReward(tr)) * 1 + 200 * Lesser(1, 3),
                         1000 * 1)]
  BY <1>2, <1>3 DEF CompositeReward
<1>7. CompositeReward(tr).num = ResolutionSuccess(tr) + LatencyReward(tr) + 200
  BY <1>4, <1>5, <1>6 DEF Clamped, Lesser
<1>8. CompositeReward(tr).den = 1
  BY <1>6
<1>9. QED
  BY <1>4, <1>5, <1>7, <1>8 DEF IsChosen

(* The reward that is logged is at least 0.6 exactly when the ticket was   *)
(* resolved, however slow (reward_functions.py:45-61, offline_rl.py:51).   *)
THEOREM RewardsAreOutcomes == Spec => []RewardsFollowOutcomes
<1>1. IInv => RewardsFollowOutcomes
  <2> SUFFICES ASSUME IInv, NEW x \in db
               PROVE  IsChosen(x.reward) <=> x.trajectory.outcome = "resolved"
    BY DEF RewardsFollowOutcomes
  <2>1. PICK r \in Requests, tr \in LoggedTrajectories : x = RowOf(r, tr)
    BY DEF IInv, TypeOK, Rows
  <2>2. x.reward = CompositeReward(tr) /\ x.trajectory = tr
    BY <2>1 DEF RowOf
  <2>3. QED
    BY <2>2, RewardOfNoCalls
<1>2. QED
  BY <1>1, Inductive, PTL
-------------------------------------------------------------------------------
(* What the durable log promises implies, for whoever implements it: an    *)
(* answered request has its one row, and rows are never taken back.        *)
LEMMA PromiseOfTheLog ==
    Log!Spec => /\ [](\A r \in Answered : \E x \in db : x.request = r)
                /\ [][db \subseteq db']_db
<1> DEFINE Inv == \A r \in Answered : \E x \in db : x.request = r
<1>1. Log!Init => Inv
  BY DEF Log!Init, Answered
<1>2. Inv /\ [Log!Next]_(Log!logVars) => Inv'
  <2> SUFFICES ASSUME Inv, [Log!Next]_(Log!logVars) PROVE Inv'
    OBVIOUS
  <2>1. CASE UNCHANGED Log!logVars
    BY <2>1 DEF Log!logVars, Answered
  <2>2. CASE Log!Commit
    BY <2>2 DEF Log!Commit, Answered
  <2>3. CASE Log!Answer
    BY <2>3 DEF Log!Answer, Answered
  <2>4. QED
    BY <2>1, <2>2, <2>3 DEF Log!Next
<1>3. [Log!Next]_(Log!logVars) => [db \subseteq db']_db
  BY DEF Log!Next, Log!Commit, Log!Answer, Log!logVars
<1>4. QED
  BY <1>1, <1>2, <1>3, PTL DEF Log!Spec

(* Whoever was answered has a row that no crash and no other thread takes  *)
(* away (api/main.py:135-153, trajectory_logger.py:37-60).                 *)
THEOREM AnswersHaveRows ==
    Spec => /\ [](\A r \in Requests : reply[r] = "answered" => \E x \in db : x.request = r)
            /\ [][db \subseteq db']_db
<1>1. (\A r \in Answered : \E x \in db : x.request = r) =>
          \A r \in Requests : reply[r] = "answered" => \E x \in db : x.request = r
  BY DEF Answered
<1>2. QED
  BY <1>1, Refinement, PromiseOfTheLog, PTL DEF LogIsDurable

(* No logged trajectory ever trains, however many there are: they hold no  *)
(* steps, so that what build_dataset writes is made up or empty            *)
(* (offline_rl.py:36-38, 66-80, meta_planner.py:233-256).                  *)
THEOREM NothingLoggedTrains == Spec => [](dataset \subseteq {Synthetic})
<1> DEFINE Inv == dataset \subseteq {Synthetic}
<1>1. Init => Inv
  BY DEF Init
<1>2. \A rows \in SUBSET Rows : Dataset(rows) \subseteq {Synthetic}
  <2> SUFFICES ASSUME NEW rows \in SUBSET Rows, NEW x \in Samples(rows) PROVE FALSE
    BY DEF Dataset
  <2>1. x \in Rows /\ x.trajectory.calls # <<>>
    BY DEF Samples
  <2>2. PICK r \in Requests, tr \in LoggedTrajectories : x = RowOf(r, tr)
    BY <2>1 DEF Rows
  <2>3. x.trajectory = tr /\ tr.calls = <<>>
    BY <2>2 DEF RowOf, LoggedTrajectories
  <2>4. QED
    BY <2>1, <2>3
<1>3. IInv /\ Inv /\ [Next]_vars => Inv'
  <2> SUFFICES ASSUME IInv, Inv, [Next]_vars PROVE Inv'
    OBVIOUS
  <2>1. db \in SUBSET Rows /\ \A p \in Processes : PageRows(p) \in SUBSET Rows
    BY DEF IInv, TypeOK, PageRows
  <2>2. CASE FetchEnds
    BY <1>2, <2>1, <2>2 DEF FetchEnds
  <2>3. CASE \E t \in Threads : TrainOnPage(t)
    <3>1. PICK t \in Threads : TrainOnPage(t)
      BY <2>3
    <3>2. ProcessOf[t] \in Processes
      BY IntakeAssumption
    <3>3. QED
      BY <1>2, <2>1, <3>1, <3>2 DEF TrainOnPage
  <2>4. CASE UNCHANGED dataset
    BY <2>4
  <2>5. ASSUME NEW t \in Threads,
               \/ Block(t) \/ Accept(t) \/ CreateTicket(t) \/ CreateRaises(t)
               \/ Handle(t) \/ HandleRaises(t) \/ Interrupted(t)
        PROVE  UNCHANGED dataset
    BY <2>5 DEF Block, Accept, CreateTicket, CreateRaises, Handle, HandleRaises, Interrupted,
                readVars
  <2>6. ASSUME NEW t \in Threads, LogStep(t) PROVE UNCHANGED dataset
    BY <2>6 DEF LogStep, Execute, Begin, BeginFails, Insert, InsertAlone, InsertLocked, Commit,
                CommitStatement, CommitFails, CommitLocked, Answer, readVars
  <2>7. CASE FetchBegins \/ (\E p \in Processes : Crash(p)) \/ UNCHANGED vars
    BY <2>7 DEF FetchBegins, Crash, vars, readVars
  <2>8. QED
    BY <2>2, <2>3, <2>4, <2>5, <2>6, <2>7 DEF Next
<1>4. QED
  BY <1>1, <1>3, Inductive, PTL DEF Spec
-------------------------------------------------------------------------------
(* How many steps of its own a thread has left until it has logged and     *)
(* answered, or raised.                                                    *)
LogLeft(t) ==
    CASE at[t] = "handled" -> 6
      [] at[t] = "begin" -> 5
      [] at[t] = "insert" -> 4
      [] at[t] = "inserted" -> 3
      [] at[t] = "commit" -> 2
      [] at[t] = "logged" -> 1
      [] OTHER -> 0

LogTable(t) ==
    /\ at[t] = "handled" => LogLeft(t) = 6
    /\ at[t] = "begin" => LogLeft(t) = 5
    /\ at[t] = "insert" => LogLeft(t) = 4
    /\ at[t] = "inserted" => LogLeft(t) = 3
    /\ at[t] = "commit" => LogLeft(t) = 2
    /\ at[t] = "logged" => LogLeft(t) = 1
    /\ at[t] = "idle" => LogLeft(t) = 0

LEMMA LogLeftIs == \A t \in Threads : LogTable(t)
  BY DEF LogLeft, LogTable

LEMMA OwnLogStep ==
    ASSUME IInv, NEW t \in Threads, LogStep(t), LogTable(t)'
    PROVE  LogLeft(t)' < LogLeft(t)
<1>1. LogTable(t)
  BY LogLeftIs
<1>2. \/ at[t] = "handled" /\ at'[t] \in {"begin", "insert"}
      \/ at[t] = "begin" /\ at'[t] \in {"insert", "idle"}
      \/ at[t] = "insert" /\ at'[t] \in {"inserted", "idle"}
      \/ at[t] = "inserted" /\ at'[t] \in {"commit", "logged"}
      \/ at[t] = "commit" /\ at'[t] \in {"logged", "idle"}
      \/ at[t] = "logged" /\ at'[t] = "idle"
  BY DEF LogStep, Execute, Begin, BeginFails, Insert, InsertAlone, InsertLocked, Commit,
         CommitStatement, CommitFails, CommitLocked, Answer, Raises, Ends, IInv, TypeOK
<1>3. CASE at[t] \in {"handled", "begin", "insert"}
  BY <1>1, <1>2, <1>3 DEF LogTable
<1>4. CASE at[t] \in {"inserted", "commit", "logged"}
  BY <1>1, <1>2, <1>4 DEF LogTable
<1>5. QED
  BY <1>2, <1>3, <1>4

(* What the other threads do leaves a thread where it is.                  *)
LEMMA OthersStayPut ==
    ASSUME IInv, NEW t \in Threads, NEW u \in Threads, u # t,
           \/ Block(t) \/ Accept(t) \/ CreateTicket(t) \/ CreateRaises(t)
           \/ Handle(t) \/ HandleRaises(t) \/ Interrupted(t)
           \/ LogStep(t) \/ TrainOnPage(t)
    PROVE  at'[u] = at[u]
<1>1. CASE LogStep(t)
  BY <1>1 DEF LogStep, Execute, Begin, BeginFails, Insert, InsertAlone, InsertLocked, Commit,
         CommitStatement, CommitFails, CommitLocked, Answer, Raises, Ends, IInv, TypeOK
<1>2. CASE Block(t) \/ TrainOnPage(t)
  BY <1>2 DEF Block, TrainOnPage, threadVars
<1>3. CASE \/ Accept(t) \/ CreateTicket(t) \/ CreateRaises(t)
           \/ Handle(t) \/ HandleRaises(t) \/ Interrupted(t)
  BY <1>3 DEF Accept, CreateTicket, CreateRaises, Handle, HandleRaises, Interrupted,
              Raises, Ends, IInv, TypeOK
<1>4. QED
  BY <1>1, <1>2, <1>3

(* A thread that is logging moves on with each of its steps, and neither   *)
(* another thread, nor another process and its crash, nor the training     *)
(* sends it back: log takes at most six steps, with an answer or an        *)
(* exception at the end (trajectory_logger.py:37-60).                      *)
THEOREM LogCallsAreShort ==
    Spec => [][\A t \in Threads : at[t] \in LogSteps =>
                  /\ at'[t] = at[t] \/ LogLeft(t)' < LogLeft(t)
                  /\ LogStep(t) => LogLeft(t)' < LogLeft(t)]_vars
<1>1. IInv /\ Next /\ (\A t \in Threads : LogTable(t))' =>
        \A t \in Threads : at[t] \in LogSteps =>
            /\ at'[t] = at[t] \/ LogLeft(t)' < LogLeft(t)
            /\ LogStep(t) => LogLeft(t)' < LogLeft(t)
  <2> SUFFICES ASSUME IInv, Next, (\A t \in Threads : LogTable(t))',
                      NEW u \in Threads, at[u] \in LogSteps
               PROVE  /\ at'[u] = at[u] \/ LogLeft(u)' < LogLeft(u)
                      /\ LogStep(u) => LogLeft(u)' < LogLeft(u)
    OBVIOUS
  <2>1. LogTable(u) /\ LogTable(u)'
    BY LogLeftIs
  <2>2. at'[u] = "idle" => LogLeft(u)' < LogLeft(u)
    BY <2>1 DEF LogTable, LogSteps
  <2>3. LogStep(u) => LogLeft(u)' < LogLeft(u)
    BY <2>1, OwnLogStep
  <2> SUFFICES at'[u] = at[u] \/ LogLeft(u)' < LogLeft(u)
    BY <2>3
  <2>4. CASE \/ Block(u) \/ Accept(u) \/ CreateTicket(u) \/ CreateRaises(u)
             \/ Handle(u) \/ HandleRaises(u) \/ Interrupted(u) \/ TrainOnPage(u)
    <3>1. Interrupted(u)
      BY <2>4 DEF Block, Accept, CreateTicket, CreateRaises, Handle, HandleRaises,
                  TrainOnPage, LogSteps
    <3>2. at'[u] = "idle"
      BY <3>1 DEF Interrupted, Ends, IInv, TypeOK
    <3>3. QED
      BY <2>2, <3>2
  <2>5. ASSUME NEW t \in Threads, t # u,
               \/ Block(t) \/ Accept(t) \/ CreateTicket(t) \/ CreateRaises(t)
               \/ Handle(t) \/ HandleRaises(t) \/ Interrupted(t)
               \/ LogStep(t) \/ TrainOnPage(t)
        PROVE  at'[u] = at[u]
    BY <2>5, OthersStayPut
  <2>6. CASE \E p \in Processes : Crash(p)
    <3>1. at'[u] \in {"idle", at[u]}
      BY <2>6 DEF Crash
    <3>2. QED
      BY <2>2, <3>1
  <2>7. CASE FetchBegins \/ FetchEnds
    BY <2>7 DEF FetchBegins, FetchEnds, threadVars
  <2>8. QED
    BY <2>3, <2>4, <2>5, <2>6, <2>7 DEF Next
<1>2. QED
  BY <1>1, Inductive, LogLeftIs, PTL DEF Spec
===============================================================================
