----------------------- MODULE SharedTicketMemoryProofs -----------------------
(***************************************************************************)
(* Theorems about SharedTicketMemory, for every number of threads, tickets *)
(* and retries, every mix of operations and connections that may break.    *)
(* The inductive invariant is TypeOK together with ClientInv: what each    *)
(* program location knows about the call, the connection and the store.    *)
(***************************************************************************)
EXTENDS SharedTicketMemory, TLAPS

Updating == {"read", "watch", "get", "exec"}

Refusals == {"loaded", "missing", "KeyError", "ValueError", "ValidationError",
             "VersionConflictError"}

ClientInv(c) ==
    /\ pc[c] # "idle" => call[c] \in Calls
    /\ pc[c] \in Updating => call[c].delta \in Deltas \cup {Malformed}
    /\ pc[c] = "exec" => call[c].delta \in Deltas
    /\ conn[c] # "off" <=> pc[c] \in {"get", "exec"}
    /\ pc[c] = "exec" /\ conn[c] = "clean" =>
          /\ snapshot[c] # Absent
          /\ snapshot[c] = store[call[c].ticket]
          /\ snapshot[c].version = call[c].expected
    /\ pc[c] \in {"watch", "get"} /\ call[c].op = "retry" /\ c \notin raced =>
          /\ store[call[c].ticket] # Absent
          /\ store[call[c].ticket].version = call[c].expected
    /\ pc[c] # "idle" => applied[c] = 0
    /\ applied[c] <= 1
    /\ outcome[c] = "ok" => applied[c] = 1
    /\ outcome[c] \in Refusals => applied[c] = 0

IInv == TypeOK /\ \A c \in Clients : ClientInv(c)

--------------------------------------------------------------------------------
(* What an update computes from a valid state is a valid state.            *)
LEMMA ApplyIsState ==
    ASSUME NEW state \in States, NEW delta \in Deltas
    PROVE  Promise!Apply(state, delta) \in States
<1>1. PICK F \in SUBSET Fields : delta \in [F -> Values]
  BY DeltasAssumption
<1>2. state.version + 1 \in Nat
  BY DEF States, Promise!States
<1>3. [f \in Fields |-> IF f \in DOMAIN delta THEN delta[f] ELSE state.data[f]]
          \in [Fields -> Values]
  BY <1>1 DEF States, Promise!States
<1>4. QED
  BY <1>2, <1>3 DEF Promise!Apply, States, Promise!States

LEMMA FreshIsState == Promise!FreshState \in States
BY FreshAssumption DEF Promise!FreshState, States, Promise!States

(* A step that writes nothing leaves the other clients' knowledge intact.  *)
LEMMA OthersUntouched ==
    ASSUME NEW c, NEW d \in Clients, d # c, TypeOK, ClientInv(d),
           UNCHANGED <<store, pc[d], call[d], conn[d], snapshot[d], outcome[d], applied[d]>>,
           d \in raced' <=> d \in raced
    PROVE  ClientInv(d)'
BY DEF ClientInv

(* A write by c may invalidate what d knows of its ticket, but it marks    *)
(* d's watching connection dirty and d as raced.                           *)
LEMMA OthersAfterWrite ==
    ASSUME NEW c \in Clients, NEW d \in Clients, d # c, TypeOK, ClientInv(d),
           NEW t \in Tickets, NEW state, Write(c, t, state),
           UNCHANGED <<pc[d], call[d], snapshot[d], outcome[d]>>
    PROVE  ClientInv(d)'
<1>1. applied'[d] = applied[d]
  BY DEF Write, TypeOK
<1>2. pc[d] # "idle" /\ call[d].ticket = t => d \in raced'
  BY DEF Write
<1>3. d \in raced => d \in raced'
  BY DEF Write
<1>4. pc[d] # "idle" /\ call[d].ticket # t => store'[call[d].ticket] = store[call[d].ticket]
  BY DEF Write, TypeOK, ClientInv, Calls
<1>5. conn'[d] = IF Watches(d, t) THEN "dirty" ELSE conn[d]
  BY DEF Write
<1>6. QED
  BY <1>1, <1>2, <1>3, <1>4, <1>5 DEF ClientInv, Watches, Updating

(* Init establishes the invariant, every action keeps it.                  *)
LEMMA InitIInv == Init => IInv
BY DEF Init, IInv, TypeOK, ClientInv, Updating, Refusals, Outcomes

(* A call begins.                                                          *)
LEMMA BeginIInv ==
    ASSUME IInv, NEW c \in Clients, Start(c)
    PROVE  IInv'
<1>1. PICK t \in Tickets, op \in Operations, delta \in Deltas \cup {Malformed, Absent},
           expected \in Nat :
        /\ Begin(c, op, t, delta, expected)
        /\ op \in {"create", "init", "update", "retry", "delete"}
        /\ op \in {"update", "retry"} => delta \in Deltas \cup {Malformed}
  <2>1. PICK t \in Tickets :
            \/ CallCreate(c, t) \/ CallInitFromTicket(c, t) \/ CallDelete(c, t)
            \/ \E delta \in Deltas \cup {Malformed} :
                  \/ CallUpdateWithRetry(c, t, delta)
                  \/ \E version \in Versions : CallUpdate(c, t, delta, version)
    BY DEF Start
  <2>2. CASE CallCreate(c, t) \/ CallInitFromTicket(c, t) \/ CallDelete(c, t)
    <3>1. PICK op \in {"create", "init", "delete"} : Begin(c, op, t, Absent, 0)
      BY <2>2 DEF CallCreate, CallInitFromTicket, CallDelete
    <3>2. op \in Operations
      BY <3>1 DEF Begin
    <3>3. QED
      BY <3>1, <3>2
  <2>3. CASE \E delta \in Deltas \cup {Malformed} : CallUpdateWithRetry(c, t, delta)
    <3>1. PICK delta \in Deltas \cup {Malformed} : Begin(c, "retry", t, delta, 0)
      BY <2>3 DEF CallUpdateWithRetry
    <3>2. "retry" \in Operations
      BY <3>1 DEF Begin
    <3>3. QED
      BY <3>1, <3>2
  <2>4. CASE \E delta \in Deltas \cup {Malformed}, version \in Versions :
                CallUpdate(c, t, delta, version)
    <3>1. PICK delta \in Deltas \cup {Malformed}, version \in Versions :
              Begin(c, "update", t, delta, version)
      BY <2>4 DEF CallUpdate
    <3>2. "update" \in Operations
      BY <3>1 DEF Begin
    <3>3. QED
      BY <3>1, <3>2, VersionsAssumption
  <2>5. QED
    BY <2>1, <2>2, <2>3, <2>4
<1>2. call'[c] = [op |-> op, ticket |-> t, delta |-> delta, expected |-> expected, attempt |-> 0]
  BY <1>1 DEF Begin, IInv, TypeOK
<1>3. call'[c] \in Calls
  BY <1>1, <1>2, MaxRetriesAssumption DEF Calls
<1>4. pc'[c] = FirstCommand[op]
  BY <1>1 DEF Begin, IInv, TypeOK
<1>5. /\ FirstCommand[op] \in {"exists", "probe", "watch", "read", "delete"}
      /\ FirstCommand[op] \in {"watch", "read"} => op \in {"update", "retry"}
      /\ FirstCommand[op] = "watch" => op = "update"
  BY <1>1 DEF FirstCommand
<1>6. TypeOK'
  <2>1. call' \in [Clients -> Calls \cup {Absent}]
    BY <1>1, <1>3 DEF Begin, IInv, TypeOK
  <2>2. pc' \in [Clients -> {"idle", "probe", "load", "exists", "set", "read", "watch",
                             "get", "exec", "delete"}]
    BY <1>1, <1>5 DEF Begin, IInv, TypeOK
  <2>3. QED
    BY <1>1, <2>1, <2>2 DEF Begin, IInv, TypeOK, Outcomes
<1>7. ClientInv(c)'
  <2>1. /\ conn'[c] = "off"
        /\ applied'[c] = 0
        /\ outcome'[c] = "none"
    BY <1>1 DEF Begin, IInv, TypeOK, ClientInv
  <2>2. QED
    BY <1>1, <1>2, <1>3, <1>4, <1>5, <2>1 DEF ClientInv, Updating, Refusals
<1>8. ASSUME NEW d \in Clients, d # c PROVE ClientInv(d)'
  BY <1>1, <1>8, OthersUntouched DEF Begin, IInv, TypeOK
<1>9. QED
  BY <1>6, <1>7, <1>8 DEF IInv

(* A call ends and has written nothing.                                    *)
LEMMA RefusalIInv ==
    ASSUME IInv, NEW c \in Clients, pc[c] # "idle", NoWrite(c),
           NEW how \in Outcomes \ {"ok"}, Return(c, how)
    PROVE  IInv'
<1>1. TypeOK'
  BY DEF IInv, TypeOK, NoWrite, Return
<1>2. ClientInv(c)'
  BY DEF IInv, TypeOK, NoWrite, Return, ClientInv, Updating
<1>3. ASSUME NEW d \in Clients, d # c PROVE ClientInv(d)'
  BY <1>3, OthersUntouched DEF IInv, TypeOK, NoWrite, Return
<1>4. QED
  BY <1>1, <1>2, <1>3 DEF IInv

(* A call ends with its one write of the store.                            *)
LEMMA WriteIInv ==
    ASSUME IInv, NEW c \in Clients, pc[c] # "idle",
           NEW t \in Tickets, NEW state \in States \cup {Absent}, Write(c, t, state),
           NEW how \in {"ok", "deleted", "WatchError", "ConnectionError"}, Return(c, how)
    PROVE  IInv'
<1>1. TypeOK'
  <2>1. store' \in [Tickets -> States \cup {Absent}]
    BY DEF IInv, TypeOK, Write
  <2>2. conn' \in [Clients -> {"off", "clean", "dirty"}]
    BY DEF IInv, TypeOK, Write
  <2>3. raced' \in SUBSET Clients /\ applied' \in [Clients -> Nat]
    BY DEF IInv, TypeOK, Write
  <2>4. QED
    BY <2>1, <2>2, <2>3 DEF IInv, TypeOK, Return, Outcomes
<1>2. ClientInv(c)'
  <2>1. conn'[c] = "off" /\ applied'[c] = 1
    BY DEF IInv, TypeOK, Write, ClientInv
  <2>2. pc'[c] = "idle" /\ outcome'[c] = how
    BY DEF IInv, TypeOK, Return
  <2>3. QED
    BY <2>1, <2>2 DEF ClientInv, Updating, Refusals
<1>3. ASSUME NEW d \in Clients, d # c PROVE ClientInv(d)'
  BY <1>3, OthersAfterWrite DEF IInv, TypeOK, Return
<1>4. QED
  BY <1>1, <1>2, <1>3 DEF IInv

LEMMA ReplyIsOutcome ==
    ASSUME NEW how, NEW lost
    PROVE  Reply(how, lost) \subseteq {how, lost}
BY DEF Reply

(* The steps at which a call goes on without writing.                      *)
LEMMA ContinueIInv ==
    ASSUME IInv, NEW c \in Clients, pc[c] # "idle",
           NEW location \in {"load", "exists", "set", "read", "watch", "get", "exec"},
           Goto(c, location),
           UNCHANGED <<store, applied>>,
           conn' \in [Clients -> {"off", "clean", "dirty"}],
           call' \in [Clients -> Calls \cup {Absent}],
           snapshot' \in [Clients -> States \cup {Absent}],
           raced' \in SUBSET Clients,
           \A d \in Clients : d # c =>
              /\ conn'[d] = conn[d] /\ call'[d] = call[d] /\ snapshot'[d] = snapshot[d]
              /\ d \in raced' <=> d \in raced,
           ClientInv(c)'
    PROVE  IInv'
<1>1. TypeOK'
  BY DEF IInv, TypeOK, Goto
<1>2. ASSUME NEW d \in Clients, d # c PROVE ClientInv(d)'
  BY <1>2, OthersUntouched DEF IInv, TypeOK, Goto
<1>3. QED
  BY <1>1, <1>2 DEF IInv

LEMMA StepIInv ==
    ASSUME IInv, NEW c \in Clients, Step(c)
    PROVE  IInv'
<1>a. TypeOK /\ ClientInv(c)
  BY DEF IInv
<1>b. pc[c] # "idle"
  BY DEF Step, Probe, Load, CreateExists, CreateSet, Read, Watch, GetMissing, Conflict, Retry,
         Conflicts, GetMatches, Exec, ExecAborted, DeleteKey, Break
<1>c. call[c] \in Calls /\ call[c].ticket \in Tickets
  BY <1>a, <1>b DEF ClientInv, Calls
<1>d. applied[c] = 0
  BY <1>a, <1>b DEF ClientInv
<1>1. CASE Probe(c)
  <2>1. PICK location \in {"exists", "load"} :
            Goto(c, location) /\ UNCHANGED <<store, conn, call, snapshot, applied, raced>>
    BY <1>1 DEF Probe
  <2>2. ClientInv(c)'
    BY <2>1, <1>1, <1>a, <1>c, <1>d DEF Probe, TypeOK, Goto, ClientInv, Updating
  <2>3. QED
    BY <2>1, <2>2, <1>a, <1>b, ContinueIInv DEF TypeOK
<1>2. CASE CreateExists(c)
  <2>1. CASE NoWrite(c) /\ Return(c, "ValueError")
    BY <2>1, <1>b, RefusalIInv DEF Outcomes
  <2>2. CASE Goto(c, "set") /\ UNCHANGED <<store, conn, call, snapshot, applied, raced>>
    <3>1. ClientInv(c)'
      BY <2>2, <1>2, <1>a, <1>c, <1>d DEF CreateExists, TypeOK, Goto, ClientInv, Updating
    <3>2. QED
      BY <2>2, <3>1, <1>a, <1>b, ContinueIInv DEF TypeOK
  <2>3. QED
    BY <1>2, <2>1, <2>2 DEF CreateExists
<1>3. CASE CreateSet(c)
  BY <1>3, <1>b, <1>c, FreshIsState, ReplyIsOutcome, WriteIInv DEF CreateSet
<1>4. CASE Read(c)
  <2>1. CASE NoWrite(c) /\ Return(c, "KeyError")
    BY <2>1, <1>b, RefusalIInv DEF Outcomes
  <2>2. CASE /\ store[call[c].ticket] # Absent
             /\ call' = [call EXCEPT ![c].expected = store[call[c].ticket].version]
             /\ raced' = raced \ {c}
             /\ Goto(c, "watch")
             /\ UNCHANGED <<store, conn, snapshot, applied>>
    <3>1. store[call[c].ticket].version \in Nat
      BY <2>2, <1>a, <1>c DEF TypeOK, States, Promise!States
    <3>2. /\ call'[c] \in Calls
          /\ call'[c].ticket = call[c].ticket
          /\ call'[c].delta = call[c].delta
          /\ call'[c].expected = store[call[c].ticket].version
      BY <2>2, <3>1, <1>a, <1>c DEF TypeOK, Calls
    <3>3. call' \in [Clients -> Calls \cup {Absent}]
      BY <2>2, <3>2, <1>a DEF TypeOK
    <3>4. ClientInv(c)'
      BY <2>2, <3>2, <1>4, <1>a, <1>d DEF Read, TypeOK, Goto, ClientInv, Updating
    <3>5. QED
      BY <2>2, <3>3, <3>4, <1>a, <1>b, ContinueIInv DEF TypeOK
  <2>3. QED
    BY <1>4, <2>1, <2>2 DEF Read
<1>5. CASE Watch(c)
  <2>1. ClientInv(c)'
    BY <1>5, <1>a, <1>c, <1>d DEF Watch, TypeOK, Goto, ClientInv, Updating
  <2>2. QED
    BY <1>5, <2>1, <1>a, <1>b, ContinueIInv DEF Watch, TypeOK
<1>6. CASE GetMissing(c)
  BY <1>6, <1>b, RefusalIInv DEF GetMissing, Outcomes
<1>7. CASE Conflict(c)
  BY <1>7, <1>b, RefusalIInv DEF Conflict, Outcomes
<1>8. CASE Retry(c)
  <2>1. /\ call'[c] \in Calls
        /\ call'[c].delta = call[c].delta
    BY <1>8, <1>a, <1>c, MaxRetriesAssumption DEF Retry, TypeOK, Calls
  <2>2. call' \in [Clients -> Calls \cup {Absent}]
    BY <1>8, <2>1, <1>a DEF Retry, TypeOK
  <2>3. ClientInv(c)'
    BY <1>8, <2>1, <1>a, <1>d DEF Retry, Conflicts, TypeOK, Goto, ClientInv, Updating
  <2>4. QED
    BY <1>8, <2>2, <2>3, <1>a, <1>b, ContinueIInv DEF Retry, TypeOK
<1>9. CASE GetMatches(c)
  <2>1. CASE NoWrite(c) /\ Return(c, "ValidationError")
    BY <2>1, <1>b, RefusalIInv DEF Outcomes
  <2>2. CASE /\ call[c].delta # Malformed
             /\ snapshot' = [snapshot EXCEPT ![c] = store[call[c].ticket]]
             /\ Goto(c, "exec")
             /\ UNCHANGED <<store, conn, call, applied, raced>>
    <3>1. call[c].delta \in Deltas
      BY <2>2, <1>9, <1>a DEF GetMatches, ClientInv, Updating
    <3>2. ClientInv(c)'
      BY <2>2, <3>1, <1>9, <1>a, <1>c, <1>d
         DEF GetMatches, TypeOK, Goto, ClientInv, Updating
    <3>3. QED
      BY <2>2, <3>2, <1>9, <1>a, <1>b, <1>c, ContinueIInv DEF TypeOK
  <2>3. QED
    BY <1>9, <2>1, <2>2 DEF GetMatches
<1>10. CASE Exec(c)
  <2>1. Promise!Apply(snapshot[c], call[c].delta) \in States
    BY <1>10, <1>a, ApplyIsState DEF Exec, ClientInv, TypeOK
  <2>2. QED
    BY <1>10, <2>1, <1>b, <1>c, ReplyIsOutcome, WriteIInv DEF Exec
<1>11. CASE ExecAborted(c)
  BY <1>11, <1>b, RefusalIInv DEF ExecAborted, Outcomes
<1>12. CASE DeleteKey(c)
  <2>1. PICK how \in {"deleted", "ConnectionError"} : Return(c, how)
    BY <1>12, ReplyIsOutcome DEF DeleteKey
  <2>2. NoWrite(c) \/ Write(c, call[c].ticket, Absent)
    BY <1>12 DEF DeleteKey
  <2>3. QED
    BY <2>1, <2>2, <1>b, <1>c, WriteIInv, RefusalIInv DEF Outcomes
<1>13. CASE Break(c)
  BY <1>13, <1>b, RefusalIInv DEF Break, Outcomes
<1>14. CASE Load(c)
  BY <1>14, <1>b, RefusalIInv DEF Load, Outcomes
<1>15. QED
  BY <1>1, <1>2, <1>3, <1>4, <1>5, <1>6, <1>7, <1>8, <1>9, <1>10, <1>11, <1>12, <1>13, <1>14
     DEF Step

--------------------------------------------------------------------------------
THEOREM Invariance == Spec => []IInv
<1>1. IInv /\ [Next]_vars => IInv'
  <2> SUFFICES ASSUME IInv, [Next]_vars PROVE IInv'
    OBVIOUS
  <2>1. CASE UNCHANGED vars
    BY <2>1 DEF vars, IInv, TypeOK, ClientInv
  <2>2. CASE \E c \in Clients : Start(c)
    BY <2>2, BeginIInv
  <2>3. CASE \E c \in Clients : Step(c)
    BY <2>3, StepIInv
  <2>4. QED
    BY <2>1, <2>2, <2>3 DEF Next
<1>2. QED
  BY InitIInv, <1>1, PTL DEF Spec

(* The variables keep their types: no thread reads or returns anything     *)
(* but a valid state, whatever is lost or aborted.                         *)
THEOREM TypeCorrect == Spec => []TypeOK
<1>1. IInv => TypeOK
  BY DEF IInv
<1>2. QED
  BY <1>1, Invariance, PTL

(* A clean WATCH at EXEC means that the snapshot is what is stored.        *)
THEOREM SnapshotIsCurrent == Spec => []CleanSnapshotIsCurrent
<1>1. IInv => CleanSnapshotIsCurrent
  BY DEF IInv, ClientInv, CleanSnapshotIsCurrent
<1>2. QED
  BY <1>1, Invariance, PTL

(* Results and errors of the calls tell what was written.                  *)
THEOREM OutcomesAreTruthful == Spec => []OutcomeTellsWhatWasWritten
<1>1. IInv => OutcomeTellsWhatWasWritten
  BY DEF IInv, ClientInv, OutcomeTellsWhatWasWritten, Refusals, TypeOK
<1>2. QED
  BY <1>1, Invariance, PTL

(* Attempts of update_with_retry are spent on contention only.             *)
THEOREM RetriesAreContention == Spec => RetriesOnlyOnContention
<1>1. IInv => \A c \in Clients : Conflicts(c) /\ call[c].op = "retry" => c \in raced
  BY DEF IInv, ClientInv, Conflicts
<1>2. QED
  BY <1>1, Invariance, PTL DEF RetriesOnlyOnContention

--------------------------------------------------------------------------------
(* The refinement.  create, whose EXISTS and SET are two commands, is      *)
(* atomic only under SingleCreator: nobody else can create the ticket      *)
(* between the two.                                                        *)
CreatorInv ==
    \A c \in Clients :
        /\ pc[c] \in {"probe", "exists", "set"} => c \in Creators[call[c].ticket]
        /\ pc[c] = "set" => store[call[c].ticket] = Absent

(* How a step changes the store: one ticket's entry, or nothing.           *)
LEMMA StoreChanges ==
    ASSUME IInv, NEW c \in Clients, Start(c) \/ Step(c)
    PROVE  \/ UNCHANGED store
           \/ /\ pc[c] = "set"
              /\ store' = [store EXCEPT ![call[c].ticket] = Promise!FreshState]
           \/ /\ pc[c] = "exec"
              /\ call[c].delta \in Deltas
              /\ store[call[c].ticket] # Absent
              /\ store' = [store EXCEPT ![call[c].ticket] =
                              Promise!Apply(store[call[c].ticket], call[c].delta)]
           \/ /\ pc[c] = "delete"
              /\ store' = [store EXCEPT ![call[c].ticket] = Absent]
<1>1. CASE Start(c)
  BY <1>1 DEF Start, CallCreate, CallInitFromTicket, CallDelete, CallUpdate,
              CallUpdateWithRetry, Begin
<1>2. CASE CreateSet(c)
  BY <1>2 DEF CreateSet, Write
<1>3. CASE Exec(c)
  BY <1>3 DEF Exec, Write, IInv, ClientInv
<1>4. CASE DeleteKey(c)
  BY <1>4 DEF DeleteKey, Write, NoWrite
<1>5. CASE Step(c) /\ ~CreateSet(c) /\ ~Exec(c) /\ ~DeleteKey(c)
  BY <1>5 DEF Step, Probe, Load, CreateExists, Read, Watch, GetMissing, Conflict, Retry,
              GetMatches, ExecAborted, Break, NoWrite
<1>6. QED
  BY <1>1, <1>2, <1>3, <1>4, <1>5

(* How a step changes a client that may be creating a ticket.              *)
LEMMA CreatorSteps ==
    ASSUME IInv, NEW c \in Clients, Start(c) \/ Step(c)
    PROVE  /\ \A d \in Clients : d # c => pc'[d] = pc[d] /\ call'[d] = call[d]
           /\ pc'[c] \in {"probe", "exists", "set"} =>
                 \/ c \in Creators[call'[c].ticket] /\ pc'[c] # "set"
                 \/ /\ pc[c] \in {"probe", "exists"}
                    /\ call'[c] = call[c]
                    /\ pc'[c] = "set" => store[call[c].ticket] = Absent /\ UNCHANGED store
<1>1. CASE Start(c)
  <2>1. PICK t, op, delta, expected :
            /\ t \in Tickets
            /\ Begin(c, op, t, delta, expected)
            /\ op \in {"create", "init"} => c \in Creators[t]
            /\ op \in {"create", "init", "update", "retry", "delete"}
    BY <1>1 DEF Start, CallCreate, CallInitFromTicket, CallDelete, CallUpdate,
                CallUpdateWithRetry
  <2>2. /\ pc'[c] = FirstCommand[op]
        /\ call'[c].ticket = t
    BY <2>1 DEF Begin, IInv, TypeOK
  <2>3. FirstCommand[op] \in {"exists", "probe"} => op \in {"create", "init"}
    BY <2>1 DEF FirstCommand
  <2>4. FirstCommand[op] # "set"
    BY <2>1 DEF FirstCommand
  <2>5. QED
    BY <2>1, <2>2, <2>3, <2>4 DEF Begin, IInv, TypeOK
<1>2. CASE Probe(c)
  BY <1>2 DEF Probe, Goto, Return, IInv, TypeOK
<1>3. CASE CreateExists(c)
  BY <1>3 DEF CreateExists, Goto, Return, IInv, TypeOK
<1>4. CASE Read(c) \/ Watch(c) \/ Retry(c) \/ GetMatches(c)
  BY <1>4 DEF Read, Watch, Retry, GetMatches, Goto, Return, IInv, TypeOK
<1>5. CASE \/ Load(c) \/ CreateSet(c) \/ GetMissing(c) \/ Conflict(c) \/ Exec(c)
           \/ ExecAborted(c) \/ DeleteKey(c) \/ Break(c)
  BY <1>5 DEF Load, CreateSet, GetMissing, Conflict, Exec, ExecAborted, DeleteKey, Break,
              Return, IInv, TypeOK
<1>6. QED
  BY <1>1, <1>2, <1>3, <1>4, <1>5 DEF Step

(* A thread between EXISTS and SET still finds no ticket: only its creator *)
(* could have put one there.                                               *)
LEMMA CreatorInvStep ==
    ASSUME SingleCreator, IInv, CreatorInv, [Next]_vars
    PROVE  CreatorInv'
<1>1. CASE UNCHANGED vars
  BY <1>1 DEF vars, CreatorInv
<1>2. ASSUME NEW c \in Clients, Start(c) \/ Step(c) PROVE CreatorInv'
  <2>1. ASSUME NEW d \in Clients, pc'[d] \in {"probe", "exists", "set"}
        PROVE  d \in Creators[call'[d].ticket]
    BY <1>2, <2>1, CreatorSteps DEF CreatorInv
  <2>2. ASSUME NEW d \in Clients, pc'[d] = "set" PROVE store'[call'[d].ticket] = Absent
    <3>1. CASE d = c
      BY <1>2, <2>2, <3>1, CreatorSteps
    <3>2. CASE d # c
      <4>1. /\ pc[d] = "set" /\ call'[d] = call[d]
            /\ store[call[d].ticket] = Absent
            /\ d \in Creators[call[d].ticket]
            /\ call[d].ticket \in Tickets
        BY <1>2, <2>2, <3>2, CreatorSteps DEF CreatorInv, IInv, ClientInv, Calls
      <4>2. pc[c] = "set" => call[c].ticket # call[d].ticket
        BY <3>2, <4>1 DEF SingleCreator, CreatorInv
      <4>3. QED
        BY <1>2, <4>1, <4>2, StoreChanges DEF IInv, TypeOK
    <3>3. QED
      BY <3>1, <3>2
  <2>3. QED
    BY <2>1, <2>2 DEF CreatorInv
<1>3. QED
  BY <1>1, <1>2 DEF Next

(* Under a single creator the store implements VersionedTicket: every      *)
(* write is a creation, one atomic commit on the version that was checked, *)
(* or a deletion, for any interleaving of any number of threads.           *)
THEOREM Refinement ==
    ASSUME SingleCreator
    PROVE  Spec => KeepsPromise
<1>1. Init => Promise!Init
  BY DEF Init, Promise!Init
<1>2. Init => CreatorInv
  BY DEF Init, CreatorInv
<1>3. IInv /\ CreatorInv /\ [Next]_vars => [Promise!Next]_store
  <2> SUFFICES ASSUME IInv, CreatorInv, [Next]_vars, store' # store PROVE Promise!Next
    OBVIOUS
  <2>1. PICK c \in Clients : Start(c) \/ Step(c)
    BY DEF Next, vars
  <2>2. pc[c] # "idle" => call[c].ticket \in Tickets
    BY DEF IInv, ClientInv, Calls
  <2>3. CASE /\ pc[c] = "set"
             /\ store' = [store EXCEPT ![call[c].ticket] = Promise!FreshState]
    BY <2>2, <2>3 DEF CreatorInv, Promise!Next, Promise!Create
  <2>4. CASE /\ pc[c] = "exec"
             /\ call[c].delta \in Deltas
             /\ store[call[c].ticket] # Absent
             /\ store' = [store EXCEPT ![call[c].ticket] =
                             Promise!Apply(store[call[c].ticket], call[c].delta)]
    BY <2>2, <2>4 DEF Promise!Next, Promise!Commit
  <2>5. CASE /\ pc[c] = "delete"
             /\ store' = [store EXCEPT ![call[c].ticket] = Absent]
    BY <2>2, <2>5 DEF Promise!Next, Promise!Delete
  <2>6. QED
    BY <2>1, <2>3, <2>4, <2>5, StoreChanges
<1>4. SingleCreator /\ IInv /\ CreatorInv /\ [Next]_vars => CreatorInv'
  BY CreatorInvStep
<1>5. QED
  BY <1>1, <1>2, <1>3, <1>4, Invariance, PTL DEF Spec, KeepsPromise, Promise!Spec

--------------------------------------------------------------------------------
(* How many commands are left at each point of a call.                     *)
LeftTable(c) ==
    /\ pc[c] = "read" => CommandsLeft(c) = 4 * (MaxRetries - 1 - call[c].attempt) + 4
    /\ pc[c] = "watch" => CommandsLeft(c) = 4 * (MaxRetries - 1 - call[c].attempt) + 3
    /\ pc[c] = "get" => CommandsLeft(c) = 4 * (MaxRetries - 1 - call[c].attempt) + 2
    /\ pc[c] = "exec" => CommandsLeft(c) = 4 * (MaxRetries - 1 - call[c].attempt) + 1
    /\ pc[c] = "probe" => CommandsLeft(c) = 3
    /\ pc[c] = "exists" => CommandsLeft(c) = 2
    /\ pc[c] \in {"load", "set", "delete"} => CommandsLeft(c) = 1
    /\ pc[c] = "idle" => CommandsLeft(c) = 0

LEMMA LeftAtEachPoint == \A c \in Clients : LeftTable(c)
<1> SUFFICES ASSUME NEW c \in Clients PROVE LeftTable(c)
  OBVIOUS
<1>1. DOMAIN CommandsOfAttempt = {"read", "watch", "get", "exec"}
  BY DEF CommandsOfAttempt
<1>2. DOMAIN CommandsOfOthers = {"probe", "load", "exists", "set", "delete"}
  BY DEF CommandsOfOthers
<1>3. CASE pc[c] \in {"read", "watch", "get", "exec"}
  <2>1. CommandsLeft(c) =
            4 * (MaxRetries - 1 - call[c].attempt) + CommandsOfAttempt[pc[c]]
    <3>1. /\ pc[c] \in DOMAIN CommandsOfAttempt
          /\ pc[c] \notin DOMAIN CommandsOfOthers
          /\ pc[c] # "idle"
      BY <1>1, <1>2, <1>3
    <3>2. QED
      BY <3>1, Zenon DEF CommandsLeft
  <2>2. QED
    BY <1>3, <2>1 DEF CommandsOfAttempt, LeftTable
<1>4. CASE pc[c] \in {"probe", "load", "exists", "set", "delete"}
  <2>1. CommandsLeft(c) = CommandsOfOthers[pc[c]]
    BY <1>1, <1>2, <1>4 DEF CommandsLeft
  <2>2. QED
    BY <1>4, <2>1 DEF CommandsOfOthers, LeftTable
<1>5. CASE pc[c] = "idle"
  <2>1. CommandsLeft(c) = 0
    BY <1>1, <1>2, <1>5 DEF CommandsLeft
  <2>2. QED
    BY <1>5, <2>1 DEF LeftTable
<1>6. QED
  BY <1>3, <1>4, <1>5 DEF LeftTable

LEMMA LeftIsNumber ==
    ASSUME IInv, NEW c \in Clients
    PROVE  /\ CommandsLeft(c) \in 0 .. 4 * MaxRetries
           /\ pc[c] # "idle" => CommandsLeft(c) > 0
<1>1. MaxRetries \in Nat /\ MaxRetries >= 1
  BY MaxRetriesAssumption
<1>2. LeftTable(c)
  BY LeftAtEachPoint
<1>3. pc[c] # "idle" => call[c].attempt \in 0 .. MaxRetries - 1
  BY DEF IInv, ClientInv, Calls
<1>4. pc[c] \in {"idle", "probe", "load", "exists", "set", "read", "watch", "get", "exec",
                  "delete"}
  BY DEF IInv, TypeOK
<1>5. CASE pc[c] \in {"idle", "probe", "load", "exists", "set", "delete"}
  <2>1. CommandsLeft(c) \in 0 .. 3 /\ (pc[c] # "idle" => CommandsLeft(c) > 0)
    BY <1>2, <1>5 DEF LeftTable
  <2>2. QED
    BY <1>1, <2>1
<1>6. CASE pc[c] \in {"read", "watch", "get", "exec"}
  <2>1. PICK k \in 1 .. 4 : CommandsLeft(c) = 4 * (MaxRetries - 1 - call[c].attempt) + k
    BY <1>2, <1>6 DEF LeftTable
  <2>2. PICK a \in 0 .. MaxRetries - 1 : call[c].attempt = a
    BY <1>3, <1>6
  <2>3. QED
    BY <1>1, <2>1, <2>2
<1>7. QED
  BY <1>4, <1>5, <1>6

(* A call that goes on after a command has fewer of them left.             *)
LEMMA OwnCommandCounts ==
    ASSUME IInv, IInv', NEW c \in Clients, Step(c), LeftTable(c)'
    PROVE  CommandsLeft(c)' < CommandsLeft(c)
<1>1. LeftTable(c)
  BY LeftAtEachPoint
<1>2. pc[c] # "idle"
  BY DEF Step, Probe, Load, CreateExists, CreateSet, Read, Watch, GetMissing, Conflict, Retry,
         Conflicts, GetMatches, Exec, ExecAborted, DeleteKey, Break
<1>3. call[c] \in Calls /\ MaxRetries \in Nat
  BY <1>2, MaxRetriesAssumption DEF IInv, ClientInv
<1>4. CASE pc'[c] = "idle"
  <2>1. CommandsLeft(c) \in Nat /\ CommandsLeft(c) > 0
    BY <1>2, LeftIsNumber
  <2>2. CommandsLeft(c)' = 0
    BY <1>4 DEF LeftTable
  <2>3. QED
    BY <2>1, <2>2
<1>5. CASE pc'[c] # "idle"
  <2>1. \/ pc[c] = "probe" /\ pc'[c] \in {"exists", "load"}
        \/ pc[c] = "exists" /\ pc'[c] = "set"
        \/ pc[c] = "read" /\ pc'[c] = "watch" /\ call'[c].attempt = call[c].attempt
        \/ pc[c] = "watch" /\ pc'[c] = "get" /\ call'[c].attempt = call[c].attempt
        \/ pc[c] = "get" /\ pc'[c] = "exec" /\ call'[c].attempt = call[c].attempt
        \/ pc[c] = "get" /\ pc'[c] = "read" /\ call'[c].attempt = call[c].attempt + 1
    <3>1. ~(\E how : Return(c, how))
      BY <1>5 DEF Return, IInv, TypeOK
    <3>2. \/ Probe(c) \/ CreateExists(c) \/ Read(c) \/ Watch(c) \/ Retry(c) \/ GetMatches(c)
      BY <3>1 DEF Step, Load, CreateSet, GetMissing, Conflict, Exec, ExecAborted, DeleteKey,
                      Break
    <3>3. CASE Probe(c) \/ CreateExists(c)
      BY <3>1, <3>3 DEF Probe, CreateExists, Goto, IInv, TypeOK
    <3>4. CASE Read(c)
      <4>1. /\ pc[c] = "read"
            /\ call' = [call EXCEPT ![c].expected = store[call[c].ticket].version]
            /\ Goto(c, "watch")
        BY <3>1, <3>4 DEF Read
      <4>2. call'[c].attempt = call[c].attempt
        BY <1>3, <4>1 DEF IInv, TypeOK, Calls
      <4>3. QED
        BY <4>1, <4>2 DEF Goto, IInv, TypeOK
    <3>5. CASE Watch(c)
      BY <3>5 DEF Watch, Goto, IInv, TypeOK
    <3>6. CASE Retry(c)
      <4>1. /\ pc[c] = "get"
            /\ call' = [call EXCEPT ![c].attempt = @ + 1]
            /\ Goto(c, "read")
        BY <3>6 DEF Retry, Conflicts
      <4>2. call'[c].attempt = call[c].attempt + 1
        BY <1>3, <4>1 DEF IInv, TypeOK, Calls
      <4>3. QED
        BY <4>1, <4>2 DEF Goto, IInv, TypeOK
    <3>7. CASE GetMatches(c)
      BY <3>1, <3>7 DEF GetMatches, Goto, IInv, TypeOK
    <3>8. QED
      BY <3>2, <3>3, <3>4, <3>5, <3>6, <3>7
  <2>2. CASE pc[c] \in {"probe", "exists"}
    <3>1. \/ CommandsLeft(c) = 3 /\ CommandsLeft(c)' \in {1, 2}
          \/ CommandsLeft(c) = 2 /\ CommandsLeft(c)' = 1
      BY <1>1, <2>1, <2>2 DEF LeftTable
    <3>2. QED
      BY <3>1
  <2>3. CASE pc[c] \in {"read", "watch", "get"}
    <3>1. PICK a \in 0 .. MaxRetries - 1 : call[c].attempt = a
      BY <1>3 DEF Calls
    <3>2. CASE pc[c] = "read" /\ pc'[c] = "watch" /\ call'[c].attempt = call[c].attempt
      <4>1. /\ CommandsLeft(c) = 4 * (MaxRetries - 1 - a) + 4
            /\ CommandsLeft(c)' = 4 * (MaxRetries - 1 - a) + 3
        BY <1>1, <3>1, <3>2 DEF LeftTable
      <4>2. QED
        BY <1>3, <4>1
    <3>3. CASE pc[c] = "watch" /\ pc'[c] = "get" /\ call'[c].attempt = call[c].attempt
      <4>1. /\ CommandsLeft(c) = 4 * (MaxRetries - 1 - a) + 3
            /\ CommandsLeft(c)' = 4 * (MaxRetries - 1 - a) + 2
        BY <1>1, <3>1, <3>3 DEF LeftTable
      <4>2. QED
        BY <1>3, <4>1
    <3>4. CASE pc[c] = "get" /\ pc'[c] = "exec" /\ call'[c].attempt = call[c].attempt
      <4>1. /\ CommandsLeft(c) = 4 * (MaxRetries - 1 - a) + 2
            /\ CommandsLeft(c)' = 4 * (MaxRetries - 1 - a) + 1
        BY <1>1, <3>1, <3>4 DEF LeftTable
      <4>2. QED
        BY <1>3, <4>1
    <3>5. CASE pc[c] = "get" /\ pc'[c] = "read" /\ call'[c].attempt = call[c].attempt + 1
      <4>1. /\ CommandsLeft(c) = 4 * (MaxRetries - 1 - a) + 2
            /\ CommandsLeft(c)' = 4 * (MaxRetries - 1 - (a + 1)) + 4
        BY <1>1, <3>1, <3>5 DEF LeftTable
      <4>2. QED
        BY <1>3, <4>1
    <3>6. QED
      BY <2>1, <2>3, <3>2, <3>3, <3>4, <3>5
  <2>4. QED
    BY <2>1, <2>2, <2>3
<1>6. QED
  BY <1>4, <1>5

(* Each command brings its call nearer to its end, whatever the other      *)
(* threads write and wherever a connection breaks; no step of another      *)
(* client adds one (shared_memory.py:110-120).                             *)
THEOREM CallsTakeFewCommands == Spec => CallsAreShort
<1>1. IInv /\ IInv' /\ [Next]_vars /\ (\A c \in Clients : LeftTable(c))' =>
          [\A c \in Clients : pc[c] # "idle" =>
                \/ pc'[c] = pc[c] /\ CommandsLeft(c)' = CommandsLeft(c)
                \/ CommandsLeft(c)' < CommandsLeft(c)]_vars
  <2> SUFFICES ASSUME IInv, IInv', Next, (\A c \in Clients : LeftTable(c))',
                      NEW d \in Clients, pc[d] # "idle"
               PROVE  \/ pc'[d] = pc[d] /\ CommandsLeft(d)' = CommandsLeft(d)
                      \/ CommandsLeft(d)' < CommandsLeft(d)
    OBVIOUS
  <2>1. PICK c \in Clients : Start(c) \/ Step(c)
    BY DEF Next
  <2>2. CASE d # c
    <3>1. pc'[d] = pc[d] /\ call'[d] = call[d]
      BY <2>1, <2>2, CreatorSteps
    <3>2. CommandsLeft(d)' = CommandsLeft(d)
      BY <3>1 DEF CommandsLeft
    <3>3. QED
      BY <3>1, <3>2
  <2>3. CASE d = c /\ Start(c)
    BY <2>3 DEF Start, CallCreate, CallInitFromTicket, CallDelete, CallUpdate,
                CallUpdateWithRetry, Begin
  <2>4. CASE d = c /\ Step(c)
    <3>1. LeftTable(d)'
      OBVIOUS
    <3>2. QED
      BY <2>4, <3>1, OwnCommandCounts
  <2>5. QED
    BY <2>1, <2>2, <2>3, <2>4
<1>2. QED
  BY <1>1, Invariance, LeftAtEachPoint, PTL DEF Spec, CallsAreShort

(* The commands that are left are a number: with the theorem above, a call *)
(* sends at most 4 * MAX_RETRIES commands, whatever the contention.        *)
THEOREM CommandsAreNumbered ==
    Spec => [](\A c \in Clients : CommandsLeft(c) \in 0 .. 4 * MaxRetries)
<1>1. IInv => \A c \in Clients : CommandsLeft(c) \in 0 .. 4 * MaxRetries
  BY LeftIsNumber
<1>2. QED
  BY <1>1, Invariance, PTL

--------------------------------------------------------------------------------
(* What follows from the promise alone, and so for every implementation    *)
(* of it: versions go up one by one and never repeat while a ticket lives, *)
(* so a reader that finds the version it knows finds the state it knows.   *)
VersionsGoUpByOne ==
    [][\A t \in Tickets : store[t] # Absent /\ store'[t] # Absent /\ store'[t] # store[t] =>
            store'[t].version = store[t].version + 1]_store

(* A stored ticket changes only to its next version (shared_memory.py:     *)
(* 79-97): the version that update compares tells two states apart.        *)
THEOREM VersionsAreSuccessive ==
    ASSUME SingleCreator
    PROVE  Spec => VersionsGoUpByOne
<1>1. [Promise!Next]_store /\ TypeOK =>
        [\A t \in Tickets : store[t] # Absent /\ store'[t] # Absent /\ store'[t] # store[t] =>
            store'[t].version = store[t].version + 1]_store
  <2> SUFFICES ASSUME Promise!Next, TypeOK, NEW t \in Tickets,
                      store[t] # Absent, store'[t] # Absent, store'[t] # store[t]
               PROVE  store'[t].version = store[t].version + 1
    OBVIOUS
  <2>1. PICK u \in Tickets : \/ Promise!Create(u)
                             \/ \E delta \in Deltas : Promise!Commit(u, delta)
                             \/ Promise!Delete(u)
    BY DEF Promise!Next
  <2>2. CASE Promise!Create(u)
    BY <2>2 DEF Promise!Create, TypeOK
  <2>3. CASE \E delta \in Deltas : Promise!Commit(u, delta)
    BY <2>3 DEF Promise!Commit, Promise!Apply, TypeOK
  <2>4. CASE Promise!Delete(u)
    BY <2>4 DEF Promise!Delete, TypeOK
  <2>5. QED
    BY <2>1, <2>2, <2>3, <2>4
<1>2. QED
  BY <1>1, TypeCorrect, Refinement, PTL DEF KeepsPromise, Promise!Spec, VersionsGoUpByOne
--------------------------------------------------------------------------------
(* What StaleWritesAreVersionConflicts gets wrong is the name of the error *)
(* only: an EXEC aborts for no other reason than that another client       *)
(* has written this very ticket since the call read it.                    *)
DirtyIsContention ==
    \A c \in Clients : conn[c] = "dirty" => c \in raced

LEMMA DirtyStep ==
    ASSUME IInv, DirtyIsContention, [Next]_vars
    PROVE  DirtyIsContention'
<1>1. CASE UNCHANGED vars
  BY <1>1 DEF vars, DirtyIsContention
<1>2. ASSUME NEW c \in Clients, Start(c) PROVE DirtyIsContention'
  <2>1. conn' = conn /\ raced' = raced \ {c} /\ conn[c] = "off"
    BY <1>2 DEF Start, CallCreate, CallInitFromTicket, CallDelete, CallUpdate,
                CallUpdateWithRetry, Begin, IInv, ClientInv
  <2>2. QED
    BY <2>1 DEF DirtyIsContention
<1>3. ASSUME NEW c \in Clients, NEW t, NEW state, Write(c, t, state)
      PROVE  DirtyIsContention'
  <2> SUFFICES ASSUME NEW d \in Clients, conn'[d] = "dirty" PROVE d \in raced'
    BY DEF DirtyIsContention
  <2>1. d # c /\ conn'[d] = IF Watches(d, t) THEN "dirty" ELSE conn[d]
    BY <1>3 DEF Write
  <2>2. CASE Watches(d, t)
    <3>1. pc[d] # "idle" /\ call[d].ticket = t
      BY <2>2 DEF Watches, IInv, ClientInv
    <3>2. QED
      BY <1>3, <2>1, <3>1 DEF Write
  <2>3. CASE ~Watches(d, t)
    <3>1. d \in raced
      BY <2>1, <2>3 DEF DirtyIsContention
    <3>2. QED
      BY <1>3, <3>1 DEF Write
  <2>4. QED
    BY <2>2, <2>3
<1>4. ASSUME NEW c \in Clients, NoWrite(c) PROVE DirtyIsContention'
  BY <1>4 DEF NoWrite, DirtyIsContention, IInv, TypeOK
<1>5. ASSUME NEW c \in Clients, UNCHANGED <<conn, raced>> PROVE DirtyIsContention'
  BY <1>5 DEF DirtyIsContention
<1>6. ASSUME NEW c \in Clients, Read(c), raced' = raced \ {c}, UNCHANGED conn
      PROVE  DirtyIsContention'
  <2>1. conn[c] = "off"
    BY <1>6 DEF Read, IInv, ClientInv
  <2>2. QED
    BY <1>6, <2>1 DEF DirtyIsContention
<1>7. ASSUME NEW c \in Clients, Watch(c) PROVE DirtyIsContention'
  BY <1>7 DEF Watch, DirtyIsContention, IInv, TypeOK
<1>8. ASSUME NEW c \in Clients, Retry(c) PROVE DirtyIsContention'
  BY <1>8 DEF Retry, DirtyIsContention, IInv, TypeOK
<1>9. ASSUME NEW c \in Clients, Step(c) PROVE DirtyIsContention'
  <2>1. \/ NoWrite(c)
        \/ UNCHANGED <<conn, raced>>
        \/ \E t, state : Write(c, t, state)
        \/ Read(c) /\ raced' = raced \ {c} /\ UNCHANGED conn
        \/ Watch(c)
        \/ Retry(c)
    BY <1>9 DEF Step, Probe, Load, CreateExists, CreateSet, Read, GetMissing, Conflict,
                GetMatches, Exec, ExecAborted, DeleteKey, Break
  <2>2. QED
    BY <2>1, <1>3, <1>4, <1>5, <1>6, <1>7, <1>8
<1>10. QED
  BY <1>1, <1>2, <1>9 DEF Next

(* An aborted EXEC is contention: another client has written the ticket    *)
(* since this call read it, so that a retry, which the code does not make  *)
(* of a WatchError, would be due (shared_memory.py:97, 116).               *)
THEOREM AbortsAreContention ==
    Spec => [][\A c \in Clients : ExecAborted(c) => c \in raced]_vars
<1>1. Init => DirtyIsContention
  BY DEF Init, DirtyIsContention
<1>2. IInv /\ DirtyIsContention /\ [Next]_vars => DirtyIsContention'
  BY DirtyStep
<1>3. DirtyIsContention => [\A c \in Clients : ExecAborted(c) => c \in raced]_vars
  BY DEF DirtyIsContention, ExecAborted
<1>4. QED
  BY <1>1, <1>2, <1>3, Invariance, PTL DEF Spec
================================================================================
