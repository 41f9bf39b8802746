------------------------ MODULE EventPipelineProofs ------------------------
(***************************************************************************)
(* Theorems about EventPipeline, for every set of events and of tasks and  *)
(* every number of attempts.                                               *)
(***************************************************************************)
EXTENDS EventPipeline, TLAPS

TypeInv == /\ setting \in [Sinks -> {"set", "unset", "required"}]
           /\ record \in [Events -> Rows \cup {None}]
           /\ task \in [Tasks -> TaskType]

\* Where a task is tells what it has, and what has been sent of its event.
Progress(t) ==
    /\ task[t].pc \in Delivering => /\ task[t].event \in Events
                                    /\ record[task[t].event] # None
    /\ task[t].pc \in {"kafka", "clickhouse"} => task[t].attempts < MaxAttempts
    /\ task[t].pc = "clickhouse" /\ setting["kafka"] # "unset" => task[t].event \in kafka
    /\ task[t].delivered => task[t].pc = "load" \/ Has(task[t].event)

\* A dead letter is kept with its row, and a queued event has a task.
Kept == /\ With("dead_letter") \subseteq letters
        /\ \A e \in With("queued") \ died : AtWork(e)

IInv == TypeInv /\ (\A t \in Tasks : Progress(t)) /\ DeliveredIsThere /\ Kept

\* What a step of a task on its event does: its row and what is sent of it change, the other
\* tasks stay where they are, and nothing that was sent is taken back.
Moves(t, e, k) ==
    /\ task' = [task EXCEPT ![t] = k] /\ k \in TaskType
    /\ UNCHANGED setting
    /\ kafka \subseteq kafka' /\ clickhouse \subseteq clickhouse' /\ letters \subseteq letters'
    /\ record' \in [Events -> Rows \cup {None}]
    /\ \A d \in Events : d # e => record'[d] = record[d]
    /\ \A d \in Events : record[d] # None => record'[d] # None

LEMMA MovesKeepInv ==
    ASSUME IInv, NEW t \in Tasks, NEW e, NEW k, Moves(t, e, k), Progress(t)',
           /\ e \in Events /\ record'[e] # None /\ record'[e].status = "delivered"
              => Has(e)'
           /\ e \in Events /\ record'[e] # None /\ record'[e].status = "dead_letter" => e \in letters'
           /\ e \in Events /\ record'[e] # None /\ record'[e].status = "queued" /\ e \notin died'
              => k.event = e /\ k.pc \in Delivering
           /\ task[t].pc \in Delivering /\ task[t].event \notin died' => task[t].event = e
           /\ died \subseteq died'
    PROVE  IInv'
<1>1. /\ task' \in [Tasks -> TaskType] /\ task'[t] = k
      /\ \A u \in Tasks : u # t => task'[u] = task[u]
  BY DEF Moves, IInv, TypeInv
<1>2. TypeInv'
  BY <1>1 DEF IInv, TypeInv, Moves
<1>3. \A u \in Tasks : Progress(u)'
  <2> SUFFICES ASSUME NEW u \in Tasks, u # t PROVE Progress(u)'
    OBVIOUS
  <2>1. Progress(u) /\ task'[u] = task[u]
    BY <1>1 DEF IInv
  <2> QED BY <2>1 DEF Progress, Moves, Has
<1>4. DeliveredIsThere'
  <2> SUFFICES ASSUME NEW d \in Events, record'[d] # None, record'[d].status = "delivered"
               PROVE  Has(d)'
    BY DEF DeliveredIsThere, With
  <2>1. CASE d = e
    BY <2>1
  <2>2. CASE d # e
    <3>1. d \in With("delivered")
      BY <2>2 DEF With, Moves
    <3> QED BY <3>1 DEF IInv, DeliveredIsThere, Moves, Has
  <2> QED BY <2>1, <2>2
<1>5. ASSUME NEW d \in Events, record'[d] # None, record'[d].status = "dead_letter" PROVE d \in letters'
  <2>1. CASE d = e
    BY <1>5, <2>1
  <2>2. CASE d # e
    <3>1. d \in With("dead_letter")
      BY <1>5, <2>2 DEF With, Moves
    <3> QED BY <3>1 DEF IInv, Kept, Moves
  <2> QED BY <2>1, <2>2
<1>6. ASSUME NEW d \in Events, record'[d] # None, record'[d].status = "queued", d \notin died' PROVE AtWork(d)'
  <2>1. CASE d = e
    BY <1>1, <1>6, <2>1 DEF AtWork
  <2>2. CASE d # e
    <3>1. d \in With("queued") \ died
      BY <1>6, <2>2 DEF With, Moves
    <3>2. PICK u \in Tasks : task[u].event = d /\ task[u].pc \in Delivering
      BY <3>1 DEF IInv, Kept, AtWork
    <3>3. u # t
      BY <1>6, <2>2, <3>2
    <3> QED BY <1>1, <3>2, <3>3 DEF AtWork
  <2> QED BY <2>1, <2>2
<1> QED BY <1>2, <1>3, <1>4, <1>5, <1>6 DEF IInv, Kept, With

LEMMA StepKeepsInv == IInv /\ [Next]_vars => IInv'
<1> SUFFICES ASSUME IInv, [Next]_vars PROVE IInv'
  OBVIOUS
<1>0. /\ None \notin Events /\ MaxAttempts \in Nat
      /\ \A r : r \in Rows => r # None /\ r.status \in {"queued", "delivered", "dead_letter"}
                                       /\ r.attempts \in 0 .. MaxAttempts
  BY NoneAssumption, AttemptsAssumption DEF Rows
<1>a. /\ 0 \in 0 .. MaxAttempts
      /\ \A n \in 0 .. MaxAttempts : n < MaxAttempts => n + 1 \in 0 .. MaxAttempts
  BY <1>0
<1>1. CASE UNCHANGED vars
  BY <1>1 DEF vars, IInv, TypeInv, Progress, DeliveredIsThere, Kept, With, AtWork, Has
<1>2. ASSUME NEW t \in Tasks, Die(t), UNCHANGED setting PROVE IInv'
  <2>1. Idle \in TaskType /\ task[t] \in TaskType
    BY <1>0 DEF IInv, TypeInv, TaskType, Idle, Delivering
  <2>2. Moves(t, None, Idle)
    BY <1>2, <2>1 DEF Die, Moves, IInv, TypeInv
  <2>3. task'[t] = Idle
    BY <1>2 DEF Die, IInv, TypeInv
  <2>4. Progress(t)'
    BY <2>3 DEF Progress, Idle, Delivering
  <2>5. task[t].pc \in Delivering => task[t].event \in died'
    BY <1>0, <1>2 DEF Die, IInv, Progress
  <2> QED BY <1>0, <1>2, <2>2, <2>4, <2>5, MovesKeepInv DEF Die
<1>3. ASSUME NEW t \in Tasks, NEW e \in Events, Record(t, e) \/ ResetNext(t, e), UNCHANGED <<died, setting>> PROVE IInv'
  <2>1. task[t] \in TaskType /\ task[t].pc \notin Delivering
    BY <1>3 DEF Record, ResetNext, At, IInv, TypeInv, Delivering
  <2>2. \E k \in TaskType : k.pc = "load" /\ k.event = e /\ task' = [task EXCEPT ![t] = k]
                           /\ (k.delivered => task[t].delivered)
    <3>1. CASE Record(t, e)
      <4>1. PICK k : k = [Idle EXCEPT !.pc = "load", !.event = e]
        OBVIOUS
      <4>2. k \in TaskType /\ k.pc = "load" /\ k.event = e /\ ~k.delivered
        BY <1>a, <4>1 DEF Idle, TaskType, Delivering
      <4> QED BY <3>1, <4>1, <4>2 DEF Record
    <3>2. CASE ResetNext(t, e)
      <4>1. PICK k : k = [task[t] EXCEPT !.pc = "load", !.event = e, !.todo = @ \ {e}]
        OBVIOUS
      <4>2. k \in TaskType /\ k.pc = "load" /\ k.event = e /\ k.delivered = task[t].delivered
        BY <2>1, <4>1 DEF TaskType, Delivering
      <4>3. task' = [task EXCEPT ![t] = k]
        BY <3>2, <4>1 DEF ResetNext, IInv, TypeInv
      <4> QED BY <4>2, <4>3
    <3> QED BY <1>3, <3>1, <3>2
  <2>3. PICK k \in TaskType : k.pc = "load" /\ k.event = e /\ task' = [task EXCEPT ![t] = k]
    BY <2>2
  <2>4. PICK r : r = [status |-> "queued", attempts |-> 0]
    OBVIOUS
  <2>5. r \in Rows /\ r # None /\ r.status = "queued" /\ record' = [record EXCEPT ![e] = r]
    BY <1>0, <1>3, <2>4 DEF Record, ResetNext, Rows
  <2>6. UNCHANGED <<letters, kafka, clickhouse>>
    BY <1>3 DEF Record, ResetNext
  <2>7. /\ record' \in [Events -> Rows \cup {None}] /\ record'[e] = r
        /\ \A d \in Events : d # e => record'[d] = record[d]
    BY <2>5 DEF IInv, TypeInv
  <2>8. Moves(t, e, k)
    BY <1>3, <2>3, <2>5, <2>6, <2>7 DEF Moves
  <2>9. task'[t] = k
    BY <2>3 DEF IInv, TypeInv
  <2>10. Progress(t)'
    BY <2>3, <2>5, <2>7, <2>9 DEF Progress, Delivering
  <2> QED BY <1>3, <2>1, <2>3, <2>5, <2>7, <2>8, <2>10, MovesKeepInv DEF Delivering
<1>4. ASSUME NEW t \in Tasks, NEW k, task' = [task EXCEPT ![t] = k], k \in TaskType, UNCHANGED <<record, died, setting>>,
             kafka \subseteq kafka', clickhouse \subseteq clickhouse', letters \subseteq letters',
             Progress(t)', task[t].pc \in Delivering => k.pc \in Delivering /\ k.event = task[t].event
      PROVE  IInv'
  <2>1. PICK e : e = task[t].event
    OBVIOUS
  <2>2. Moves(t, e, k)
    BY <1>4 DEF Moves, IInv, TypeInv
  <2>3. CASE task[t].pc \in Delivering
    <3>1. /\ e \in Events /\ record'[e] # None /\ record'[e].status = "delivered" => Has(e)'
          /\ e \in Events /\ record'[e] # None /\ record'[e].status = "dead_letter" => e \in letters'
      BY <1>4 DEF IInv, DeliveredIsThere, Kept, With, Has
    <3> QED BY <1>4, <2>1, <2>2, <2>3, <3>1, MovesKeepInv
  <2>4. CASE task[t].pc \notin Delivering
    <3>1. Moves(t, None, k)
      BY <1>4 DEF Moves, IInv, TypeInv
    <3> QED BY <1>0, <1>4, <2>4, <3>1, MovesKeepInv
  <2> QED BY <2>3, <2>4
<1>5. ASSUME NEW t \in Tasks, ScanDeadLetters(t), UNCHANGED <<died, setting>> PROVE IInv'
  <2>1. PICK S \in SUBSET With("dead_letter") : task' = [task EXCEPT ![t] = [Idle EXCEPT !.pc = "reset", !.todo = S]]
    BY <1>5 DEF ScanDeadLetters
  <2>2. PICK k : k = [Idle EXCEPT !.pc = "reset", !.todo = S]
    OBVIOUS
  <2>3. k \in TaskType /\ k.pc = "reset" /\ ~k.delivered
    <3>1. S \subseteq Events
      BY DEF With
    <3> QED BY <1>a, <2>2, <3>1 DEF Idle, TaskType, Delivering
  <2>4. task'[t] = k
    BY <2>1, <2>2 DEF IInv, TypeInv
  <2>5. Progress(t)'
    BY <2>3, <2>4 DEF Progress, Delivering
  <2>6. task[t].pc \notin Delivering
    BY <1>5 DEF ScanDeadLetters, At, Delivering
  <2> QED BY <1>4, <1>5, <2>1, <2>2, <2>3, <2>5, <2>6 DEF ScanDeadLetters
<1>6. ASSUME NEW t \in Tasks, Load(t), UNCHANGED <<died, setting>> PROVE IInv'
  <2>1. task[t] \in TaskType /\ task[t].pc = "load" /\ Progress(t)
    BY <1>6 DEF Load, At, IInv, TypeInv
  <2>2. PICK e \in Events : e = task[t].event /\ record[e] # None
    BY <2>1 DEF Progress, Delivering
  <2>3. record[e] \in Rows /\ record[e].attempts \in 0 .. MaxAttempts
    BY <1>0, <2>2 DEF IInv, TypeInv
  <2>4. PICK k : k = [task[t] EXCEPT !.pc = IF record[e].attempts < MaxAttempts THEN "kafka" ELSE "result",
                                     !.attempts = record[e].attempts, !.delivered = FALSE]
    OBVIOUS
  <2>5. /\ k \in TaskType /\ k.pc \in {"kafka", "result"} /\ k.event = e /\ ~k.delivered
        /\ k.pc = "kafka" => k.attempts < MaxAttempts
    BY <2>1, <2>2, <2>3, <2>4 DEF TaskType, Delivering
  <2>6. task' = [task EXCEPT ![t] = k] /\ UNCHANGED <<record, letters, kafka, clickhouse>>
    BY <1>6, <2>2, <2>4 DEF Load, IInv, TypeInv
  <2>7. task'[t] = k
    BY <2>6 DEF IInv, TypeInv
  <2>8. Progress(t)'
    BY <2>2, <2>5, <2>6, <2>7 DEF Progress, Delivering
  <2> QED BY <1>4, <1>6, <2>2, <2>5, <2>6, <2>8 DEF Delivering
<1>7. ASSUME NEW t \in Tasks, task[t].pc \in {"kafka", "clickhouse"}, AttemptFails(t), UNCHANGED <<record, letters, died, setting>>,
             kafka \subseteq kafka', clickhouse \subseteq clickhouse'
      PROVE  IInv'
  <2>1. task[t] \in TaskType /\ Progress(t) /\ task[t].pc \in Delivering
    BY <1>7 DEF IInv, TypeInv, Delivering
  <2>2. PICK k : k = [task[t] EXCEPT !.attempts = task[t].attempts + 1,
                                     !.pc = IF task[t].attempts + 1 < MaxAttempts THEN "kafka" ELSE "result"]
    OBVIOUS
  <2>3. task[t].attempts \in 0 .. MaxAttempts /\ task[t].attempts < MaxAttempts
    BY <1>7, <2>1 DEF TaskType, Progress
  <2>4. /\ k \in TaskType /\ k.pc \in {"kafka", "result"} /\ k.event = task[t].event /\ k.delivered = task[t].delivered
        /\ k.pc = "kafka" => k.attempts < MaxAttempts
    BY <1>a, <2>1, <2>2, <2>3 DEF TaskType, Delivering
  <2>5. task' = [task EXCEPT ![t] = k]
    BY <1>7, <2>2 DEF AttemptFails, IInv, TypeInv
  <2>6. task'[t] = k
    BY <2>5 DEF IInv, TypeInv
  <2>7. Progress(t)'
    BY <1>7, <2>1, <2>4, <2>6 DEF Progress, Delivering, Has
  <2> QED BY <1>4, <1>7, <2>4, <2>5, <2>7 DEF Delivering
<1>8. ASSUME NEW t \in Tasks, PublishKafka(t), UNCHANGED <<died, setting>> PROVE IInv'
  <2>1. task[t] \in TaskType /\ Progress(t) /\ task[t].pc = "kafka" /\ UNCHANGED <<record, letters, clickhouse>>
    BY <1>8 DEF PublishKafka, At, IInv, TypeInv
  <2>2. CASE AttemptFails(t) /\ kafka' \in {kafka, kafka \cup Sent("kafka", t)}
    BY <1>7, <1>8, <2>1, <2>2
  <2>3. CASE /\ Accepts("kafka") /\ kafka' = kafka \cup Sent("kafka", t)
             /\ task' = [task EXCEPT ![t].pc = "clickhouse"]
    <3>1. PICK k : k = [task[t] EXCEPT !.pc = "clickhouse"]
      OBVIOUS
    <3>2. /\ k \in TaskType /\ k.pc = "clickhouse" /\ k.event = task[t].event /\ k.delivered = task[t].delivered
          /\ k.attempts = task[t].attempts
      BY <2>1, <3>1 DEF TaskType, Delivering
    <3>3. task' = [task EXCEPT ![t] = k] /\ task'[t] = k
      BY <2>3, <3>1 DEF IInv, TypeInv
    <3>5. setting["kafka"] # "unset" => task[t].event \in kafka'
      BY <2>3 DEF Sent, Accepts, IInv, TypeInv, Sinks
    <3>4. Progress(t)'
      BY <1>8, <2>1, <2>3, <3>2, <3>3, <3>5 DEF Progress, Delivering, Has
    <3> QED BY <1>4, <1>8, <2>1, <2>3, <3>2, <3>3, <3>4 DEF Delivering
  <2> QED BY <1>8, <2>2, <2>3 DEF PublishKafka
<1>9. ASSUME NEW t \in Tasks, WriteClickhouse(t), UNCHANGED <<died, setting>> PROVE IInv'
  <2>1. task[t] \in TaskType /\ Progress(t) /\ task[t].pc = "clickhouse" /\ UNCHANGED <<record, letters, kafka>>
    BY <1>9 DEF WriteClickhouse, At, IInv, TypeInv
  <2>2. CASE AttemptFails(t) /\ clickhouse' \in {clickhouse, clickhouse \cup Sent("clickhouse", t)}
    BY <1>7, <1>9, <2>1, <2>2
  <2>3. CASE /\ Accepts("clickhouse") /\ clickhouse' = clickhouse \cup Sent("clickhouse", t)
             /\ task' = [task EXCEPT ![t].pc = "result", ![t].attempts = @ + 1, ![t].delivered = TRUE]
    <3>1. PICK k : k = [task[t] EXCEPT !.pc = "result", !.attempts = task[t].attempts + 1, !.delivered = TRUE]
      OBVIOUS
    <3>2. task[t].attempts \in 0 .. MaxAttempts /\ task[t].attempts < MaxAttempts
      BY <2>1 DEF TaskType, Progress
    <3>3. k \in TaskType /\ k.pc = "result" /\ k.event = task[t].event
      BY <1>a, <2>1, <3>1, <3>2 DEF TaskType, Delivering
    <3>4. task' = [task EXCEPT ![t] = k] /\ task'[t] = k
      BY <2>3, <3>1 DEF IInv, TypeInv
    <3>6. setting["clickhouse"] # "unset" => task[t].event \in clickhouse'
      BY <2>3 DEF Sent, Accepts, IInv, TypeInv, Sinks
    <3>5. Progress(t)'
      BY <1>9, <2>1, <3>3, <3>4, <3>6 DEF Progress, Delivering, Has
    <3> QED BY <1>4, <1>9, <2>1, <2>3, <3>3, <3>4, <3>5 DEF Delivering
  <2> QED BY <1>9, <2>2, <2>3 DEF WriteClickhouse
<1>10. ASSUME NEW t \in Tasks, RecordResult(t), UNCHANGED <<died, setting>> PROVE IInv'
  <2>1. task[t] \in TaskType /\ Progress(t) /\ task[t].pc = "result" /\ UNCHANGED <<kafka, clickhouse>>
    BY <1>10 DEF RecordResult, At, IInv, TypeInv
  <2>2. PICK e \in Events : e = task[t].event
    BY <2>1 DEF Progress, Delivering
  <2>3. PICK r : r = [status |-> IF task[t].delivered THEN "delivered" ELSE "dead_letter", attempts |-> task[t].attempts]
    OBVIOUS
  <2>4. /\ r \in Rows /\ r.status \in {"delivered", "dead_letter"}
        /\ r.status = "delivered" => Has(e)
    BY <2>1, <2>2, <2>3 DEF Rows, TaskType, Progress
  <2>5. record' = [record EXCEPT ![e] = r]
    BY <1>10, <2>2, <2>3 DEF RecordResult
  <2>6. letters \subseteq letters' /\ (r.status = "dead_letter" => e \in letters')
    BY <1>10, <2>2, <2>3 DEF RecordResult
  <2>7. PICK k : k = [task[t] EXCEPT !.pc = "refresh", !.attempts = 0, !.delivered = FALSE]
    OBVIOUS
  <2>8. k \in TaskType /\ k.pc = "refresh" /\ ~k.delivered
    BY <1>a, <2>1, <2>7 DEF TaskType, Delivering
  <2>9. task' = [task EXCEPT ![t] = k] /\ task'[t] = k
    BY <1>10, <2>7 DEF RecordResult, IInv, TypeInv
  <2>10. Progress(t)'
    BY <2>8, <2>9 DEF Progress, Delivering
  <2>11. /\ record' \in [Events -> Rows \cup {None}] /\ record'[e] = r /\ r # None
         /\ \A d \in Events : d # e => record'[d] = record[d]
    BY <1>0, <2>4, <2>5 DEF IInv, TypeInv
  <2>12. Moves(t, e, k)
    BY <1>10, <2>1, <2>6, <2>8, <2>9, <2>11 DEF Moves
  <2>13. Has(e)' <=> Has(e)
    BY <1>10, <2>1 DEF Has
  <2> QED BY <1>10, <2>1, <2>2, <2>4, <2>6, <2>10, <2>11, <2>12, <2>13, MovesKeepInv
<1>11. ASSUME NEW t \in Tasks, RefreshCheckpoint(t), UNCHANGED <<died, setting>> PROVE IInv'
  <2>1. /\ task[t] \in TaskType /\ task[t].pc \notin Delivering
        /\ UNCHANGED <<record, letters, kafka, clickhouse>>
    BY <1>11 DEF RefreshCheckpoint, At, IInv, TypeInv, Delivering
  <2>2. PICK k : k = IF task[t].todo = {} THEN Idle ELSE [Idle EXCEPT !.pc = "reset", !.todo = task[t].todo]
    OBVIOUS
  <2>3. k \in TaskType /\ k.pc \in {"idle", "reset"} /\ ~k.delivered
    <3>1. task[t].todo \subseteq Events
      BY <2>1 DEF TaskType
    <3> QED BY <1>a, <2>2, <3>1 DEF Idle, TaskType, Delivering
  <2>4. task' = [task EXCEPT ![t] = k] /\ task'[t] = k
    BY <1>11, <2>2 DEF RefreshCheckpoint, IInv, TypeInv
  <2>5. Progress(t)'
    BY <2>3, <2>4 DEF Progress, Delivering
  <2> QED BY <1>4, <1>11, <2>1, <2>3, <2>4, <2>5
<1> QED BY <1>1, <1>2, <1>3, <1>5, <1>6, <1>8, <1>9, <1>10, <1>11 DEF Next, Proceed

LEMMA Invariance == Spec => []IInv
<1>1. Init => IInv
  BY NoneAssumption, AttemptsAssumption, SettingsAssumption
     DEF Init, IInv, TypeInv, Progress, DeliveredIsThere, Kept, With, Idle, TaskType, Delivering
<1> QED BY <1>1, StepKeepsInv, PTL DEF Spec

(***************************************************************************)
(* An event the table calls delivered is in every sink that has a URL, and *)
(* no event is called delivered where a sink is required and has none, for *)
(* every configuration of the two: the result is recorded by the task that *)
(* was answered by both, in the order of an attempt (event_pipeline.py     *)
(* 65-144, 248-290).                                                       *)
(***************************************************************************)
THEOREM DeliveryHolds == Spec => []DeliveredIsThere
<1>1. IInv => DeliveredIsThere
  BY DEF IInv
<1> QED BY <1>1, Invariance, PTL

(***************************************************************************)
(* An event that nobody is at work on was delivered or is a dead letter,   *)
(* whatever retries ran on it at the same time, unless a task that had it  *)
(* has died (event_pipeline.py 31-63, 93-174).                             *)
(***************************************************************************)
THEOREM FailuresAreKeptHolds == Spec => []FailuresAreKept
<1>1. IInv => FailuresAreKept
  <2> SUFFICES ASSUME IInv, NEW e \in Events \ died, record[e] # None, ~AtWork(e)
               PROVE  e \in With("delivered") \/ (e \in With("dead_letter") /\ e \in letters)
    BY DEF FailuresAreKept
  <2>1. record[e] \in Rows
    BY DEF IInv, TypeInv
  <2>2. record[e].status \in {"queued", "delivered", "dead_letter"}
    BY <2>1 DEF Rows
  <2> QED BY <2>2 DEF IInv, Kept, With
<1> QED BY <1>1, Invariance, PTL
=============================================================================
