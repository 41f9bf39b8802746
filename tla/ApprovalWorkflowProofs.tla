----------------------- MODULE ApprovalWorkflowProofs -----------------------
(***************************************************************************)
(* Theorems about ApprovalWorkflow, for every set of workers, approvals,   *)
(* actors, calls and objects.                                              *)
(***************************************************************************)
EXTENDS ApprovalWorkflow, TLAPS

Active == Waiting \cup Holding
Locked == Entering \cup {"execute_run"}

\* Every reference leads to a record of the approval it is filed under.
Linked ==
    /\ \A w \in Workers, a \in Approvals :
         cache[w][a] # None => heap[cache[w][a]] # None /\ heap[cache[w][a]].id = a
    /\ \A a \in Approvals : db[a] # None => db[a].id = a
    /\ \A w \in Workers, a \in Approvals : reading[w][a] # None => reading[w][a].id = a
    /\ \A r \in Requests :
         req[r].pc \in Active =>
            /\ req[r].w \in Workers /\ req[r].x \in Actors /\ req[r].obj \in Objects
            /\ heap[req[r].obj] # None
            /\ req[r].pc \in Entering => req[r].code \in Codes

\* An approval with a record in one of these states has been decided.
Granted == {"approved", "executing", "executed", "execution_failed"}
DecidedOn(a) == \E d \in decisions : d.a = a
Backed(rec) == rec # None /\ rec.status \in Granted => DecidedOn(rec.id)

Decided ==
    /\ \A o \in Objects : Backed(heap[o])
    /\ \A a \in Approvals : Backed(db[a])
    /\ \A w \in Workers, a \in Approvals : Backed(reading[w][a])
    /\ \A m \in runs : DecidedOn(m.a)
    /\ \A r \in Requests : req[r].pc \in Locked => DecidedOn(heap[req[r].obj].id)

IInv == TypeOK /\ Linked /\ Decided

\* What an item assignment leaves in memory and in the table.
LEMMA SaveFacts ==
    ASSUME TypeOK, Linked, NEW o \in Objects, NEW rec \in Record, Save(o, rec)
    PROVE  /\ heap' = [heap EXCEPT ![o] = rec]
           /\ heap' \in [Objects -> Record \cup {None}]
           /\ db' \in [Approvals -> Record \cup {None}]
           /\ \A a \in Approvals : db'[a] = db[a] \/ (a = rec.id /\ db'[a] = rec)
BY DEF Save, Persist, TypeOK, Record

\* What get_approval leaves: the object is filed under its approval.
LEMMA PutFacts ==
    ASSUME TypeOK, Linked, NEW w \in Workers, NEW a \in Approvals, NEW o \in Objects,
           NEW rec \in Record, rec.id = a, Put(w, a, o, rec),
           cache[w][a] = o \/ Fresh(o)
    PROVE  /\ heap' = [heap EXCEPT ![o] = Checked(rec)]
           /\ heap' \in [Objects -> Record \cup {None}]
           /\ Checked(rec) \in Record /\ Checked(rec).id = a
           /\ cache' = [cache EXCEPT ![w][a] = o]
           /\ cache' \in [Workers -> [Approvals -> Objects \cup {None}]]
           /\ db' \in [Approvals -> Record \cup {None}]
           /\ \A b \in Approvals : db'[b] = db[b] \/ (b = a /\ db'[b] = Checked(rec))
           /\ Checked(rec).status \in Granted => rec.status \in Granted /\ Checked(rec) = rec
<1>1. Checked(rec) \in Record /\ Checked(rec).id = a
  BY DEF Checked, Record, Status
<1>2. Checked(rec).status \in Granted => rec.status \in Granted /\ Checked(rec) = rec
  BY DEF Checked, Record, Status, Granted
<1>3. db' \in [Approvals -> Record \cup {None}]
      /\ \A b \in Approvals : db'[b] = db[b] \/ (b = a /\ db'[b] = Checked(rec))
  <2>1. CASE Lapsed(rec)
    BY <1>1, <2>1 DEF Put, Persist, TypeOK
  <2>2. CASE ~Lapsed(rec)
    BY <2>2 DEF Put, TypeOK
  <2>3. QED BY <2>1, <2>2
<1>4. QED BY <1>1, <1>2, <1>3 DEF Put, TypeOK

\* An object in use cannot be fresh; one that get_approval finds has the approval's record.
LEMMA FindsFacts ==
    ASSUME TypeOK, Linked, NEW w \in Workers, NEW a \in Approvals, NEW o \in Objects,
           Finds(w, a, o)
    PROVE  /\ Found(w, a, o) \in Record /\ Found(w, a, o).id = a
           /\ cache[w][a] = o \/ Fresh(o)
           /\ Found(w, a, o) \in {heap[o], db[a]}
<1>1. CASE cache[w][a] = o
  BY <1>1, NoneAssumption DEF TypeOK, Linked, Found
<1>2. CASE cache[w][a] = None /\ db[a] # None /\ Fresh(o)
  BY <1>2, NoneAssumption DEF TypeOK, Linked, Found
<1>3. QED BY <1>1, <1>2 DEF Finds

\* Filing an object keeps every reference right: it was already filed under the approval,
\* or nothing referred to it.
LEMMA PutLinked ==
    ASSUME TypeOK, Linked, NEW w \in Workers, NEW a \in Approvals, NEW o \in Objects,
           NEW rec \in Record, rec.id = a, Put(w, a, o, rec),
           cache[w][a] = o \/ Fresh(o)
    PROVE  /\ \A v \in Workers, b \in Approvals :
                cache'[v][b] # None => heap'[cache'[v][b]] # None /\ heap'[cache'[v][b]].id = b
           /\ \A b \in Approvals : db'[b] # None => db'[b].id = b
           /\ \A p \in Objects : heap[p] # None => heap'[p] # None
           /\ heap'[o] # None
           /\ \A q \in Requests : req[q].pc \in Active => heap'[req[q].obj].id = heap[req[q].obj].id
<1>1. heap' = [heap EXCEPT ![o] = Checked(rec)] /\ Checked(rec) \in Record
      /\ Checked(rec).id = a /\ cache' = [cache EXCEPT ![w][a] = o]
  BY PutFacts
<1>2. Checked(rec) # None
  BY <1>1, NoRecordAssumption
<1>3. ASSUME NEW v \in Workers, NEW b \in Approvals, cache'[v][b] # None
      PROVE  heap'[cache'[v][b]] # None /\ heap'[cache'[v][b]].id = b
  <2>1. CASE v = w /\ b = a
    BY <1>1, <1>2, <2>1 DEF TypeOK
  <2>2. CASE ~(v = w /\ b = a)
    <3>1. cache'[v][b] = cache[v][b] /\ cache[v][b] \in Objects
      BY <1>1, <1>3, <2>2 DEF TypeOK
    <3>2. CASE cache[v][b] = o
      <4>1. cache[w][a] = o
        BY <3>2 DEF Fresh
      <4>2. a = b
        BY <3>2, <4>1, <3>1, NoneAssumption DEF Linked
      <4>3. QED BY <1>1, <1>2, <3>1, <3>2, <4>2 DEF TypeOK
    <3>3. CASE cache[v][b] # o
      BY <1>1, <1>3, <3>1, <3>3 DEF TypeOK, Linked
    <3>4. QED BY <3>2, <3>3
  <2>3. QED BY <2>1, <2>2
<1>4. \A b \in Approvals : db'[b] # None => db'[b].id = b
  <2>1. \A b \in Approvals : db'[b] = db[b] \/ (b = a /\ db'[b] = Checked(rec))
    BY PutFacts
  <2>2. \A b \in Approvals : db[b] # None => db[b].id = b
    BY DEF Linked
  <2>3. QED BY <1>1, <2>1, <2>2
<1>5. ASSUME NEW q \in Requests, req[q].pc \in Active
      PROVE  heap'[req[q].obj].id = heap[req[q].obj].id
  <2>1. CASE req[q].obj = o
    <3>1. cache[w][a] = o
      BY <2>1 DEF Fresh
    <3>2. heap[o].id = a
      BY <3>1, NoneAssumption DEF Linked
    <3>3. QED BY <1>1, <2>1, <3>2 DEF TypeOK
  <2>2. CASE req[q].obj # o
    BY <1>1, <1>5, <2>2 DEF TypeOK, Linked
  <2>3. QED BY <2>1, <2>2
<1>6. QED BY <1>1, <1>2, <1>3, <1>4, <1>5 DEF TypeOK

\* The same for an assignment on an object by the handler that holds it.
LEMMA SaveLinked ==
    ASSUME TypeOK, Linked, NEW o \in Objects, heap[o] # None,
           NEW rec \in Record, rec.id = heap[o].id, Save(o, rec)
    PROVE  /\ \A v \in Workers, b \in Approvals :
                cache[v][b] # None => heap'[cache[v][b]] # None /\ heap'[cache[v][b]].id = b
           /\ \A b \in Approvals : db'[b] # None => db'[b].id = b
           /\ \A p \in Objects : heap[p] # None => heap'[p] # None /\ heap'[p].id = heap[p].id
<1>1. heap' = [heap EXCEPT ![o] = rec] /\ rec # None
  BY SaveFacts, NoRecordAssumption
<1>2. ASSUME NEW v \in Workers, NEW b \in Approvals, cache[v][b] # None
      PROVE  heap'[cache[v][b]] # None /\ heap'[cache[v][b]].id = b
  <2>1. cache[v][b] \in Objects
    BY <1>2 DEF TypeOK
  <2>2. CASE cache[v][b] = o
    BY <1>1, <1>2, <2>2 DEF TypeOK, Linked
  <2>3. CASE cache[v][b] # o
    BY <1>1, <1>2, <2>1, <2>3 DEF TypeOK, Linked
  <2>4. QED BY <2>2, <2>3
<1>3. \A b \in Approvals : db'[b] # None => db'[b].id = b
  BY SaveFacts DEF Linked
<1>4. \A p \in Objects : heap[p] # None => heap'[p] # None /\ heap'[p].id = heap[p].id
  BY <1>1 DEF TypeOK
<1>5. QED BY <1>2, <1>3, <1>4

\* The record a handler works on.
LEMMA HandlerFacts ==
    ASSUME TypeOK, Linked, NEW r \in Requests, req[r].pc \in Active
    PROVE  /\ Rec(r) \in Record /\ Rec(r).id \in Approvals
           /\ Rec(r) = heap[req[r].obj]
           /\ req[r].obj \in Objects /\ req[r].w \in Workers /\ req[r].x \in Actors
           /\ req[r].code \in Codes \cup {None}
BY DEF TypeOK, Linked, Rec, Record, Handler

\* /execute once it has taken the token, up to the assignment of the token on the object.
Enters(r) == ExecuteMark(r) \/ ExecuteCount(r) \/ ExecuteEnter(r)
Stage(pc) == IF pc = "execute_mark" THEN "approved" ELSE "executing"

\* What one of these steps writes, and where it leads.
LEMMA EntryFacts ==
    ASSUME TypeOK, Linked, NEW r \in Requests, Enters(r)
    PROVE  \E rec \in Record, h \in Handler :
              /\ req[r].pc \in Entering /\ Runs(r, req[r].pc)
              /\ Save(req[r].obj, rec) /\ req' = [req EXCEPT ![r] = h]
              /\ UNCHANGED <<cache, loop, reading, now, created, decisions, runs, rejected>>
              /\ h.w = req[r].w /\ h.x = req[r].x /\ h.obj = req[r].obj /\ h.code = req[r].code
              /\ rec.id = Rec(r).id
              /\ rec.used = (Rec(r).used \/ req[r].pc = "execute_enter")
              /\ rec.status = IF req[r].pc = "execute_mark" THEN "executing" ELSE Rec(r).status
              /\ h.pc = CASE req[r].pc = "execute_mark" -> "execute_count"
                          [] req[r].pc = "execute_count" -> "execute_enter"
                          [] req[r].pc = "execute_enter" -> "execute_run"
<1>0. req \in [Requests -> Handler] /\ req[r] \in Handler
  BY DEF TypeOK
<1>1. CASE ExecuteMark(r)
  <2> DEFINE rec == [Rec(r) EXCEPT !.status = "executing"]
             h == [req[r] EXCEPT !.pc = "execute_count"]
  <2>1. req[r].pc = "execute_mark" /\ req[r].pc \in Active
    BY <1>1 DEF ExecuteMark, Runs, Active, Holding, Entering
  <2>2. /\ rec \in Record /\ rec.id = Rec(r).id /\ rec.used = Rec(r).used
        /\ rec.used \in BOOLEAN /\ rec.status = "executing"
    BY <2>1, HandlerFacts DEF Record, Status
  <2>3. /\ h \in Handler /\ h.pc = "execute_count" /\ h.w = req[r].w /\ h.x = req[r].x
        /\ h.obj = req[r].obj /\ h.code = req[r].code
    BY <1>0 DEF Handler, Holding, Entering
  <2>4. req' = [req EXCEPT ![r] = h] /\ Save(req[r].obj, rec)
    BY <1>0, <1>1 DEF ExecuteMark
  <2> HIDE DEF rec, h
  <2>5. QED BY <1>1, <2>1, <2>2, <2>3, <2>4 DEF ExecuteMark, Entering
<1>2. CASE ExecuteCount(r)
  <2> DEFINE rec == [Rec(r) EXCEPT !.execCode = req[r].code]
             h == [req[r] EXCEPT !.pc = "execute_enter"]
  <2>1. req[r].pc = "execute_count" /\ req[r].pc \in Active
    BY <1>2 DEF ExecuteCount, Runs, Active, Holding, Entering
  <2>2. /\ rec \in Record /\ rec.id = Rec(r).id /\ rec.used = Rec(r).used
        /\ rec.used \in BOOLEAN /\ rec.status = Rec(r).status
    BY <2>1, HandlerFacts DEF Record, Status
  <2>3. /\ h \in Handler /\ h.pc = "execute_enter" /\ h.w = req[r].w /\ h.x = req[r].x
        /\ h.obj = req[r].obj /\ h.code = req[r].code
    BY <1>0 DEF Handler, Holding, Entering
  <2>4. req' = [req EXCEPT ![r] = h] /\ Save(req[r].obj, rec)
    BY <1>0, <1>2 DEF ExecuteCount
  <2> HIDE DEF rec, h
  <2>5. QED BY <1>2, <2>1, <2>2, <2>3, <2>4 DEF ExecuteCount, Entering
<1>3. CASE ExecuteEnter(r)
  <2> DEFINE rec == [Rec(r) EXCEPT !.used = TRUE]
             h == [req[r] EXCEPT !.pc = "execute_run"]
  <2>1. req[r].pc = "execute_enter" /\ req[r].pc \in Active
    BY <1>3 DEF ExecuteEnter, Runs, Active, Holding, Entering
  <2>2. /\ rec \in Record /\ rec.id = Rec(r).id /\ rec.used = TRUE
        /\ rec.status = Rec(r).status
    BY <2>1, HandlerFacts DEF Record, Status
  <2>3. /\ h \in Handler /\ h.pc = "execute_run" /\ h.w = req[r].w /\ h.x = req[r].x
        /\ h.obj = req[r].obj /\ h.code = req[r].code
    BY <1>0 DEF Handler, Holding
  <2>4. req' = [req EXCEPT ![r] = h] /\ Save(req[r].obj, rec)
    BY <1>0, <1>3 DEF ExecuteEnter
  <2> HIDE DEF rec, h
  <2>5. QED BY <1>3, <2>1, <2>2, <2>3, <2>4 DEF ExecuteEnter, Entering
<1>4. QED BY <1>1, <1>2, <1>3 DEF Enters

\* A handler that assigns to its record, and to nothing else of the store, keeps the
\* invariant if the new record is of the same approval and is backed by a decision.
LEMMA AssignKeepsIInv ==
    ASSUME IInv, NEW r \in Requests, req[r].pc \in Active,
           NEW rec \in Record, rec.id = Rec(r).id, Save(req[r].obj, rec),
           UNCHANGED <<cache, reading, now, created, runs>>,
           decisions \subseteq decisions',
           decisions' \subseteq [a : Approvals, x : Actors, code : Codes \cup {None}],
           rec.status \in Granted => \E d \in decisions' : d.a = rec.id,
           rejected' \subseteq Approvals,
           loop' \in [Workers -> Requests \cup {None}],
           NEW h \in Handler, req' = [req EXCEPT ![r] = h],
           h.pc \in Active => h.w = req[r].w /\ h.x = req[r].x /\ h.obj = req[r].obj,
           h.pc \in Entering => h.code \in Codes, h.pc \in Locked => DecidedOn(rec.id)
    PROVE  IInv'
<1> USE DEF IInv
<1>1. req[r].obj \in Objects /\ heap[req[r].obj] # None /\ rec.id = heap[req[r].obj].id
      /\ req[r].w \in Workers /\ req[r].x \in Actors
  BY HandlerFacts DEF Linked, Rec
<1>2. TypeOK'
  BY <1>1, SaveFacts DEF TypeOK
<1>3. Linked'
  <2>1. \A q \in Requests : req'[q].pc \in Active =>
           /\ req'[q].w \in Workers /\ req'[q].x \in Actors /\ req'[q].obj \in Objects
           /\ heap'[req'[q].obj] # None
           /\ req'[q].pc \in Entering => req'[q].code \in Codes
    BY <1>1, SaveLinked DEF TypeOK, Linked, Handler
  <2>2. /\ \A v \in Workers, b \in Approvals :
             cache[v][b] # None => heap'[cache[v][b]] # None /\ heap'[cache[v][b]].id = b
        /\ \A b \in Approvals : db'[b] # None => db'[b].id = b
    BY <1>1, SaveLinked
  <2>3. QED BY <2>1, <2>2 DEF Linked
<1>4. Decided'
  <2>1. heap' = [heap EXCEPT ![req[r].obj] = rec]
        /\ \A a \in Approvals : db'[a] = db[a] \/ db'[a] = rec
    BY <1>1, SaveFacts
  <2>2. \A a : DecidedOn(a) => DecidedOn(a)'
    BY DEF DecidedOn
  <2>3. Backed(rec)'
    BY DEF Backed, DecidedOn
  <2>4. \A o \in Objects : Backed(heap[o])'
    BY <1>1, <2>1, <2>2, <2>3 DEF Decided, Backed, TypeOK
  <2>5. \A a \in Approvals : Backed(db[a])'
    BY <2>1, <2>2, <2>3 DEF Decided, Backed
  <2>6. \A q \in Requests : req'[q].pc \in Locked => DecidedOn(heap'[req'[q].obj].id)
    <3>0. req'[r] = h /\ \A q \in Requests : q # r => req'[q] = req[q]
      BY DEF TypeOK
    <3>1. \A p \in Objects : heap[p] # None => heap'[p].id = heap[p].id
      BY <1>1, SaveLinked
    <3>2. ASSUME NEW q \in Requests, q # r, req[q].pc \in Locked
          PROVE  DecidedOn(heap'[req[q].obj].id)
      <4>1. DecidedOn(heap[req[q].obj].id)
        BY <3>2 DEF Decided
      <4>2. req[q].obj \in Objects /\ heap[req[q].obj] # None
        BY <3>2 DEF Linked, Locked, Active, Holding, Entering
      <4>3. heap'[req[q].obj].id = heap[req[q].obj].id
        BY <3>1, <4>2
      <4> QED BY <2>2, <4>1, <4>3
    <3>3. ASSUME h.pc \in Locked PROVE DecidedOn(heap'[h.obj].id)
      <4>1. h.obj = req[r].obj /\ DecidedOn(rec.id)
        BY <3>3 DEF Locked, Active, Holding, Entering
      <4>2. heap'[h.obj].id = rec.id
        BY <1>1, <2>1, <4>1 DEF TypeOK
      <4> QED BY <4>1, <4>2
    <3> QED BY <3>0, <3>2, <3>3
  <2>7. QED BY <2>2, <2>4, <2>5, <2>6 DEF Decided, Backed
<1>5. QED BY <1>2, <1>3, <1>4

LEMMA GetKeepsIInv ==
    ASSUME IInv, NEW w \in Workers, NEW a \in Approvals, NEW o \in Objects,
           NEW rec \in Record, rec.id = a, Put(w, a, o, rec),
           cache[w][a] = o \/ Fresh(o), Backed(rec),
           UNCHANGED <<loop, now, created, decisions, runs, rejected>>,
           reading' \in [Workers -> [Approvals -> Record \cup {None}]],
           \A v \in Workers, b \in Approvals : reading'[v][b] \in {reading[v][b], None},
           req' \in [Requests -> Handler],
           \A q \in Requests :
              \/ req'[q] = req[q]
              \/ req'[q].pc \notin Active
              \/ req'[q].pc \in Waiting /\ req'[q].w = w /\ req'[q].x \in Actors /\ req'[q].obj = o
    PROVE  IInv'
<1> USE DEF IInv
<1>1. TypeOK'
  BY PutFacts DEF TypeOK
<1>2. Linked'
  <2>1. \A q \in Requests : req'[q].pc \in Active =>
           /\ req'[q].w \in Workers /\ req'[q].x \in Actors /\ req'[q].obj \in Objects
           /\ heap'[req'[q].obj] # None
           /\ req'[q].pc \in Entering => req'[q].code \in Codes
    BY PutLinked DEF Linked, Waiting, Entering
  <2>2. \A v \in Workers, b \in Approvals : reading'[v][b] # None => reading'[v][b].id = b
    BY DEF Linked
  <2>3. QED BY <2>1, <2>2, PutLinked DEF Linked
<1>3. Decided'
  <2>1. \A b : DecidedOn(b)' <=> DecidedOn(b)
    BY DEF DecidedOn
  <2>2. Backed(Checked(rec))
    BY PutFacts, NoRecordAssumption DEF Backed
  <2>3. \A p \in Objects : Backed(heap[p])'
    <3>1. \A p \in Objects : heap'[p] = heap[p] \/ heap'[p] = Checked(rec)
      BY PutFacts DEF TypeOK
    <3>2. QED BY <2>1, <2>2, <3>1 DEF Decided, Backed
  <2>4. \A b \in Approvals : Backed(db[b])'
    <3>1. \A b \in Approvals : db'[b] = db[b] \/ db'[b] = Checked(rec)
      BY PutFacts
    <3>2. \A b \in Approvals : Backed(db[b])
      BY DEF Decided
    <3> QED BY <2>1, <2>2, <3>1, <3>2 DEF Backed
  <2>5. \A v \in Workers, b \in Approvals : Backed(reading[v][b])'
    BY <2>1 DEF Decided, Backed
  <2>6. \A q \in Requests : req'[q].pc \in Locked => DecidedOn(heap'[req'[q].obj].id)
    BY PutLinked DEF Decided, Locked, Active, Waiting, Holding, Entering
  <2>7. QED BY <2>1, <2>3, <2>4, <2>5, <2>6 DEF Decided
<1>4. QED BY <1>1, <1>2, <1>3

LEMMA FoundBacked ==
    ASSUME IInv, NEW w \in Workers, NEW a \in Approvals, NEW o \in Objects, Finds(w, a, o)
    PROVE  Backed(Found(w, a, o))
BY DEF IInv, Decided, Found, Finds

\* A step of a handler.
LEMMA HandlerStepIInv ==
    ASSUME IInv, NEW r \in Requests, HandlerStep(r)
    PROVE  IInv'
<1> USE DEF IInv
<1>0. Gone \in Handler /\ Gone.pc \notin Active
  BY DEF Gone, Handle, Handler, Active, Waiting, Holding, Entering
<1>1. ASSUME NEW w \in Workers, NEW a \in Approvals, NEW x \in Actors, NEW o \in Objects,
             NEW pc \in Waiting, Begin(r, pc, w, a, x, o)
      PROVE  IInv'
  <2> DEFINE h == Handle(pc, w, x, o, None)
  <2>1. Finds(w, a, o) /\ Put(w, a, o, Found(w, a, o))
    BY <1>1 DEF Begin, Get
  <2>2. Found(w, a, o) \in Record /\ Found(w, a, o).id = a /\ (cache[w][a] = o \/ Fresh(o))
    BY <2>1, FindsFacts
  <2>3. h \in Handler /\ h.pc = pc /\ h.w = w /\ h.x = x /\ h.obj = o
    BY DEF Handle, Handler, Waiting
  <2>4. req' = [req EXCEPT ![r] = Gone] \/ req' = [req EXCEPT ![r] = h]
    BY <1>1 DEF Begin
  <2>5. req' \in [Requests -> Handler]
    BY <1>0, <2>3, <2>4 DEF TypeOK
  <2>6. \A q \in Requests : req'[q] = req[q] \/ req'[q] = Gone \/ req'[q] = h
    BY <2>4 DEF TypeOK
  <2>7. \A v \in Workers, b \in Approvals : reading'[v][b] \in {reading[v][b], None}
    BY <1>1 DEF Begin
  <2>8. reading' \in [Workers -> [Approvals -> Record \cup {None}]]
    BY <1>1 DEF Begin, TypeOK
  <2>9. \A q \in Requests :
           \/ req'[q] = req[q]
           \/ req'[q].pc \notin Active
           \/ req'[q].pc \in Waiting /\ req'[q].w = w /\ req'[q].x \in Actors /\ req'[q].obj = o
    BY <1>0, <2>3, <2>6
  <2>10. UNCHANGED <<loop, now, created, decisions, runs, rejected>>
    BY <1>1 DEF Begin
  <2>11. Backed(Found(w, a, o))
    BY <2>1, FoundBacked
  <2> HIDE DEF h
  <2>12. QED BY <2>1, <2>2, <2>5, <2>7, <2>8, <2>9, <2>10, <2>11, GetKeepsIInv
<1>2. ASSUME Refuse(r) PROVE IInv'
  <2>1. req' = [req EXCEPT ![r] = Gone]
        /\ UNCHANGED <<db, heap, cache, loop, reading, now, created, decisions, runs, rejected>>
    BY <1>2 DEF Refuse, Finish
  <2>2. TypeOK'
    BY <1>0, <2>1 DEF TypeOK
  <2>3. Linked'
    BY <1>0, <2>1 DEF TypeOK, Linked
  <2>4. Decided'
    <3>1. ASSUME NEW q \in Requests, req'[q].pc \in Locked PROVE DecidedOn(heap[req'[q].obj].id)
      <4>1. req'[q] = req[q]
        BY <1>0, <2>1, <3>1 DEF TypeOK, Locked, Entering, Gone, Handle
      <4> QED BY <3>1, <4>1 DEF Decided
    <3>2. \A b : DecidedOn(b)' <=> DecidedOn(b)
      BY <2>1 DEF DecidedOn
    <3> QED BY <2>1, <3>1, <3>2 DEF Decided, Backed
  <2>5. QED BY <2>2, <2>3, <2>4
<1>3. ASSUME NEW c \in Codes \cup {None}, ApproveMark(r, c) PROVE IInv'
  <2> DEFINE rec == [Rec(r) EXCEPT !.status = "approved"]
             h == [req[r] EXCEPT !.pc = "approve_seal", !.code = c]
             d == [a |-> Rec(r).id, x |-> req[r].x, code |-> c]
  <2>1. req[r].pc \in Active
    BY <1>3 DEF ApproveMark, Runs, Active, Waiting
  <2>2. rec \in Record /\ rec.id = Rec(r).id
    BY <2>1, HandlerFacts DEF Record, Status
  <2>3. h \in Handler /\ h.w = req[r].w /\ h.x = req[r].x /\ h.obj = req[r].obj
        /\ h.pc \notin Entering
    <3>1. PICK g : g = [req[r] EXCEPT !.pc = "approve_seal"]
      OBVIOUS
    <3>2. /\ g \in Handler /\ g.pc = "approve_seal" /\ g.w = req[r].w /\ g.x = req[r].x /\ g.obj = req[r].obj
      BY <3>1 DEF TypeOK, Handler, Holding, Entering
    <3>3. h = [g EXCEPT !.code = c]
      BY <3>1 DEF TypeOK, Handler
    <3> QED BY <3>2, <3>3 DEF Handler, Entering
  <2>4. d \in [a : Approvals, x : Actors, code : Codes \cup {None}] /\ d.a = rec.id
    BY <2>1, <2>2, HandlerFacts
  <2>5. decisions' = decisions \cup {d}
    BY <1>3 DEF ApproveMark
  <2>6. \E e \in decisions' : e.a = rec.id
    BY <2>4, <2>5
  <2>7. decisions' \subseteq [a : Approvals, x : Actors, code : Codes \cup {None}]
    BY <2>4, <2>5 DEF TypeOK
  <2>8. loop' \in [Workers -> Requests \cup {None}]
    BY <1>3 DEF ApproveMark, Hold, TypeOK
  <2>9. req' = [req EXCEPT ![r] = h]
    BY <1>3 DEF ApproveMark, TypeOK
  <2>10. Save(req[r].obj, rec) /\ UNCHANGED <<cache, reading, now, created, runs, rejected>>
    BY <1>3 DEF ApproveMark
  <2>11. rejected' \subseteq Approvals
    BY <2>10 DEF TypeOK
  <2>12. h.pc \in Locked => DecidedOn(rec.id)
    BY DEF Locked, Entering, TypeOK, Handler
  <2> HIDE DEF rec, h, d
  <2>13. QED
    BY <2>1, <2>2, <2>3, <2>5, <2>6, <2>7, <2>8, <2>9, <2>10, <2>11, <2>12, AssignKeepsIInv
<1>4. ASSUME ApproveSeal(r) PROVE IInv'
  <2> DEFINE rec == [Rec(r) EXCEPT !.by = req[r].x, !.code = req[r].code,
                                 !.window = now + ExecutionWindow]
             h == Gone
  <2>1. req[r].pc \in Active
    BY <1>4 DEF ApproveSeal, MayExecute, Runs, Active, Waiting, Holding, Entering
  <2>2. rec \in Record /\ rec.id = Rec(r).id
    <3>1. /\ Rec(r) \in Record /\ req[r].code \in Codes \cup {None} /\ req[r].x \in Actors
          /\ now + ExecutionWindow \in Nat
      BY <2>1, HandlerFacts, WindowAssumption DEF TypeOK
    <3>2. QED BY <3>1 DEF Record, Status
  <2>3. /\ h \in Handler /\ h.pc \notin Entering
        /\ h.pc \in Active => h.w = req[r].w /\ h.x = req[r].x /\ h.obj = req[r].obj
    BY <1>0 DEF TypeOK, Handler, Active, Holding, Entering, Waiting, Gone, Handle
  <2>4. rec.status \in Granted => \E d \in decisions' : d.a = rec.id
    <3>1. Backed(Rec(r)) /\ Rec(r) # None
      BY <2>1, HandlerFacts, NoRecordAssumption DEF Decided
    <3>2. rec.status = Rec(r).status /\ decisions' = decisions
      BY <1>4, <2>1, HandlerFacts DEF ApproveSeal, Record
    <3>3. QED BY <2>2, <3>1, <3>2 DEF Backed, DecidedOn
  <2>5. decisions' \subseteq [a : Approvals, x : Actors, code : Codes \cup {None}]
        /\ decisions \subseteq decisions' /\ rejected' \subseteq Approvals
        /\ loop' \in [Workers -> Requests \cup {None}]
    BY <1>4, <2>1, HandlerFacts DEF ApproveSeal, TypeOK, Release
  <2>6. req' = [req EXCEPT ![r] = h]
    BY <1>4 DEF ApproveSeal, TypeOK, Finish
  <2>7. Save(req[r].obj, rec) /\ UNCHANGED <<cache, reading, now, created, runs>>
    BY <1>4 DEF ApproveSeal
  <2>8. h.pc \in Locked => DecidedOn(rec.id)
    BY DEF Gone, Handle, Locked, Entering
  <2> HIDE DEF rec, h
  <2>9. QED BY <2>1, <2>2, <2>3, <2>4, <2>5, <2>6, <2>7, <2>8, AssignKeepsIInv
<1>5. ASSUME RejectFinish(r) PROVE IInv'
  <2> DEFINE rec == [Rec(r) EXCEPT !.status = "rejected"]
             h == Gone
  <2>1. req[r].pc \in Active
    BY <1>5 DEF RejectFinish, MayExecute, Runs, Active, Waiting, Holding, Entering
  <2>2. rec \in Record /\ rec.id = Rec(r).id
    BY <1>5, <2>1, HandlerFacts DEF Record, Status
  <2>3. /\ h \in Handler /\ h.pc \notin Entering
        /\ h.pc \in Active => h.w = req[r].w /\ h.x = req[r].x /\ h.obj = req[r].obj
    BY <1>0 DEF TypeOK, Handler, Active, Holding, Entering, Waiting, Gone, Handle
  <2>4. rec.status \in Granted => \E d \in decisions' : d.a = rec.id
    BY <2>1, HandlerFacts DEF Record, Granted
  <2>5. decisions' \subseteq [a : Approvals, x : Actors, code : Codes \cup {None}]
        /\ decisions \subseteq decisions' /\ rejected' \subseteq Approvals
        /\ loop' \in [Workers -> Requests \cup {None}]
    BY <1>5, <2>1, HandlerFacts DEF RejectFinish, TypeOK
  <2>6. req' = [req EXCEPT ![r] = h]
    BY <1>5 DEF RejectFinish, TypeOK, Finish
  <2>7. Save(req[r].obj, rec) /\ UNCHANGED <<cache, reading, now, created, runs>>
    BY <1>5 DEF RejectFinish
  <2>8. h.pc \in Locked => DecidedOn(rec.id)
    BY DEF Gone, Handle, Locked, Entering
  <2> HIDE DEF rec, h
  <2>9. QED BY <2>1, <2>2, <2>3, <2>4, <2>5, <2>6, <2>7, <2>8, AssignKeepsIInv
<1>6. ASSUME ExecuteLapse(r) PROVE IInv'
  <2> DEFINE rec == [Rec(r) EXCEPT !.status = "expired"]
             h == Gone
  <2>1. req[r].pc \in Active
    BY <1>6 DEF ExecuteLapse, MayExecute, Runs, Active, Waiting, Holding, Entering
  <2>2. rec \in Record /\ rec.id = Rec(r).id
    BY <1>6, <2>1, HandlerFacts DEF Record, Status
  <2>3. /\ h \in Handler /\ h.pc \notin Entering
        /\ h.pc \in Active => h.w = req[r].w /\ h.x = req[r].x /\ h.obj = req[r].obj
    BY <1>0 DEF TypeOK, Handler, Active, Holding, Entering, Waiting, Gone, Handle
  <2>4. rec.status \in Granted => \E d \in decisions' : d.a = rec.id
    BY <2>1, HandlerFacts DEF Record, Granted
  <2>5. decisions' \subseteq [a : Approvals, x : Actors, code : Codes \cup {None}]
        /\ decisions \subseteq decisions' /\ rejected' \subseteq Approvals
        /\ loop' \in [Workers -> Requests \cup {None}]
    BY <1>6, <2>1, HandlerFacts DEF ExecuteLapse, TypeOK
  <2>6. req' = [req EXCEPT ![r] = h]
    BY <1>6 DEF ExecuteLapse, TypeOK, Finish
  <2>7. Save(req[r].obj, rec) /\ UNCHANGED <<cache, reading, now, created, runs>>
    BY <1>6 DEF ExecuteLapse
  <2>8. h.pc \in Locked => DecidedOn(rec.id)
    BY DEF Gone, Handle, Locked, Entering
  <2> HIDE DEF rec, h
  <2>9. QED BY <2>1, <2>2, <2>3, <2>4, <2>5, <2>6, <2>7, <2>8, AssignKeepsIInv
<1>7. ASSUME NEW c \in Codes, ExecuteLock(r, c) PROVE IInv'
  <2> DEFINE a == Rec(r).id
             row == [db[a] EXCEPT !.status = "executing", !.used = TRUE, !.execCode = c]
             h == [req[r] EXCEPT !.pc = "execute_mark", !.code = c]
             m == [r |-> r, a |-> a, x |-> req[r].x, code |-> c]
  <2>1. req[r].pc \in Active
    BY <1>7 DEF ExecuteLock, MayExecute, Runs, Active, Waiting
  <2>2. a \in Approvals /\ db[a] \in Record /\ db[a].id = a /\ db[a].status = "approved"
    <3>1. db[a] # None /\ db[a].status = "approved"
      BY <1>7 DEF ExecuteLock
    <3>2. a \in Approvals
      BY <2>1, HandlerFacts
    <3>3. db[a] \in Record /\ db[a].id = a
      BY <3>1, <3>2 DEF TypeOK, Linked
    <3> QED BY <3>1, <3>2, <3>3
  <2>3. row \in Record /\ row.id = a
    BY <2>2 DEF Record, Status
  <2>4. db' = [db EXCEPT ![a] = row]
    BY <1>7, <2>2 DEF ExecuteLock, TypeOK, Record
  <2>5. h \in Handler /\ h.w = req[r].w /\ h.x = req[r].x /\ h.obj = req[r].obj /\ h.code = c
    BY DEF TypeOK, Handler, Holding, Entering
  <2>6. req' = [req EXCEPT ![r] = h] /\ runs' = runs \cup {m}
        /\ UNCHANGED <<heap, cache, reading, now, created, decisions, rejected>>
    BY <1>7 DEF ExecuteLock, TypeOK
  <2>7. m \in [r : Requests, a : Approvals, x : Actors, code : Codes] /\ m.a = a
    BY <2>1, <2>2, HandlerFacts
  <2>8. DecidedOn(a)
    BY <2>2, NoRecordAssumption DEF Decided, Backed, Granted
  <2>9. loop' \in [Workers -> Requests \cup {None}]
    BY <1>7 DEF ExecuteLock, Hold, TypeOK
  <2> HIDE DEF a, row, h, m
  <2>10. TypeOK'
    BY <2>2, <2>3, <2>4, <2>5, <2>6, <2>7, <2>9 DEF TypeOK
  <2>11. Linked'
    BY <2>1, <2>2, <2>3, <2>4, <2>5, <2>6 DEF TypeOK, Linked, Active
  <2>12. Decided'
    <3>1. \A b : DecidedOn(b)' <=> DecidedOn(b)
      BY <2>6 DEF DecidedOn
    <3>2. \A b \in Approvals : Backed(db'[b])
      BY <2>2, <2>3, <2>4, <2>8 DEF Decided, Backed, TypeOK
    <3>3. \A n \in runs' : DecidedOn(n.a)
      BY <2>6, <2>7, <2>8 DEF Decided
    <3>4. \A q \in Requests : req'[q].pc \in Locked => DecidedOn(heap[req'[q].obj].id)
      <4>1. DecidedOn(heap[req[r].obj].id)
        BY <2>8 DEF a, Rec
      <4>2. QED BY <2>5, <2>6, <4>1 DEF Decided, TypeOK
    <3>5. QED BY <2>6, <3>1, <3>2, <3>3, <3>4 DEF Decided, Backed
  <2>13. QED BY <2>10, <2>11, <2>12
<1>8. ASSUME Enters(r) PROVE IInv'
  <2>1. PICK rec \in Record, h \in Handler :
          /\ req[r].pc \in Entering
          /\ Save(req[r].obj, rec) /\ req' = [req EXCEPT ![r] = h]
          /\ UNCHANGED <<cache, loop, reading, now, created, decisions, runs, rejected>>
          /\ h.w = req[r].w /\ h.x = req[r].x /\ h.obj = req[r].obj /\ h.code = req[r].code
          /\ rec.id = Rec(r).id
    BY <1>8, EntryFacts
  <2>2. req[r].pc \in Active /\ req[r].pc \in Locked
    BY <2>1 DEF Active, Holding, Locked
  <2>3. h.code \in Codes
    BY <2>1, <2>2 DEF Linked
  <2>4. DecidedOn(rec.id)
    BY <2>1, <2>2 DEF Decided, Rec
  <2>5. /\ decisions' \subseteq [a : Approvals, x : Actors, code : Codes \cup {None}]
        /\ decisions \subseteq decisions' /\ rejected' \subseteq Approvals
        /\ loop' \in [Workers -> Requests \cup {None}]
    BY <2>1 DEF TypeOK
  <2>6. \E d \in decisions' : d.a = rec.id
    BY <2>1, <2>4 DEF DecidedOn
  <2>7. QED BY <2>1, <2>2, <2>3, <2>4, <2>5, <2>6, AssignKeepsIInv
<1>9. ASSUME NEW outcome \in {"executed", "execution_failed"}, ExecuteEnd(r, outcome) PROVE IInv'
  <2> DEFINE rec == [Rec(r) EXCEPT !.status = outcome]
             h == Gone
  <2>1. req[r].pc \in Active
    BY <1>9 DEF ExecuteEnd, MayExecute, Runs, Active, Waiting, Holding, Entering
  <2>2. rec \in Record /\ rec.id = Rec(r).id
    <3>1. Rec(r) \in Record /\ req[r].code \in Codes \cup {None}
      BY <2>1, HandlerFacts
    <3>2. QED BY <3>1 DEF Record, Status
  <2>3. /\ h \in Handler /\ h.pc \notin Entering
        /\ h.pc \in Active => h.w = req[r].w /\ h.x = req[r].x /\ h.obj = req[r].obj
    BY <1>0 DEF TypeOK, Handler, Active, Holding, Entering, Waiting, Gone, Handle
  <2>4. rec.status \in Granted => \E d \in decisions' : d.a = rec.id
    BY <1>9, <2>1, <2>2 DEF ExecuteEnd, Runs, Decided, Locked, Entering, DecidedOn, Rec
  <2>5. decisions' \subseteq [a : Approvals, x : Actors, code : Codes \cup {None}]
        /\ decisions \subseteq decisions' /\ rejected' \subseteq Approvals
        /\ loop' \in [Workers -> Requests \cup {None}]
    BY <1>9, <2>1, HandlerFacts DEF ExecuteEnd, TypeOK, Release
  <2>6. req' = [req EXCEPT ![r] = h]
    BY <1>9 DEF ExecuteEnd, TypeOK, Finish
  <2>7. Save(req[r].obj, rec) /\ UNCHANGED <<cache, reading, now, created, runs>>
    BY <1>9 DEF ExecuteEnd
  <2>8. h.pc \in Locked => DecidedOn(rec.id)
    BY DEF Gone, Handle, Locked, Entering
  <2> HIDE DEF rec, h
  <2>9. QED BY <2>1, <2>2, <2>3, <2>4, <2>5, <2>6, <2>7, <2>8, AssignKeepsIInv
<1>10. QED
  BY <1>1, <1>2, <1>3, <1>4, <1>5, <1>6, <1>7, <1>8, <1>9 DEF HandlerStep, Enters

\* Writing a record over whatever the object held, when only its own approval refers to it.
LEMMA WriteKeepsIInv ==
    ASSUME IInv, NEW w \in Workers, NEW a \in Approvals, NEW o \in Objects,
           cache[w][a] = o \/ Fresh(o),
           NEW rec \in Record, rec.id = a, rec.status = "pending", Save(o, rec),
           cache' = [cache EXCEPT ![w][a] = o],
           created' \subseteq Approvals,
           UNCHANGED <<loop, req, reading, now, decisions, runs, rejected>>
    PROVE  IInv'
<1> USE DEF IInv
<1>1. heap' = [heap EXCEPT ![o] = rec] /\ heap' \in [Objects -> Record \cup {None}]
      /\ db' \in [Approvals -> Record \cup {None}] /\ rec # None
      /\ \A b \in Approvals : db'[b] = db[b] \/ (b = a /\ db'[b] = rec)
  BY SaveFacts, NoRecordAssumption
<1>2. \A r \in Requests : req[r].obj = o /\ req[r].pc \in Active => heap[o].id = a
  BY NoneAssumption DEF Fresh, Linked
<1>3. \A v \in Workers, b \in Approvals : ~(v = w /\ b = a) /\ cache[v][b] = o => b = a
  BY NoneAssumption DEF Fresh, Linked
<1>4. TypeOK'
  BY <1>1 DEF TypeOK
<1>5. Linked'
  <2>1. ASSUME NEW v \in Workers, NEW b \in Approvals, cache'[v][b] # None
        PROVE  heap'[cache'[v][b]] # None /\ heap'[cache'[v][b]].id = b
    <3>1. CASE v = w /\ b = a
      BY <1>1, <3>1 DEF TypeOK
    <3>2. CASE ~(v = w /\ b = a)
      <4>1. cache'[v][b] = cache[v][b] /\ cache[v][b] \in Objects
        BY <2>1, <3>2 DEF TypeOK
      <4>2. QED BY <1>1, <1>3, <2>1, <3>2, <4>1 DEF TypeOK, Linked
    <3>3. QED BY <3>1, <3>2
  <2>2. \A b \in Approvals : db'[b] # None => db'[b].id = b
    BY <1>1 DEF Linked
  <2>3. \A p \in Objects : heap[p] # None => heap'[p] # None
    BY <1>1 DEF TypeOK
  <2>4. QED BY <2>1, <2>2, <2>3 DEF Linked
<1>6. Decided'
  <2>1. \A p \in Objects : heap'[p] = heap[p] \/ heap'[p] = rec
    BY <1>1 DEF TypeOK
  <2>2. Backed(rec)
    BY DEF Backed, Granted
  <2>3. \A p \in Objects : Backed(heap[p])'
    BY <2>1, <2>2 DEF Decided, Backed, DecidedOn
  <2>4. \A b \in Approvals : Backed(db[b])'
    BY <1>1, <2>2 DEF Decided, Backed, DecidedOn
  <2>5. \A r \in Requests : req[r].pc \in Locked => DecidedOn(heap'[req[r].obj].id)
    BY <1>1, <1>2 DEF Decided, Linked, TypeOK, Locked, Active, Holding, Entering
  <2>6. QED BY <2>3, <2>4, <2>5 DEF Decided, Backed, DecidedOn
<1>7. QED BY <1>4, <1>5, <1>6

\* A step of a thread.
LEMMA ThreadStepIInv ==
    ASSUME IInv, NEW w \in Workers, NEW a \in Approvals, NEW o \in Objects, ThreadStep(w, a, o)
    PROVE  IInv'
<1>1. ASSUME Create(w, a, o) PROVE IInv'
  <2> DEFINE rec == [id |-> a, status |-> "pending", by |-> None, code |-> None,
                     execCode |-> None, used |-> FALSE,
                     expires |-> now + DecisionWindow, window |-> None]
  <2>1. now + DecisionWindow \in Nat
    BY WindowAssumption DEF IInv, TypeOK
  <2>2. rec \in Record /\ rec.id = a /\ rec.status = "pending"
    BY <2>1 DEF Record, Status
  <2>3. created' \subseteq Approvals
    BY <1>1 DEF Create, IInv, TypeOK
  <2>4. /\ Fresh(o) /\ Save(o, rec) /\ cache' = [cache EXCEPT ![w][a] = o]
        /\ UNCHANGED <<loop, req, reading, now, decisions, runs, rejected>>
    BY <1>1 DEF Create
  <2> HIDE DEF rec
  <2>5. QED BY <2>2, <2>3, <2>4, WriteKeepsIInv
<1>2. ASSUME Look(w, a, o) PROVE IInv'
  <2>1. Finds(w, a, o) /\ Put(w, a, o, Found(w, a, o))
        /\ UNCHANGED <<loop, req, reading, now, created, decisions, runs, rejected>>
    BY <1>2 DEF Look, Get
  <2>2. Found(w, a, o) \in Record /\ Found(w, a, o).id = a /\ (cache[w][a] = o \/ Fresh(o))
    BY <2>1, FindsFacts DEF IInv
  <2>3. Backed(Found(w, a, o))
    BY <2>1, FoundBacked
  <2>4. /\ reading' \in [Workers -> [Approvals -> Record \cup {None}]]
        /\ req' \in [Requests -> Handler]
    BY <2>1 DEF IInv, TypeOK
  <2>5. QED BY <2>1, <2>2, <2>3, <2>4, GetKeepsIInv
<1>3. ASSUME InstallRow(w, a, o) PROVE IInv'
  <2>1. reading[w][a] \in Record /\ reading[w][a].id = a /\ Backed(reading[w][a])
    BY <1>3 DEF InstallRow, IInv, TypeOK, Linked, Decided
  <2>2. /\ reading' \in [Workers -> [Approvals -> Record \cup {None}]]
        /\ req' \in [Requests -> Handler]
        /\ \A v \in Workers, b \in Approvals : reading'[v][b] \in {reading[v][b], None}
    BY <1>3 DEF InstallRow, IInv, TypeOK
  <2>3. /\ Fresh(o) /\ Put(w, a, o, reading[w][a])
        /\ UNCHANGED <<loop, req, now, created, decisions, runs, rejected>>
    BY <1>3 DEF InstallRow
  <2>4. QED BY <2>1, <2>2, <2>3, GetKeepsIInv
<1>4. ASSUME ForceExpire(w, a, o) PROVE IInv'
  <2> DEFINE rec == [Found(w, a, o) EXCEPT !.expires = 0, !.status = "pending"]
  <2>1. /\ Finds(w, a, o) /\ cache' = [cache EXCEPT ![w][a] = o] /\ Save(o, rec)
        /\ UNCHANGED <<loop, req, reading, now, created, decisions, runs, rejected>>
    BY <1>4 DEF ForceExpire
  <2>2. Found(w, a, o) \in Record /\ Found(w, a, o).id = a /\ (cache[w][a] = o \/ Fresh(o))
    BY <2>1, FindsFacts DEF IInv
  <2>3. rec \in Record /\ rec.id = a /\ rec.status = "pending"
    BY <2>2 DEF Record, Status
  <2>4. created' \subseteq Approvals
    BY <2>1 DEF IInv, TypeOK
  <2> HIDE DEF rec
  <2>5. QED BY <2>1, <2>2, <2>3, <2>4, WriteKeepsIInv
<1>5. QED BY <1>1, <1>2, <1>3, <1>4 DEF ThreadStep

LEMMA EnvironmentIInv ==
    ASSUME IInv,
           \/ \E w \in Workers, a \in Approvals : ReadRow(w, a)
           \/ \E w \in Workers : Crash(w)
           \/ Tick
           \/ UNCHANGED vars
    PROVE  IInv'
<1> USE DEF IInv
<1>1. ASSUME NEW w \in Workers, NEW a \in Approvals, ReadRow(w, a) PROVE IInv'
  <2>1. TypeOK'
    BY <1>1 DEF ReadRow, TypeOK
  <2>2. Linked'
    BY <1>1 DEF ReadRow, TypeOK, Linked
  <2>3. Decided'
    <3>1. \A v \in Workers, b \in Approvals : Backed(reading'[v][b])
      BY <1>1 DEF ReadRow, TypeOK, Decided
    <3>2. QED BY <1>1, <3>1 DEF ReadRow, Decided, Backed, DecidedOn
  <2>4. QED BY <2>1, <2>2, <2>3
<1>2. ASSUME NEW w \in Workers, Crash(w) PROVE IInv'
  <2>1. Gone \in Handler /\ Gone.pc \notin Active /\ Gone.pc \notin Locked
    BY DEF Gone, Handle, Handler, Active, Waiting, Holding, Entering, Locked
  <2>2. \A r \in Requests : req'[r] = req[r] \/ req'[r] = Gone
    BY <1>2 DEF Crash
  <2>3. \A v \in Workers, b \in Approvals :
           reading'[v][b] \in {reading[v][b], None} /\ cache'[v][b] \in {cache[v][b], None}
    BY <1>2 DEF Crash, TypeOK
  <2>4. TypeOK'
    BY <1>2, <2>1 DEF Crash, TypeOK
  <2>5. Linked'
    BY <1>2, <2>1, <2>2, <2>3 DEF Crash, Linked
  <2>6. Decided'
    BY <1>2, <2>1, <2>2, <2>3 DEF Crash, Decided, Backed, DecidedOn
  <2>7. QED BY <2>4, <2>5, <2>6
<1>3. ASSUME Tick PROVE IInv'
  <2>1. TypeOK'
    BY <1>3 DEF Tick, TypeOK
  <2>2. QED BY <1>3, <2>1 DEF Tick, Linked, Decided, Backed, DecidedOn
<1>4. ASSUME UNCHANGED vars PROVE IInv'
  BY <1>4 DEF vars, TypeOK, Linked, Decided, Backed, DecidedOn
<1>5. QED BY <1>1, <1>2, <1>3, <1>4

LEMMA InitIInv == Init => IInv
<1> SUFFICES ASSUME Init PROVE IInv
  OBVIOUS
<1>1. TypeOK
  BY DEF Init, TypeOK, Handle, Handler
<1>2. Linked
  BY DEF Init, Linked, Handle, Active, Waiting, Holding, Entering
<1>3. Decided
  BY DEF Init, Decided, Backed, Handle, Locked, Entering
<1>4. QED BY <1>1, <1>2, <1>3 DEF IInv

LEMMA StepIInv == IInv /\ [Next]_vars => IInv'
BY HandlerStepIInv, ThreadStepIInv, EnvironmentIInv DEF Next

\* The inductive invariant holds whatever the environment does.
THEOREM Invariance == Spec => []IInv
BY InitIInv, StepIInv, PTL DEF Spec

\* Every variable keeps its type (approval_store.py, main.py /approve, /reject, /execute).
THEOREM TypeCorrect == Spec => []TypeOK
BY Invariance, PTL DEF IInv

\* However many processes run, and whatever crashes, stale listings and lost writes happen,
\* an approval is never executed, and no row says that it was, unless an /approve call
\* decided it.
THEOREM HumanDecisionHolds == Spec => []HumanDecision
<1>1. IInv => HumanDecision
  <2> SUFFICES ASSUME IInv PROVE HumanDecision
    OBVIOUS
  <2>1. \A m \in runs : \E d \in decisions : d.a = m.a
    BY DEF IInv, Decided, DecidedOn
  <2>2. ASSUME NEW a \in Approvals, db[a] # None, db[a].status \in Granted
        PROVE  \E d \in decisions : d.a = a
    BY <2>2 DEF IInv, Decided, Linked, Backed, DecidedOn
  <2>3. QED BY <2>1, <2>2 DEF HumanDecision, Granted
<1>2. QED BY <1>1, Invariance, PTL

-----------------------------------------------------------------------------
(* What a row says of executions.                                          *)

Started == {"executing", "executed", "execution_failed"}
RanOn(a) == \E m \in runs : m.a = a
Shown(rec) == rec # None /\ rec.status \in Started => RanOn(rec.id)

\* A record, wherever it is, tells of an execution only if there was one, and a handler that
\* runs an execution has taken the token.
Honest ==
    /\ \A o \in Objects : Shown(heap[o])
    /\ \A a \in Approvals : Shown(db[a])
    /\ \A w \in Workers, a \in Approvals : Shown(reading[w][a])
    /\ \A r \in Requests : req[r].pc \in Locked => RanOn(heap[req[r].obj].id)

\* A step that writes one record, which tells the truth.
LEMMA HonestKept ==
    ASSUME Honest, runs \subseteq runs', NEW rec, Shown(rec)',
           \A o \in Objects : heap'[o] \in {heap[o], rec},
           \A a \in Approvals : db'[a] \in {db[a], rec},
           \A w \in Workers, a \in Approvals : reading'[w][a] \in {reading[w][a], db[a], None},
           \A q \in Requests : req'[q].pc \in Locked => (RanOn(heap[req[q].obj].id))'
    PROVE  Honest'
<1>1. \A p : Shown(p) => Shown(p)'
  BY DEF Shown, RanOn
<1>2. \A o \in Objects : Shown(heap[o])'
  BY <1>1 DEF Honest, Shown
<1>3. \A a \in Approvals : Shown(db[a])'
  BY <1>1 DEF Honest, Shown
<1>4. \A w \in Workers, a \in Approvals : Shown(reading[w][a])'
  BY <1>1 DEF Honest, Shown
<1> QED BY <1>2, <1>3, <1>4 DEF Honest

\* A handler assigns to its record.
LEMMA AssignIsHonest ==
    ASSUME IInv, Honest, NEW r \in Requests, req[r].pc \in Active,
           NEW rec \in Record, rec.id = Rec(r).id, Save(req[r].obj, rec),
           UNCHANGED <<reading, runs>>,
           rec.status \in Started => RanOn(rec.id),
           NEW h \in Handler, req' = [req EXCEPT ![r] = h],
           h.pc \in Locked => h.obj = req[r].obj /\ RanOn(rec.id)
    PROVE  Honest'
<1>0. /\ TypeOK /\ Linked /\ req[r].obj \in Objects /\ heap[req[r].obj] # None
      /\ rec.id = heap[req[r].obj].id
  BY HandlerFacts DEF IInv, Linked, Rec
<1>1. /\ heap' = [heap EXCEPT ![req[r].obj] = rec]
      /\ \A a \in Approvals : db'[a] = db[a] \/ db'[a] = rec
  BY <1>0, SaveFacts
<1>2. Shown(rec)' /\ \A a : RanOn(a)' <=> RanOn(a)
  BY DEF Shown, RanOn
<1>3. ASSUME NEW q \in Requests, req'[q].pc \in Locked PROVE RanOn(heap'[req'[q].obj].id)
  <2>1. CASE q = r
    BY <1>0, <1>1, <1>3, <2>1 DEF TypeOK
  <2>2. CASE q # r
    <3>1. req'[q] = req[q]
      BY <1>0, <2>2 DEF TypeOK
    <3>2. req[q].pc \in Active /\ req[q].obj \in Objects /\ heap[req[q].obj] # None
      BY <1>0, <1>3, <3>1 DEF Linked, Active, Locked, Holding, Entering
    <3>3. heap'[req[q].obj].id = heap[req[q].obj].id
      BY <1>0, <3>2, SaveLinked
    <3> QED BY <1>3, <3>1, <3>3 DEF Honest
  <2> QED BY <2>1, <2>2
<1>4. \A o \in Objects : heap'[o] \in {heap[o], rec}
  BY <1>0, <1>1 DEF TypeOK
<1>5. \A q \in Requests : req'[q].pc \in Locked => (RanOn(heap[req[q].obj].id))'
  BY <1>2, <1>3
<1> QED BY <1>1, <1>2, <1>4, <1>5, HonestKept

\* get_approval, by a handler or a thread.
LEMMA GetIsHonest ==
    ASSUME IInv, Honest, NEW w \in Workers, NEW a \in Approvals, NEW o \in Objects,
           NEW rec \in Record, rec.id = a, Put(w, a, o, rec),
           cache[w][a] = o \/ Fresh(o), Shown(rec), UNCHANGED runs,
           \A v \in Workers, b \in Approvals : reading'[v][b] \in {reading[v][b], None},
           \A q \in Requests : req'[q] = req[q] \/ req'[q].pc \notin Locked
    PROVE  Honest'
<1>0. TypeOK /\ Linked
  BY DEF IInv
<1>1. /\ heap' = [heap EXCEPT ![o] = Checked(rec)]
      /\ \A b \in Approvals : db'[b] = db[b] \/ db'[b] = Checked(rec)
      /\ Checked(rec).status \in Granted => rec.status \in Granted /\ Checked(rec) = rec
  BY <1>0, PutFacts
<1>2. Started \subseteq Granted
  BY DEF Started, Granted
<1>a. PICK p : p = Checked(rec)
  OBVIOUS
<1>3. Shown(p)' /\ \A b : RanOn(b)' <=> RanOn(b)
  <2>1. rec # None
    BY NoRecordAssumption
  <2>2. Shown(p)
    BY <1>1, <1>2, <1>a, <2>1 DEF Shown
  <2> QED BY <2>2 DEF Shown, RanOn
<1>4. /\ \A q \in Objects : heap'[q] \in {heap[q], p}
      /\ \A b \in Approvals : db'[b] \in {db[b], p}
  BY <1>0, <1>1, <1>a DEF TypeOK
<1>5. ASSUME NEW q \in Requests, req'[q].pc \in Locked PROVE (RanOn(heap[req[q].obj].id))'
  <2>1. req'[q] = req[q] /\ req[q].pc \in Active
    BY <1>5 DEF Active, Locked, Holding, Entering
  <2>2. heap'[req[q].obj].id = heap[req[q].obj].id
    BY <1>0, <2>1, PutLinked
  <2> QED BY <1>3, <1>5, <2>1, <2>2 DEF Honest
<1>6. \A v \in Workers, b \in Approvals : reading'[v][b] \in {reading[v][b], db[b], None}
  OBVIOUS
<1> QED BY <1>3, <1>4, <1>5, <1>6, HonestKept

\* A record that waits for a decision tells of no execution.
LEMMA WriteIsHonest ==
    ASSUME IInv, Honest, NEW w \in Workers, NEW a \in Approvals, NEW o \in Objects,
           cache[w][a] = o \/ Fresh(o),
           NEW rec \in Record, rec.id = a, rec.status = "pending", Save(o, rec),
           UNCHANGED <<req, reading, runs>>
    PROVE  Honest'
<1>0. TypeOK /\ Linked
  BY DEF IInv
<1>1. /\ heap' = [heap EXCEPT ![o] = rec]
      /\ \A b \in Approvals : db'[b] = db[b] \/ db'[b] = rec
  BY <1>0, SaveFacts
<1>2. Shown(rec)' /\ \A b : RanOn(b)' <=> RanOn(b)
  BY DEF Shown, RanOn, Started
<1>3. \A p \in Objects : heap'[p] \in {heap[p], rec}
  BY <1>0, <1>1 DEF TypeOK
<1>4. ASSUME NEW q \in Requests, req[q].pc \in Locked PROVE (RanOn(heap[req[q].obj].id))'
  <2>1. req[q].pc \in Active /\ req[q].obj \in Objects
    BY <1>0, <1>4 DEF Active, Locked, Holding, Entering, Linked
  <2>2. CASE req[q].obj = o
    <3>1. heap[o].id = a
      BY <1>0, <2>1, <2>2, NoneAssumption DEF Fresh, Linked
    <3>2. heap'[o].id = a
      BY <1>0, <1>1 DEF TypeOK
    <3> QED BY <1>2, <1>4, <2>2, <3>1, <3>2 DEF Honest
  <2>3. CASE req[q].obj # o
    <3>1. heap'[req[q].obj] = heap[req[q].obj]
      BY <1>0, <1>1, <2>1, <2>3 DEF TypeOK
    <3> QED BY <1>2, <1>4, <3>1 DEF Honest
  <2> QED BY <2>2, <2>3
<1>5. \A q \in Requests : req'[q].pc \in Locked => (RanOn(heap[req[q].obj].id))'
  BY <1>4
<1> QED BY <1>1, <1>2, <1>3, <1>5, HonestKept

\* A step that leaves memory and the table alone.
LEMMA QuietIsHonest ==
    ASSUME Honest, UNCHANGED <<db, heap, runs>>,
           \A w \in Workers, a \in Approvals : reading'[w][a] \in {reading[w][a], db[a], None},
           \A q \in Requests : req'[q] = req[q] \/ req'[q].pc \notin Locked
    PROVE  Honest'
<1>1. Shown(None)' /\ \A b : RanOn(b)' <=> RanOn(b)
  BY DEF Shown, RanOn
<1>2. \A q \in Requests : req'[q].pc \in Locked => (RanOn(heap[req[q].obj].id))'
  BY <1>1 DEF Honest
<1>3. /\ \A o \in Objects : heap'[o] \in {heap[o], None}
      /\ \A a \in Approvals : db'[a] \in {db[a], None}
  OBVIOUS
<1> QED BY <1>1, <1>2, <1>3, HonestKept

LEMMA HandlerStepIsHonest == ASSUME IInv, Honest, NEW r \in Requests, HandlerStep(r) PROVE Honest'
<1>0. /\ TypeOK /\ Linked /\ Gone \in Handler /\ Gone.pc \notin Locked
      /\ \A v \in Workers, b \in Approvals : reading[v][b] \in {reading[v][b], db[b], None}
  BY DEF IInv, Gone, Handle, Handler, Locked, Entering
<1>00. req[r].pc \in Active => Rec(r) \in Record /\ Rec(r).id \in Approvals /\ Shown(Rec(r))
  BY <1>0, HandlerFacts DEF Honest
<1>1. ASSUME NEW w \in Workers, NEW a \in Approvals, NEW x \in Actors, NEW o \in Objects,
             NEW pc \in Waiting, Begin(r, pc, w, a, x, o)
      PROVE  Honest'
  <2>1. Finds(w, a, o) /\ Put(w, a, o, Found(w, a, o)) /\ UNCHANGED <<reading, runs>>
    BY <1>1 DEF Begin, Get
  <2>2. /\ Found(w, a, o) \in Record /\ Found(w, a, o).id = a /\ (cache[w][a] = o \/ Fresh(o))
        /\ Shown(Found(w, a, o))
    BY <1>0, <2>1, FindsFacts DEF Honest
  <2>3. Handle(pc, w, x, o, None).pc \notin Locked
    BY DEF Handle, Waiting, Locked, Entering
  <2>4. \A q \in Requests : req'[q] = req[q] \/ req'[q].pc \notin Locked
    <3>1. req' = [req EXCEPT ![r] = Gone] \/ req' = [req EXCEPT ![r] = Handle(pc, w, x, o, None)]
      BY <1>1 DEF Begin
    <3> QED BY <1>0, <2>3, <3>1 DEF TypeOK
  <2> QED BY <2>1, <2>2, <2>4, GetIsHonest
<1>2. CASE Refuse(r)
  <2>1. \A q \in Requests : req'[q] = req[q] \/ req'[q].pc \notin Locked
    BY <1>0, <1>2 DEF Refuse, Finish, TypeOK
  <2> QED BY <1>0, <1>2, <2>1, QuietIsHonest DEF Refuse
<1>3. ASSUME NEW c \in Codes \cup {None}, ApproveMark(r, c) PROVE Honest'
  <2> DEFINE rec == [Rec(r) EXCEPT !.status = "approved"]
             h == [req[r] EXCEPT !.pc = "approve_seal", !.code = c]
  <2>1. req[r].pc \in Active
    BY <1>3 DEF ApproveMark, Runs, Active, Waiting
  <2>2. rec \in Record /\ rec.id = Rec(r).id /\ rec.status \notin Started
    BY <1>00, <2>1 DEF Record, Status, Started
  <2>3. h \in Handler /\ h.pc \notin Locked /\ req' = [req EXCEPT ![r] = h]
    BY <1>0, <1>3 DEF ApproveMark, TypeOK, Handler, Holding, Entering, Locked
  <2>4. Save(req[r].obj, rec) /\ UNCHANGED <<reading, runs>>
    BY <1>3 DEF ApproveMark
  <2> HIDE DEF rec, h
  <2> QED BY <2>1, <2>2, <2>3, <2>4, AssignIsHonest
<1>4. CASE ApproveSeal(r)
  <2> DEFINE rec == [Rec(r) EXCEPT !.by = req[r].x, !.code = req[r].code,
                                   !.window = now + ExecutionWindow]
  <2>1. req[r].pc \in Active
    BY <1>4 DEF ApproveSeal, Runs, Active, Holding, Entering
  <2>2. rec \in Record /\ rec.id = Rec(r).id /\ rec.status = Rec(r).status
    <3>1. now + ExecutionWindow \in Nat
      BY <1>0, WindowAssumption DEF TypeOK
    <3> QED BY <1>0, <1>00, <2>1, <3>1, HandlerFacts DEF Record
  <2>3. rec.status \in Started => RanOn(rec.id)
    BY <1>00, <2>1, <2>2, NoRecordAssumption DEF Shown
  <2>4. Save(req[r].obj, rec) /\ UNCHANGED <<reading, runs>> /\ req' = [req EXCEPT ![r] = Gone]
    BY <1>4 DEF ApproveSeal, Finish
  <2> HIDE DEF rec
  <2> QED BY <1>0, <2>1, <2>2, <2>3, <2>4, AssignIsHonest
<1>5. CASE RejectFinish(r) \/ ExecuteLapse(r)
  <2>1. PICK status \in {"rejected", "expired"} : Save(req[r].obj, [Rec(r) EXCEPT !.status = status])
    BY <1>5 DEF RejectFinish, ExecuteLapse
  <2> DEFINE rec == [Rec(r) EXCEPT !.status = status]
  <2>2. req[r].pc \in Active
    BY <1>5 DEF RejectFinish, ExecuteLapse, MayExecute, Runs, Active, Waiting
  <2>3. rec \in Record /\ rec.id = Rec(r).id /\ rec.status \notin Started
    BY <1>00, <2>2 DEF Record, Status, Started
  <2>4. Save(req[r].obj, rec) /\ UNCHANGED <<reading, runs>> /\ req' = [req EXCEPT ![r] = Gone]
    BY <1>5, <2>1 DEF RejectFinish, ExecuteLapse, Finish
  <2> HIDE DEF rec
  <2> QED BY <1>0, <2>2, <2>3, <2>4, AssignIsHonest
<1>6. ASSUME NEW c \in Codes, ExecuteLock(r, c) PROVE Honest'
  <2>1. PICK a : a = Rec(r).id
    OBVIOUS
  <2>2. /\ req[r].pc \in Active /\ db[a] # None
        /\ db' = [db EXCEPT ![a].status = "executing", ![a].used = TRUE, ![a].execCode = c]
        /\ runs' = runs \cup {[r |-> r, a |-> a, x |-> req[r].x, code |-> c]}
        /\ req' = [req EXCEPT ![r].pc = "execute_mark", ![r].code = c]
        /\ UNCHANGED <<heap, reading>>
    BY <1>6, <2>1 DEF ExecuteLock, MayExecute, Runs, Active, Waiting
  <2>3. a \in Approvals /\ db[a] \in Record /\ db[a].id = a
    BY <1>0, <1>00, <2>1, <2>2 DEF TypeOK, Linked
  <2>4. PICK rec : rec = [db[a] EXCEPT !.status = "executing", !.used = TRUE, !.execCode = c]
    OBVIOUS
  <2>5. rec.id = a
    BY <2>3, <2>4 DEF Record
  <2>6. db' = [db EXCEPT ![a] = rec]
    BY <2>2, <2>3, <2>4 DEF Record
  <2>7. RanOn(a)' /\ \A b : RanOn(b) => RanOn(b)'
    <3>1. PICK m : m = [r |-> r, a |-> a, x |-> req[r].x, code |-> c]
      OBVIOUS
    <3>2. m.a = a /\ m \in runs'
      BY <2>2, <3>1
    <3> QED BY <2>2, <3>2 DEF RanOn
  <2>8. ASSUME NEW q \in Requests, req'[q].pc \in Locked PROVE (RanOn(heap[req[q].obj].id))'
    <3>1. CASE q = r
      <4>1. req'[r].obj = req[r].obj
        BY <1>0, <2>2 DEF TypeOK, Handler
      <4> QED BY <2>1, <2>2, <2>7, <3>1, <4>1 DEF Rec
    <3>2. CASE q # r
      <4>1. req'[q] = req[q]
        BY <1>0, <2>2, <3>2 DEF TypeOK
      <4> QED BY <2>2, <2>7, <2>8, <4>1 DEF Honest
    <3> QED BY <3>1, <3>2
  <2>9. Shown(rec)'
    BY <2>5, <2>7 DEF Shown
  <2>10. \A b \in Approvals : db'[b] \in {db[b], rec}
    BY <1>0, <2>6 DEF TypeOK
  <2> QED BY <1>0, <2>2, <2>8, <2>9, <2>10, HonestKept
<1>7. CASE Enters(r)
  <2>1. PICK rec \in Record, h \in Handler :
          /\ req[r].pc \in Entering
          /\ Save(req[r].obj, rec) /\ req' = [req EXCEPT ![r] = h]
          /\ UNCHANGED <<reading, runs>>
          /\ h.obj = req[r].obj /\ rec.id = Rec(r).id
    BY <1>0, <1>7, EntryFacts
  <2>2. req[r].pc \in Active /\ req[r].pc \in Locked
    BY <2>1 DEF Active, Holding, Locked
  <2>3. RanOn(rec.id)
    BY <2>1, <2>2 DEF Honest, Rec
  <2> QED BY <2>1, <2>2, <2>3, AssignIsHonest
<1>8. ASSUME NEW outcome \in {"executed", "execution_failed"}, ExecuteEnd(r, outcome) PROVE Honest'
  <2> DEFINE rec == [Rec(r) EXCEPT !.status = outcome]
  <2>1. req[r].pc \in Active /\ req[r].pc = "execute_run"
    BY <1>8 DEF ExecuteEnd, Runs, Active, Holding, Entering
  <2>2. rec \in Record /\ rec.id = Rec(r).id
    BY <1>00, <2>1 DEF Record, Status
  <2>3. RanOn(rec.id)
    BY <2>1, <2>2 DEF Honest, Locked, Entering, Rec
  <2>4. Save(req[r].obj, rec) /\ UNCHANGED <<reading, runs>> /\ req' = [req EXCEPT ![r] = Gone]
    BY <1>8 DEF ExecuteEnd, Finish
  <2> HIDE DEF rec
  <2> QED BY <1>0, <2>1, <2>2, <2>3, <2>4, AssignIsHonest
<1> QED BY <1>1, <1>2, <1>3, <1>4, <1>5, <1>6, <1>7, <1>8 DEF HandlerStep, Enters

LEMMA ThreadStepIsHonest ==
    ASSUME IInv, Honest, NEW w \in Workers, NEW a \in Approvals, NEW o \in Objects, ThreadStep(w, a, o)
    PROVE  Honest'
<1>0. TypeOK /\ Linked
  BY DEF IInv
<1>1. CASE Create(w, a, o)
  <2> DEFINE rec == [id |-> a, status |-> "pending", by |-> None, code |-> None,
                     execCode |-> None, used |-> FALSE,
                     expires |-> now + DecisionWindow, window |-> None]
  <2>1. now + DecisionWindow \in Nat
    BY <1>0, WindowAssumption DEF TypeOK
  <2>2. rec \in Record /\ rec.id = a /\ rec.status = "pending"
    BY <2>1 DEF Record, Status
  <2>3. Fresh(o) /\ Save(o, rec) /\ UNCHANGED <<req, reading, runs>>
    BY <1>1 DEF Create
  <2> HIDE DEF rec
  <2> QED BY <2>2, <2>3, WriteIsHonest
<1>2. CASE Look(w, a, o)
  <2>1. Finds(w, a, o) /\ Put(w, a, o, Found(w, a, o)) /\ UNCHANGED <<req, reading, runs>>
    BY <1>2 DEF Look, Get
  <2>2. /\ Found(w, a, o) \in Record /\ Found(w, a, o).id = a /\ (cache[w][a] = o \/ Fresh(o))
        /\ Shown(Found(w, a, o))
    BY <1>0, <2>1, FindsFacts DEF Honest
  <2> QED BY <2>1, <2>2, GetIsHonest
<1>3. CASE InstallRow(w, a, o)
  <2>1. reading[w][a] \in Record /\ reading[w][a].id = a /\ Shown(reading[w][a])
    BY <1>0, <1>3 DEF InstallRow, TypeOK, Linked, Honest
  <2>2. \A v \in Workers, b \in Approvals : reading'[v][b] \in {reading[v][b], None}
    BY <1>0, <1>3 DEF InstallRow, TypeOK
  <2>3. Fresh(o) /\ Put(w, a, o, reading[w][a]) /\ UNCHANGED <<req, runs>>
    BY <1>3 DEF InstallRow
  <2> QED BY <2>1, <2>2, <2>3, GetIsHonest
<1>4. CASE ForceExpire(w, a, o)
  <2> DEFINE rec == [Found(w, a, o) EXCEPT !.expires = 0, !.status = "pending"]
  <2>1. Finds(w, a, o) /\ Save(o, rec) /\ UNCHANGED <<req, reading, runs>>
    BY <1>4 DEF ForceExpire
  <2>2. Found(w, a, o) \in Record /\ Found(w, a, o).id = a /\ (cache[w][a] = o \/ Fresh(o))
    BY <1>0, <2>1, FindsFacts
  <2>3. rec \in Record /\ rec.id = a /\ rec.status = "pending"
    BY <2>2 DEF Record, Status
  <2> HIDE DEF rec
  <2> QED BY <2>1, <2>2, <2>3, WriteIsHonest
<1> QED BY <1>1, <1>2, <1>3, <1>4 DEF ThreadStep

LEMMA StepIsHonest == IInv /\ Honest /\ [Next]_vars => Honest'
<1> SUFFICES ASSUME IInv, Honest, [Next]_vars PROVE Honest'
  OBVIOUS
<1>0. TypeOK
  BY DEF IInv
<1>1. ASSUME NEW w \in Workers, NEW a \in Approvals, ReadRow(w, a) PROVE Honest'
  <2>1. \A v \in Workers, b \in Approvals : reading'[v][b] \in {reading[v][b], db[b], None}
    BY <1>0, <1>1 DEF ReadRow, TypeOK
  <2> QED BY <1>1, <2>1, QuietIsHonest DEF ReadRow
<1>2. ASSUME NEW w \in Workers, Crash(w) PROVE Honest'
  <2>1. \A v \in Workers, b \in Approvals : reading'[v][b] \in {reading[v][b], db[b], None}
    BY <1>0, <1>2 DEF Crash, TypeOK
  <2>2. \A q \in Requests : req'[q] = req[q] \/ req'[q].pc \notin Locked
    BY <1>2 DEF Crash, Gone, Handle, Locked, Entering
  <2> QED BY <1>2, <2>1, <2>2, QuietIsHonest DEF Crash
<1>3. CASE Tick \/ UNCHANGED vars
  BY <1>3, QuietIsHonest DEF Tick, vars
<1> QED BY <1>1, <1>2, <1>3, HandlerStepIsHonest, ThreadStepIsHonest DEF Next

\* Whatever runs, crashes, lists or writes late, no row tells of an execution that took no
\* token.
THEOREM HonestStatusHolds == Spec => []HonestStatus
<1>1. Init => Honest
  BY NoneAssumption DEF Init, Honest, Shown, Handle, Locked, Entering
<1>2. IInv /\ Honest => HonestStatus
  BY DEF IInv, Linked, Honest, Shown, RanOn, Started, HonestStatus
<1> QED BY <1>1, <1>2, StepIsHonest, Invariance, PTL DEF Spec

-----------------------------------------------------------------------------
(* Single use, for the deployment the Dockerfile starts: one process.  It   *)
(* may crash and lose writes; nobody lists approvals or calls the test      *)
(* route, since with a listing the property does not hold.                  *)

Deployment ==
    /\ \A v, w \in Workers : v = w
    /\ "listing" \notin Env /\ "testRoute" \notin Env

Spent(a) == db[a] # None /\ db[a].used
Taking(a) == \E r \in Requests : req[r].pc \in Entering /\ Rec(r).id = a
Deciding == {"approve_body", "approve_seal"}

\* A record that no /execute takes again: its token is spent or its state is final.
Sunk(rec) == rec.used \/ rec.status \notin {"pending", "approved"}

\* A handler works on the object of the dictionary, and holds the loop exactly when it is
\* past its wait; the object of a spent approval knows it, unless its execution has yet to
\* write it.  The assignments of /execute may leave the row of an approval that ran with its
\* token unspent, so single use rests on the states: such a record is no longer open.
SInv ==
    /\ \A w \in Workers, a \in Approvals : reading[w][a] = None
    /\ \A r \in Requests : req[r].pc \in Active => cache[req[r].w][Rec(r).id] = req[r].obj
    /\ \A r \in Requests : req[r].pc \in Holding => loop[req[r].w] = r
    /\ \A w \in Workers : loop[w] # None => req[loop[w]].pc \in Holding
    /\ \A w \in Workers, a \in Approvals : cache[w][a] # None => a \in created
    /\ \A a \in Approvals : db[a] # None => a \in created
    /\ \A r \in Requests : req[r].pc \in Entering => Rec(r).status = Stage(req[r].pc)
    /\ \A w \in Workers, a \in Approvals :
         Spent(a) /\ cache[w][a] # None => heap[cache[w][a]].used \/ Taking(a)
    /\ \A a \in Approvals : RanOn(a) => db[a] # None /\ Sunk(db[a])
    /\ \A w \in Workers, a \in Approvals :
         RanOn(a) /\ cache[w][a] # None => Sunk(heap[cache[w][a]]) \/ Taking(a)
    /\ \A r \in Requests :
         req[r].pc \in Deciding /\ RanOn(Rec(r).id) => Rec(r).used \/ Taking(Rec(r).id)
    /\ SingleUse

TokenKept ==
    \A a \in Approvals :
        Spent(a) /\ ~Spent(a)'
            => \E r \in Requests : req[r].pc \in Entering /\ Rec(r).id = a /\ req'[r] # req[r]

\* While a handler runs no other one is taking a token.
LEMMA NobodyTakes ==
    ASSUME Deployment, IInv, SInv, NEW r \in Requests, req[r].pc \in Active,
           loop[req[r].w] \in {None, r}, NEW q \in Requests, req[q].pc \in Entering
    PROVE  q = r
<1>1. /\ req[r].w \in Workers /\ req[q].w \in Workers /\ req[q].pc \in Holding
  BY HandlerFacts DEF IInv, Active, Holding
<1>2. loop[req[q].w] = q /\ req[q].w = req[r].w
  BY <1>1 DEF SInv, Deployment
<1> QED BY <1>2, NoneAssumption

\* The record a running handler writes keeps the token of a spent approval, and is not open
\* again once the approval ran.
LEMMA WriterKnows ==
    ASSUME Deployment, IInv, SInv, NEW r \in Requests, req[r].pc \in Active,
           req[r].pc \notin Entering, loop[req[r].w] \in {None, r}
    PROVE  /\ ~Taking(Rec(r).id)
           /\ Spent(Rec(r).id) => Rec(r).used
           /\ RanOn(Rec(r).id) => Sunk(Rec(r))
           /\ RanOn(Rec(r).id) /\ req[r].pc \in Deciding => Rec(r).used
<1>1. /\ cache[req[r].w][Rec(r).id] = req[r].obj /\ req[r].w \in Workers
      /\ req[r].obj \in Objects /\ Rec(r).id \in Approvals /\ Rec(r) = heap[req[r].obj]
  BY HandlerFacts DEF IInv, SInv
<1>2. ~Taking(Rec(r).id)
  BY NobodyTakes DEF Taking
<1>3. cache[req[r].w][Rec(r).id] # None
  BY <1>1, NoneAssumption
<1>4. \A w \in Workers, a \in Approvals :
         cache[w][a] # None =>
            /\ Spent(a) => heap[cache[w][a]].used \/ Taking(a)
            /\ RanOn(a) => Sunk(heap[cache[w][a]]) \/ Taking(a)
  BY DEF SInv
<1>5. req[r].pc \in Deciding /\ RanOn(Rec(r).id) => Rec(r).used \/ Taking(Rec(r).id)
  BY DEF SInv
<1>6. QED BY <1>1, <1>2, <1>3, <1>4, <1>5

\* A handler that assigns to its record, without touching the token unless it has taken it.
LEMMA AssignKeepsSInv ==
    ASSUME Deployment, IInv, SInv, NEW r \in Requests, req[r].pc \in Active,
           loop[req[r].w] \in {None, r},
           NEW rec \in Record, rec.id = Rec(r).id, Save(req[r].obj, rec),
           req[r].pc \notin Entering => rec.used = Rec(r).used,
           Rec(r).used => rec.used,
           req[r].pc \in Entering => rec.status = "executing",
           rec.status \in {"pending", "approved"} => req[r].pc \in Deciding,
           UNCHANGED <<cache, reading, now, created, runs>>,
           NEW h \in Handler, req' = [req EXCEPT ![r] = h],
           h.pc \in Active => h.w = req[r].w /\ h.x = req[r].x /\ h.obj = req[r].obj,
           h.pc \in Deciding => req[r].pc \in Deciding,
           h.pc # req[r].pc,
           h.pc \in Entering => req[r].pc \in Entering /\ h.pc # "execute_mark",
           req[r].pc \in Entering => h.pc \in Entering \/ rec.used,
           loop' = [loop EXCEPT ![req[r].w] = IF h.pc \in Holding THEN r ELSE None]
    PROVE  SInv' /\ TokenKept
<1> DEFINE o == req[r].obj
           w0 == req[r].w
           a0 == Rec(r).id
<1>0. TypeOK /\ Linked
  BY DEF IInv
<1>1. /\ o \in Objects /\ w0 \in Workers /\ a0 \in Approvals /\ cache[w0][a0] = o
      /\ heap[o] = Rec(r) /\ heap[o] # None
  BY <1>0, HandlerFacts DEF SInv, Linked
<1>2. /\ heap' = [heap EXCEPT ![o] = rec]
      /\ \A a \in Approvals : db'[a] = db[a] \/ (a = a0 /\ db'[a] = rec)
      /\ rec # None
  BY <1>0, <1>1, SaveFacts, NoRecordAssumption
<1>3. \A v \in Workers : v = w0
  BY <1>1 DEF Deployment
<1>4. /\ req[r].pc \notin Entering /\ Spent(a0) => rec.used
      /\ RanOn(a0) => Sunk(rec)
  <2>1. CASE req[r].pc \in Entering
    BY <2>1 DEF Sunk
  <2>2. CASE req[r].pc \notin Entering
    <3>1. RanOn(a0) /\ req[r].pc \in Deciding => rec.used
      BY <2>2, WriterKnows
    <3>2. Spent(a0) => rec.used
      BY <2>2, WriterKnows
    <3> QED BY <3>1, <3>2 DEF Sunk
  <2> QED BY <2>1, <2>2
<1>17. req'[r] = h /\ (\A q \in Requests : q # r => req'[q] = req[q]) /\ h # req[r]
  BY <1>0 DEF TypeOK
<1>5. TokenKept
  <2>1. ASSUME NEW a \in Approvals, Spent(a), ~Spent(a)'
        PROVE  req[r].pc \in Entering /\ Rec(r).id = a
    BY <1>2, <1>4, <2>1 DEF Spent
  <2> QED BY <1>17, <2>1 DEF TokenKept
<1>6. \A q \in Requests : req'[q].pc \in Holding => q = r
  <2>1. ASSUME NEW q \in Requests, q # r, req[q].pc \in Holding PROVE FALSE
    BY <1>0, <1>3, <2>1, HandlerFacts, NoneAssumption DEF SInv, Active
  <2>2. QED BY <1>17, <2>1
<1>7. \A b : Taking(b) => b = a0
  BY NobodyTakes DEF Taking
<1>18. Rec(r)' = rec \/ h.pc \notin Active
  BY <1>0, <1>1, <1>2, <1>17 DEF TypeOK, Rec
<1>19. Taking(a0) => rec.used \/ \E q \in Requests : req'[q].pc \in Entering /\ Rec(q)'.id = a0
  <2>1. Taking(a0) => req[r].pc \in Entering
    BY NobodyTakes DEF Taking
  <2>2. h.pc \in Entering => req'[r].pc \in Entering /\ Rec(r)'.id = a0
    BY <1>17, <1>18 DEF Active, Holding
  <2> QED BY <2>1, <2>2
<1>8. \A p \in Objects : heap[p] # None => heap'[p].id = heap[p].id
  BY <1>0, <1>1, <1>2, HandlerFacts DEF TypeOK
<1>9. \A q \in Requests : req'[q].pc \in Active => cache'[req'[q].w][heap'[req'[q].obj].id] = req'[q].obj
  <2>1. \A q \in Requests : req'[q].pc \in Active => req[q].pc \in Active /\ req'[q].w = req[q].w
                                                     /\ req'[q].obj = req[q].obj
    BY <1>17
  <2>2. \A q \in Requests : req[q].pc \in Active =>
           /\ req[q].obj \in Objects /\ heap[req[q].obj] # None
           /\ cache[req[q].w][heap[req[q].obj].id] = req[q].obj
    BY <1>0 DEF SInv, Rec, Linked
  <2>3. ASSUME NEW q \in Requests, req'[q].pc \in Active
        PROVE  cache'[req'[q].w][heap'[req'[q].obj].id] = req'[q].obj
    <3>1. /\ req'[q].w = req[q].w /\ req'[q].obj = req[q].obj /\ req[q].obj \in Objects
          /\ heap[req[q].obj] # None /\ cache[req[q].w][heap[req[q].obj].id] = req[q].obj
      BY <2>1, <2>2, <2>3
    <3>2. heap'[req[q].obj].id = heap[req[q].obj].id
      BY <1>8, <3>1
    <3>3. QED BY <3>1, <3>2
  <2>4. QED BY <2>3
<1>10. \A q \in Requests : req'[q].pc \in Holding => loop'[req'[q].w] = q
  BY <1>0, <1>1, <1>6, <1>17 DEF TypeOK, Active
<1>11. \A a \in Approvals : db'[a] # None => a \in created
  BY <1>1, <1>2, NoneAssumption DEF SInv
<1>16. \A v \in Workers : loop'[v] # None => req'[loop'[v]].pc \in Holding
  BY <1>0, <1>1, <1>3, <1>17 DEF TypeOK
<1>12. ASSUME NEW v \in Workers, NEW a \in Approvals, cache[v][a] # None
       PROVE  /\ Spent(a)' => heap'[cache[v][a]].used \/ Taking(a)'
              /\ RanOn(a) => Sunk(heap'[cache[v][a]])
  <2>1. cache[v][a] \in Objects /\ heap[cache[v][a]].id = a
    BY <1>0, <1>12 DEF TypeOK, Linked
  <2>2. CASE a = a0
    <3>1. v = w0 /\ heap'[o] = rec /\ cache[v][a] = o
      BY <1>0, <1>1, <1>2, <1>3, <2>2 DEF TypeOK
    <3>2. Spent(a)' => rec.used \/ Taking(a)'
      <4>1. CASE req[r].pc \in Entering
        BY <1>19, <2>2, <4>1 DEF Taking
      <4>2. CASE req[r].pc \notin Entering
        BY <1>2, <1>4, <2>2, <4>2 DEF Spent
      <4> QED BY <4>1, <4>2
    <3>3. QED BY <1>4, <2>2, <3>1, <3>2
  <2>3. CASE a # a0
    <3>1. cache[v][a] # o /\ db'[a] = db[a]
      BY <1>1, <1>2, <1>12, <2>1, <2>3
    <3>2. heap'[cache[v][a]] = heap[cache[v][a]]
      BY <1>0, <1>2, <2>1, <3>1 DEF TypeOK
    <3>3. ~Taking(a)
      BY <1>7, <2>3
    <3>4. QED BY <1>12, <3>1, <3>2, <3>3 DEF SInv, Spent
  <2>4. QED BY <2>2, <2>3
<1>13. ASSUME NEW a \in Approvals, RanOn(a) PROVE db'[a] # None /\ Sunk(db'[a])
  BY <1>2, <1>4, <1>13 DEF SInv
<1>20. ASSUME NEW q \in Requests, req'[q].pc \in Deciding, RanOn(Rec(q)'.id)
       PROVE  (Rec(q).used \/ Taking(Rec(q).id))'
  <2>1. CASE q = r
    <3>1. req[r].pc \in Deciding /\ req[r].pc \notin Entering /\ Rec(r)' = rec
      BY <1>17, <1>18, <1>20, <2>1 DEF Deciding, Entering, Active, Waiting, Holding
    <3>2. Rec(r).used
      BY <1>20, <2>1, <3>1, WriterKnows
    <3> QED BY <2>1, <3>1, <3>2
  <2>2. CASE q # r
    <3>1. /\ req'[q] = req[q] /\ req[q].pc \in Active /\ req[q].obj \in Objects
          /\ Rec(q) = heap[req[q].obj] /\ Rec(q)' = heap'[req[q].obj]
      BY <1>0, <1>17, <1>20, <2>2, HandlerFacts
         DEF Deciding, Active, Waiting, Holding, Rec
    <3>2. Rec(q)'.id = Rec(q).id
      BY <1>0, <1>8, <3>1 DEF Linked
    <3>3. Rec(q).used \/ Taking(Rec(q).id)
      BY <1>20, <3>1, <3>2 DEF SInv
    <3>4. CASE req[q].obj = o
      <4>1. Rec(q) = Rec(r) /\ Rec(q)' = rec
        BY <1>0, <1>1, <1>2, <3>1, <3>4 DEF TypeOK
      <4>2. rec.used \/ \E p \in Requests : req'[p].pc \in Entering /\ Rec(p)'.id = Rec(q)'.id
        BY <1>19, <3>2, <3>3, <4>1
      <4> QED BY <4>1, <4>2 DEF Taking
    <3>5. CASE req[q].obj # o
      <4>1. Rec(q)' = Rec(q) /\ Rec(q).id # a0
        <5>1. Rec(q)' = Rec(q)
          BY <1>0, <1>2, <3>1, <3>5 DEF TypeOK
        <5>2. cache[req[q].w][Rec(q).id] = req[q].obj /\ req[q].w = w0
          BY <1>0, <1>3, <3>1, HandlerFacts DEF SInv
        <5> QED BY <1>1, <3>5, <5>1, <5>2
      <4> QED BY <1>7, <3>3, <4>1
    <3> QED BY <3>4, <3>5
  <2> QED BY <2>1, <2>2
<1>21. \A q \in Requests : req'[q].pc \in Entering => Rec(q)'.status = Stage(req'[q].pc)
  <2>1. ASSUME NEW q \in Requests, req'[q].pc \in Entering
        PROVE  Rec(q)'.status = Stage(req'[q].pc)
    <3>1. q = r
      BY <1>6, <2>1 DEF Holding
    <3>2. Rec(r)' = rec /\ h.pc # "execute_mark" /\ rec.status = "executing"
      BY <1>17, <1>18, <2>1, <3>1 DEF Active, Holding
    <3> QED BY <1>17, <3>1, <3>2 DEF Stage
  <2> QED BY <2>1
<1>14. SingleUse'
  BY DEF SInv, SingleUse
<1>22. \A a : RanOn(a)' <=> RanOn(a)
  BY DEF RanOn
<1>15. QED
  <2>1. \A q \in Requests : req'[q].pc \in Active => cache'[req'[q].w][Rec(q)'.id] = req'[q].obj
    BY <1>9 DEF Rec
  <2>2. /\ \A v \in Workers, a \in Approvals : reading'[v][a] = None
        /\ \A v \in Workers, a \in Approvals : cache'[v][a] # None => a \in created'
    BY DEF SInv
  <2>3. \A v \in Workers, a \in Approvals :
           Spent(a)' /\ cache'[v][a] # None => heap'[cache'[v][a]].used \/ Taking(a)'
    BY <1>12
  <2>4. \A v \in Workers, a \in Approvals :
           RanOn(a)' /\ cache'[v][a] # None => Sunk(heap'[cache'[v][a]]) \/ Taking(a)'
    BY <1>12, <1>22
  <2>5. \A a \in Approvals : RanOn(a)' => db'[a] # None /\ Sunk(db'[a])
    BY <1>13, <1>22
  <2>6. \A q \in Requests :
           (req[q].pc \in Deciding /\ RanOn(Rec(q).id) => Rec(q).used \/ Taking(Rec(q).id))'
    BY <1>20, <1>22
  <2>7. QED
    BY <1>5, <1>10, <1>11, <1>14, <1>16, <1>21, <2>1, <2>2, <2>3, <2>4, <2>5, <2>6
       DEF SInv, Sunk

\* get_approval: what it finds knows of a spent token, or is not written back.
LEMMA GetKeepsSInv ==
    ASSUME Deployment, IInv, SInv, NEW w \in Workers, NEW a \in Approvals, NEW o \in Objects,
           Get(w, a, o),
           UNCHANGED <<loop, reading, created, runs>>,
           req' \in [Requests -> Handler],
           \A q \in Requests : req[q].pc \in Holding => req'[q] = req[q],
           \A q \in Requests :
              \/ req'[q] = req[q]
              \/ req'[q].pc \notin Active
              \/ /\ req'[q].pc \in Waiting /\ req'[q].w = w /\ req'[q].obj = o
                 /\ req'[q].pc \in Deciding =>
                       Checked(Found(w, a, o)).status \in {"pending", "approved"}
    PROVE  SInv' /\ TokenKept
<1> DEFINE rec == Found(w, a, o)
<1>0. TypeOK /\ Linked /\ Finds(w, a, o) /\ Put(w, a, o, rec)
  BY DEF IInv, Get
<1>1. /\ rec \in Record /\ rec.id = a /\ (cache[w][a] = o \/ Fresh(o)) /\ rec \in {heap[o], db[a]}
  BY <1>0, FindsFacts
<1>2. /\ heap' = [heap EXCEPT ![o] = Checked(rec)] /\ cache' = [cache EXCEPT ![w][a] = o]
      /\ \A b \in Approvals : db'[b] = db[b] \/ (b = a /\ db'[b] = Checked(rec))
      /\ Checked(rec).id = a /\ Checked(rec) # None /\ Checked(rec).used = rec.used
      /\ Sunk(rec) => Sunk(Checked(rec))
  BY <1>0, <1>1, PutFacts, NoRecordAssumption DEF Checked, Record, Sunk, Lapsed
<1>3. \A v \in Workers : v = w
  BY DEF Deployment
<1>4. ASSUME Taking(a)
      PROVE  heap' = heap /\ cache' = cache /\ db' = db
  <2>1. PICK q \in Requests : req[q].pc \in Entering /\ Rec(q).id = a
    BY <1>4 DEF Taking
  <2>2. cache[w][a] = req[q].obj /\ req[q].obj \in Objects /\ Rec(q).status # "pending"
        /\ Rec(q) = heap[req[q].obj]
    BY <1>0, <1>3, <2>1, HandlerFacts DEF SInv, Stage, Active, Holding
  <2>3. o = req[q].obj /\ rec = heap[o]
    BY <1>0, <2>2, NoneAssumption DEF Finds, Found
  <2>4. ~Lapsed(rec) /\ Checked(rec) = heap[o]
    BY <2>2, <2>3 DEF Lapsed, Checked
  <2>5. QED BY <1>0, <1>2, <2>2, <2>3, <2>4 DEF Put, TypeOK
<1>5. Spent(a) => rec.used \/ Taking(a)
  BY <1>0, <1>1, NoneAssumption DEF SInv, Finds, Found, Spent
<1>22. RanOn(a) => Sunk(rec) \/ Taking(a)
  BY <1>0, <1>1, NoneAssumption DEF SInv, Finds, Found
<1>6. TokenKept
  BY <1>2, <1>4, <1>5 DEF TokenKept, Spent
<1>7. \A q \in Requests : req[q].pc \in Active => heap'[req[q].obj].id = heap[req[q].obj].id
  BY <1>0, <1>1, PutLinked
<1>8. \A q \in Requests : req[q].pc \in Active /\ Rec(q).id = a => req[q].obj = o
  BY <1>0, <1>3, HandlerFacts, NoneAssumption DEF SInv, Finds
<1>9. \A q \in Requests : req'[q].pc \in Active => cache'[req'[q].w][heap'[req'[q].obj].id] = req'[q].obj
  <2>1. ASSUME NEW q \in Requests, req'[q].pc \in Active, req'[q] = req[q]
        PROVE  cache'[req'[q].w][heap'[req'[q].obj].id] = req'[q].obj
    <3>1. heap'[req[q].obj].id = Rec(q).id /\ cache[req[q].w][Rec(q).id] = req[q].obj
          /\ req[q].w \in Workers /\ Rec(q).id \in Approvals
      BY <1>0, <1>7, <2>1, HandlerFacts DEF SInv, Rec
    <3>2. QED BY <1>0, <1>2, <1>8, <2>1, <3>1 DEF TypeOK
  <2>2. ASSUME NEW q \in Requests, req'[q].w = w, req'[q].obj = o
        PROVE  cache'[req'[q].w][heap'[req'[q].obj].id] = req'[q].obj
    BY <1>0, <1>2, <2>2 DEF TypeOK
  <2>3. QED BY <2>1, <2>2
<1>10. \A q \in Requests : req'[q].pc \in Holding => req'[q] = req[q]
  BY DEF Active, Waiting, Holding, Entering
<1>11. \A q \in Requests : req'[q].pc \in Holding => loop'[req'[q].w] = q
  BY <1>10 DEF SInv
<1>12. \A v \in Workers, b \in Approvals : cache'[v][b] # None => b \in created
  BY <1>0, <1>2, NoneAssumption DEF SInv, Finds, TypeOK
<1>13. \A b \in Approvals : db'[b] # None => b \in created
  BY <1>0, <1>2, NoneAssumption DEF SInv, Finds
<1>14. \A q \in Requests : req'[q].pc \in Entering => heap'[req'[q].obj].status = Stage(req'[q].pc)
  <2>1. ASSUME NEW q \in Requests, req'[q].pc \in Entering
        PROVE  heap'[req'[q].obj].status = Stage(req'[q].pc)
    <3>1. req'[q] = req[q] /\ req[q].pc \in Entering /\ Rec(q).status = Stage(req[q].pc)
          /\ Rec(q) = heap[req[q].obj] /\ req[q].obj \in Objects /\ Rec(q).id \in Approvals
      BY <1>0, <1>10, <2>1, HandlerFacts DEF SInv, Holding, Active
    <3>2. CASE Rec(q).id = a
      BY <1>4, <3>1, <3>2 DEF Taking
    <3>3. CASE Rec(q).id # a
      <4>1. req[q].obj # o
        <5>1. CASE cache[w][a] = o
          <6>1. o # None
            BY NoneAssumption
          <6>2. heap[o].id = a
            BY <1>0, <5>1, <6>1 DEF Linked
          <6> QED BY <3>1, <3>3, <6>2
        <5>2. CASE Fresh(o)
          BY <5>2 DEF Fresh
        <5> QED BY <1>1, <5>1, <5>2
      <4>2. QED BY <1>0, <1>2, <3>1, <4>1 DEF TypeOK
    <3>4. QED BY <3>2, <3>3
  <2>2. QED BY <2>1
<1>15. \A b : Taking(b) => Taking(b)'
  <2>1. ASSUME NEW q \in Requests, req[q].pc \in Entering PROVE req'[q] = req[q]
    BY <2>1 DEF Holding
  <2>2. QED BY <1>7, <2>1 DEF Taking, Rec, Active, Holding
<1>23. \A b : RanOn(b)' <=> RanOn(b)
  BY DEF RanOn
<1>24. ASSUME NEW v \in Workers, NEW b \in Approvals, RanOn(b), cache'[v][b] # None
       PROVE  Sunk(heap'[cache'[v][b]]) \/ Taking(b)'
  <2>1. CASE b = a
    <3>1. cache'[v][b] = o /\ heap'[o] = Checked(rec)
      BY <1>0, <1>2, <1>3, <2>1 DEF TypeOK
    <3>2. QED BY <1>2, <1>15, <1>22, <1>24, <2>1, <3>1
  <2>2. CASE b # a
    <3>1. cache'[v][b] = cache[v][b]
      BY <1>0, <1>2, <2>2 DEF TypeOK
    <3>2. cache[v][b] # o
      BY <1>0, <1>1, <1>24, <2>2, <3>1, NoneAssumption DEF Fresh, Linked
    <3>3. heap'[cache[v][b]] = heap[cache[v][b]]
      BY <1>0, <1>2, <3>2 DEF TypeOK
    <3>4. QED BY <1>15, <1>24, <3>1, <3>3 DEF SInv
  <2>3. QED BY <2>1, <2>2
<1>25. ASSUME NEW b \in Approvals, RanOn(b) PROVE db'[b] # None /\ Sunk(db'[b])
  <2>1. CASE Taking(a)
    BY <1>4, <1>25, <2>1 DEF SInv
  <2>2. CASE ~Taking(a)
    BY <1>2, <1>22, <1>25, <2>2 DEF SInv
  <2> QED BY <2>1, <2>2
<1>26. ASSUME NEW q \in Requests, req'[q].pc \in Deciding, NEW b, b = (heap'[req'[q].obj]).id,
              RanOn(b)
       PROVE  (heap'[req'[q].obj]).used \/ Taking(b)'
  <2>1. CASE req'[q] = req[q]
    <3>1. /\ req[q].pc \in Active /\ req[q].obj \in Objects /\ Rec(q) = heap[req[q].obj]
          /\ Rec(q) \in Record /\ (heap'[req[q].obj]).id = Rec(q).id
      BY <1>0, <1>7, <1>26, <2>1, HandlerFacts DEF Deciding, Active, Waiting, Holding
    <3>2. Rec(q).used \/ Taking(b)
      BY <1>26, <2>1, <3>1 DEF SInv
    <3>3. (heap'[req[q].obj]).used = Rec(q).used
      <4>1. CASE req[q].obj = o
        <5>1. cache[w][a] = o
          BY <1>0, <3>1, <4>1 DEF Finds, Fresh
        <5>2. rec = heap[o]
          BY <1>0, <5>1 DEF Found
        <5> QED BY <1>0, <1>2, <3>1, <4>1, <5>2 DEF TypeOK
      <4>2. CASE req[q].obj # o
        BY <1>0, <1>2, <3>1, <4>2 DEF TypeOK
      <4> QED BY <4>1, <4>2
    <3> QED BY <1>15, <2>1, <3>2, <3>3
  <2>2. CASE req'[q] # req[q]
    <3>1. req'[q].obj = o /\ Checked(rec).status \in {"pending", "approved"}
      BY <1>26, <2>2 DEF Deciding, Active, Waiting, Holding
    <3>2. heap'[o] = Checked(rec) /\ b = a
      BY <1>0, <1>2, <1>26, <3>1 DEF TypeOK
    <3>3. Sunk(rec) => Checked(rec).used
      BY <1>2, <3>1 DEF Sunk
    <3> QED BY <1>15, <1>22, <1>26, <3>1, <3>2, <3>3
  <2> QED BY <2>1, <2>2
<1>27. \A q \in Requests :
         (req[q].pc \in Deciding /\ RanOn(Rec(q).id) => Rec(q).used \/ Taking(Rec(q).id))'
  BY <1>23, <1>26 DEF Rec, Taking
<1>16. ASSUME NEW v \in Workers, NEW b \in Approvals, Spent(b)', cache'[v][b] # None
       PROVE  heap'[cache'[v][b]].used \/ Taking(b)'
  <2>1. CASE b = a
    <3>1. cache'[v][b] = o /\ heap'[o] = Checked(rec)
      BY <1>0, <1>2, <1>3, <2>1 DEF TypeOK
    <3>2. Spent(a) \/ rec.used
      BY <1>2, <1>16, <2>1 DEF Spent
    <3>3. QED BY <1>2, <1>5, <1>15, <2>1, <3>1, <3>2
  <2>2. CASE b # a
    <3>1. cache'[v][b] = cache[v][b] /\ Spent(b)
      BY <1>0, <1>2, <1>16, <2>2 DEF TypeOK, Spent
    <3>2. cache[v][b] # o
      BY <1>0, <1>1, <1>16, <2>2, <3>1, NoneAssumption DEF Fresh, Linked
    <3>3. heap'[cache[v][b]] = heap[cache[v][b]]
      BY <1>0, <1>2, <3>2 DEF TypeOK
    <3>4. QED BY <1>15, <1>16, <3>1, <3>3 DEF SInv
  <2>3. QED BY <2>1, <2>2
<1>18. SingleUse'
  BY DEF SInv, SingleUse
<1> HIDE DEF rec
<1>19. \A v \in Workers, b \in Approvals : reading'[v][b] = None
  BY DEF SInv
<1>20. \A v \in Workers : loop'[v] # None => req'[loop'[v]].pc \in Holding
  BY <1>0 DEF SInv, TypeOK
<1>21. QED
  BY <1>6, <1>9, <1>11, <1>12, <1>13, <1>14, <1>16, <1>18, <1>19, <1>20, <1>23, <1>24, <1>25,
     <1>27 DEF SInv, Rec

LEMMA RefuseKeepsSInv ==
    ASSUME IInv, SInv, NEW r \in Requests, req[r].pc \in Waiting,
           req' = [req EXCEPT ![r] = Gone],
           UNCHANGED <<db, heap, cache, loop, reading, created, runs>>
    PROVE  SInv' /\ TokenKept
<1>1. Gone.pc = "done"
  BY DEF Gone, Handle
<1>2. \A q \in Requests : req'[q] = req[q] \/ req'[q].pc = "done"
  BY <1>1 DEF IInv, TypeOK
<1>3. \A q \in Requests : req[q].pc \in Entering => req'[q] = req[q]
  BY DEF IInv, TypeOK, Waiting, Entering
<1>4. \A a : Taking(a) => Taking(a)'
  BY <1>3 DEF Taking, Rec
<1>5. \A w \in Workers, a \in Approvals :
         Spent(a)' /\ cache'[w][a] # None => heap'[cache'[w][a]].used \/ Taking(a)'
  BY <1>4 DEF SInv, Spent
<1>6. \A q \in Requests : req'[q].pc \in Active => cache'[req'[q].w][Rec(q)'.id] = req'[q].obj
  <2>1. ASSUME NEW q \in Requests, req'[q].pc \in Active
        PROVE  cache'[req'[q].w][Rec(q)'.id] = req'[q].obj
    <3>1. req'[q] = req[q]
      BY <1>2, <2>1 DEF Active, Waiting, Holding, Entering
    <3>2. cache[req[q].w][Rec(q).id] = req[q].obj
      BY <2>1, <3>1 DEF SInv
    <3> QED BY <3>1, <3>2 DEF Rec
  <2> QED BY <2>1
<1>7. \A q \in Requests : req'[q].pc \in Holding => loop'[req'[q].w] = q
  BY <1>2 DEF SInv, Holding, Entering
<1>8. \A q \in Requests : req'[q].pc \in Entering => Rec(q)'.status = Stage(req'[q].pc)
  BY <1>2 DEF SInv, Rec, Entering
<1>12. \A a : RanOn(a)' <=> RanOn(a)
  BY DEF RanOn
<1>13. \A w \in Workers, a \in Approvals :
         RanOn(a)' /\ cache'[w][a] # None => Sunk(heap'[cache'[w][a]]) \/ Taking(a)'
  BY <1>4, <1>12 DEF SInv
<1>14. \A q \in Requests :
         (req[q].pc \in Deciding /\ RanOn(Rec(q).id) => Rec(q).used \/ Taking(Rec(q).id))'
  <2>1. ASSUME NEW q \in Requests, req'[q].pc \in Deciding, NEW b, b = Rec(q)'.id, RanOn(b)
        PROVE  Rec(q)'.used \/ Taking(b)'
    <3>1. req'[q] = req[q] /\ Rec(q)' = Rec(q) /\ b = Rec(q).id
      BY <1>2, <2>1 DEF Deciding, Rec
    <3>2. Rec(q).used \/ Taking(b)
      BY <2>1, <3>1 DEF SInv
    <3> QED BY <1>4, <3>1, <3>2
  <2> QED BY <1>12, <2>1 DEF Taking
<1>9. (\A a \in Approvals : RanOn(a) => db[a] # None /\ Sunk(db[a]))' /\ SingleUse'
  BY <1>12 DEF SInv, SingleUse, Sunk
<1>10. \A w \in Workers : loop'[w] # None => req'[loop'[w]].pc \in Holding
  BY DEF SInv, IInv, TypeOK, Waiting, Holding, Entering
<1>15. TokenKept
  BY DEF TokenKept, Spent
<1>16. (\A w \in Workers, a \in Approvals :
          RanOn(a) /\ cache[w][a] # None => Sunk(heap[cache[w][a]]) \/ Taking(a))'
  BY <1>13 DEF Sunk
<1>17. (\A w \in Workers, a \in Approvals :
          Spent(a) /\ cache[w][a] # None => heap[cache[w][a]].used \/ Taking(a))'
  BY <1>5
<1>18. /\ (\A w \in Workers, a \in Approvals : reading[w][a] = None)'
       /\ (\A w \in Workers, a \in Approvals : cache[w][a] # None => a \in created)'
       /\ (\A a \in Approvals : db[a] # None => a \in created)'
  BY DEF SInv
<1>11. QED
  BY <1>6, <1>7, <1>8, <1>9, <1>10, <1>14, <1>15, <1>16, <1>17, <1>18 DEF SInv

\* The UPDATE finds the token unspent, so no execution of the approval has gone before.
LEMMA LockKeepsSInv ==
    ASSUME Deployment, IInv, SInv, NEW r \in Requests, NEW c \in Codes, ExecuteLock(r, c)
    PROVE  SInv' /\ TokenKept
<1> DEFINE a == Rec(r).id
           h == [req[r] EXCEPT !.pc = "execute_mark", !.code = c]
           m == [r |-> r, a |-> a, x |-> req[r].x, code |-> c]
<1>0. TypeOK /\ Linked
  BY DEF IInv
<1>1. req[r].pc \in Active /\ req[r].pc = "execute_body" /\ loop[req[r].w] \in {None, r}
      /\ Rec(r).status = "approved"
  BY DEF ExecuteLock, MayExecute, Runs, Active, Waiting
<1>2. a \in Approvals /\ req[r].w \in Workers /\ req[r].obj \in Objects /\ ~Sunk(db[a])
      /\ db[a] \in Record /\ Rec(r) = heap[req[r].obj]
  BY <1>0, <1>1, HandlerFacts DEF ExecuteLock, TypeOK, Sunk
<1>3. db'[a].used /\ db'[a] # None /\ \A b \in Approvals : b # a => db'[b] = db[b]
  <2>1. [db[a] EXCEPT !.status = "executing", !.used = TRUE, !.execCode = c] \in Record
    BY <1>2 DEF Record, Status
  <2>2. db' = [db EXCEPT ![a] = [db[a] EXCEPT !.status = "executing", !.used = TRUE, !.execCode = c]]
    BY <1>0, <1>2 DEF ExecuteLock, TypeOK, Record
  <2>3. QED BY <1>0, <1>2, <2>1, <2>2, NoRecordAssumption DEF TypeOK, Record
<1>4. req' = [req EXCEPT ![r] = h] /\ runs' = runs \cup {m}
      /\ loop' = [loop EXCEPT ![req[r].w] = r]
      /\ UNCHANGED <<heap, cache, reading, created>>
  BY <1>0 DEF ExecuteLock, Hold, TypeOK
<1>5. h.pc = "execute_mark" /\ h.w = req[r].w /\ h.obj = req[r].obj /\ req'[r] = h
      /\ \A q \in Requests : q # r => req'[q] = req[q]
  BY <1>0, <1>4 DEF TypeOK, Handler
<1>6. TokenKept
  BY <1>3 DEF TokenKept, Spent
<1>7. \A b : Taking(b) => Taking(b)'
  BY <1>1, <1>4, <1>5 DEF Taking, Rec, Entering
<1>20. \A b : b = a => Taking(b)'
  <2>1. Rec(r)' = Rec(r) /\ req'[r].pc \in Entering
    BY <1>4, <1>5 DEF Rec, Entering
  <2>2. ASSUME NEW b, b = a PROVE \E q \in Requests : req'[q].pc \in Entering /\ Rec(q)'.id = b
    BY <2>1, <2>2
  <2> QED BY <2>2 DEF Taking
<1>15. ~RanOn(a)
  BY <1>2 DEF SInv
<1>21. \A b : RanOn(b)' <=> RanOn(b) \/ b = a
  <2>1. runs' = runs \cup {m} /\ m.a = a
    BY <1>4
  <2> HIDE DEF m, a
  <2> QED BY <2>1 DEF RanOn
<1>9. ASSUME NEW w \in Workers, NEW b \in Approvals, Spent(b)', cache'[w][b] # None
      PROVE  heap'[cache'[w][b]].used \/ Taking(b)'
  <2>1. CASE b = a
    BY <1>20, <2>1
  <2>2. CASE b # a
    <3>1. Spent(b) /\ cache[w][b] # None
      BY <1>3, <1>4, <1>9, <2>2 DEF Spent
    <3>2. heap[cache[w][b]].used \/ Taking(b)
      BY <3>1 DEF SInv
    <3>3. QED BY <1>4, <1>7, <3>2
  <2>3. QED BY <2>1, <2>2
<1>10. \A q \in Requests : req'[q].pc \in Active => cache'[req'[q].w][Rec(q)'.id] = req'[q].obj
  <2>1. \A q \in Requests : req'[q].pc \in Active =>
           req[q].pc \in Active /\ req'[q].w = req[q].w /\ req'[q].obj = req[q].obj
    BY <1>1, <1>5
  <2>2. \A q \in Requests : req[q].pc \in Active => cache[req[q].w][Rec(q).id] = req[q].obj
    BY DEF SInv
  <2>3. QED BY <1>4, <2>1, <2>2 DEF Rec
<1>11. \A q \in Requests : q # r => req[q].pc \notin Holding
  BY <1>0, <1>1, <1>2, HandlerFacts, NoneAssumption DEF Deployment, SInv, Active
<1>12. \A q \in Requests : req'[q].pc \in Holding => loop'[req'[q].w] = q
  BY <1>0, <1>2, <1>4, <1>5, <1>11 DEF TypeOK
<1>13. \A q \in Requests : req'[q].pc \in Entering => Rec(q)'.status = Stage(req'[q].pc)
  <2>1. \A q \in Requests : req[q].pc \in Entering => Rec(q).status = Stage(req[q].pc)
    BY DEF SInv
  <2>2. ASSUME NEW q \in Requests, req'[q].pc \in Entering
        PROVE  Rec(q)'.status = Stage(req'[q].pc)
    BY <1>1, <1>4, <1>5, <2>1, <2>2 DEF Rec, Stage
  <2> QED BY <2>2
<1>14. (\A b \in Approvals : RanOn(b) => db[b] # None /\ Sunk(db[b]))'
  BY <1>3, <1>21 DEF SInv, Sunk
<1>22. \A w \in Workers, b \in Approvals :
         RanOn(b)' /\ cache'[w][b] # None => Sunk(heap'[cache'[w][b]]) \/ Taking(b)'
  BY <1>4, <1>7, <1>20, <1>21 DEF SInv
<1>23. \A q \in Requests :
         (req[q].pc \in Deciding /\ RanOn(Rec(q).id) => Rec(q).used \/ Taking(Rec(q).id))'
  <2>1. ASSUME NEW q \in Requests, req'[q].pc \in Deciding, NEW b, b = Rec(q)'.id,
               RanOn(b) \/ b = a
        PROVE  Rec(q)'.used \/ Taking(b)'
    <3>1. req'[q] = req[q] /\ Rec(q)' = Rec(q) /\ b = Rec(q).id
      BY <1>4, <1>5, <2>1 DEF Deciding, Rec
    <3>2. RanOn(b) => Rec(q).used \/ Taking(b)
      BY <2>1, <3>1 DEF SInv
    <3> QED BY <1>7, <1>20, <2>1, <3>1, <3>2
  <2> QED BY <1>21, <2>1 DEF Taking
<1>16. SingleUse'
  BY <1>4, <1>15 DEF SInv, SingleUse, RanOn
<1>17. \A b \in Approvals : db'[b] # None => b \in created
  BY <1>2, <1>3, NoRecordAssumption DEF SInv
<1>18. \A w \in Workers : loop'[w] # None => req'[loop'[w]].pc \in Holding
  BY <1>0, <1>2, <1>4, <1>5 DEF Deployment, TypeOK, Holding, Entering
<1>24. (\A w \in Workers, b \in Approvals :
          RanOn(b) /\ cache[w][b] # None => Sunk(heap[cache[w][b]]) \/ Taking(b))'
  BY <1>22 DEF Sunk
<1>25. (\A w \in Workers, b \in Approvals :
          Spent(b) /\ cache[w][b] # None => heap[cache[w][b]].used \/ Taking(b))'
  BY <1>9
<1>26. (\A w \in Workers, b \in Approvals : cache[w][b] # None => b \in created)'
       /\ (\A w \in Workers, b \in Approvals : reading[w][b] = None)'
  BY <1>4 DEF SInv
<1>27. (\A b \in Approvals : db[b] # None => b \in created)'
  BY <1>4, <1>17
<1>19. QED
  BY <1>6, <1>10, <1>12, <1>13, <1>14, <1>16, <1>18, <1>23, <1>24, <1>25, <1>26, <1>27
     DEF SInv

\* A new approval has an id that nothing knows and an object that nothing refers to.
LEMMA CreateKeepsSInv ==
    ASSUME IInv, SInv, NEW w \in Workers, NEW a \in Approvals, NEW o \in Objects,
           Create(w, a, o)
    PROVE  SInv' /\ TokenKept
<1> DEFINE rec == [id |-> a, status |-> "pending", by |-> None, code |-> None,
                   execCode |-> None, used |-> FALSE,
                   expires |-> now + DecisionWindow, window |-> None]
<1>0. TypeOK /\ Linked /\ now + DecisionWindow \in Nat
  BY WindowAssumption DEF IInv, TypeOK
<1>1. rec \in Record /\ rec.id = a /\ ~rec.used /\ rec # None
  <2>1. rec \in Record
    BY <1>0 DEF Record, Status
  <2>2. QED BY <2>1, NoRecordAssumption
<1>2. /\ Save(o, rec) /\ Fresh(o) /\ a \notin created /\ created' = created \cup {a}
      /\ cache' = [cache EXCEPT ![w][a] = o]
      /\ UNCHANGED <<loop, req, reading, runs>>
  BY DEF Create
<1> HIDE DEF rec
<1>3. /\ heap' = [heap EXCEPT ![o] = rec]
      /\ \A b \in Approvals : db'[b] = db[b] \/ (b = a /\ db'[b] = rec)
  BY <1>0, <1>1, <1>2, SaveFacts
<1>4. db[a] = None
  BY <1>2 DEF SInv
<1>5. TokenKept
  BY <1>3, <1>4 DEF TokenKept, Spent
<1>6. \A b \in Approvals : Spent(b)' => Spent(b) /\ b # a
  BY <1>1, <1>3, <1>4 DEF Spent
<1>7. \A q \in Requests : req[q].pc \in Active =>
         /\ heap'[req[q].obj] = heap[req[q].obj] /\ Rec(q).id # a
         /\ req[q].w \in Workers /\ Rec(q).id \in Approvals
  BY <1>0, <1>2, <1>3, HandlerFacts, NoneAssumption DEF SInv, Fresh, TypeOK
<1>8. \A q \in Requests : req'[q].pc \in Active => cache'[req'[q].w][Rec(q)'.id] = req'[q].obj
  <2>1. ASSUME NEW q \in Requests, req'[q].pc \in Active
        PROVE  cache'[req'[q].w][Rec(q)'.id] = req'[q].obj
    <3>1. /\ req' = req /\ Rec(q)' = Rec(q) /\ Rec(q).id # a
          /\ req[q].w \in Workers /\ Rec(q).id \in Approvals
      BY <1>2, <1>7, <2>1 DEF Rec
    <3>2. cache[req[q].w][Rec(q).id] = req[q].obj
      BY <2>1, <3>1 DEF SInv
    <3>3. cache'[req[q].w][Rec(q).id] = cache[req[q].w][Rec(q).id]
      BY <1>0, <1>2, <3>1 DEF TypeOK
    <3> QED BY <3>1, <3>2, <3>3
  <2> QED BY <2>1
<1>9. \A b : Taking(b) => Taking(b)'
  BY <1>2, <1>7 DEF Taking, Rec, Active, Holding
<1>10. ASSUME NEW v \in Workers, NEW b \in Approvals, Spent(b)', cache'[v][b] # None
       PROVE  heap'[cache'[v][b]].used \/ Taking(b)'
  <2>1. Spent(b) /\ cache'[v][b] = cache[v][b]
    BY <1>0, <1>2, <1>6, <1>10 DEF TypeOK
  <2>2. heap'[cache[v][b]] = heap[cache[v][b]]
    BY <1>0, <1>2, <1>3, <1>10, <2>1 DEF Fresh, TypeOK
  <2>3. QED BY <1>9, <1>10, <2>1, <2>2 DEF SInv
<1>11. \A q \in Requests : req'[q].pc \in Entering => Rec(q)'.status = Stage(req'[q].pc)
  BY <1>2, <1>7 DEF SInv, Rec, Active, Holding
<1>12. (\A v \in Workers, b \in Approvals : cache[v][b] # None => b \in created)'
  BY <1>0, <1>2 DEF SInv, TypeOK
<1>13. (\A b \in Approvals : db[b] # None => b \in created)'
  BY <1>2, <1>3 DEF SInv
<1>16. \A b \in Approvals : RanOn(b)' => RanOn(b) /\ b # a
  BY <1>2, <1>4 DEF SInv, RanOn
<1>14. (\A b \in Approvals : RanOn(b) => db[b] # None /\ Sunk(db[b]))'
  BY <1>3, <1>16 DEF SInv, Sunk
<1>17. ASSUME NEW v \in Workers, NEW b \in Approvals, RanOn(b)', cache'[v][b] # None
       PROVE  Sunk(heap'[cache'[v][b]]) \/ Taking(b)'
  <2>1. RanOn(b) /\ cache'[v][b] = cache[v][b]
    BY <1>0, <1>2, <1>16, <1>17 DEF TypeOK
  <2>2. heap'[cache[v][b]] = heap[cache[v][b]]
    BY <1>0, <1>2, <1>3, <1>17, <2>1 DEF Fresh, TypeOK
  <2>3. QED BY <1>9, <1>17, <2>1, <2>2 DEF SInv
<1>18. \A q \in Requests :
         (req[q].pc \in Deciding /\ RanOn(Rec(q).id) => Rec(q).used \/ Taking(Rec(q).id))'
  <2>1. ASSUME NEW q \in Requests, req'[q].pc \in Deciding, NEW b, b = Rec(q)'.id, RanOn(b)
        PROVE  Rec(q)'.used \/ Taking(b)'
    <3>1. req'[q] = req[q] /\ Rec(q)' = Rec(q) /\ b = Rec(q).id
      BY <1>2, <1>7, <2>1 DEF Deciding, Rec, Active, Waiting, Holding
    <3>2. Rec(q).used \/ Taking(b)
      BY <2>1, <3>1 DEF SInv
    <3> QED BY <1>9, <3>1, <3>2
  <2> QED BY <1>2, <2>1 DEF Taking, RanOn
<1>19. (\A v \in Workers, b \in Approvals :
          RanOn(b) /\ cache[v][b] # None => Sunk(heap[cache[v][b]]) \/ Taking(b))'
  BY <1>17 DEF Sunk
<1>20. (\A v \in Workers, b \in Approvals :
          Spent(b) /\ cache[v][b] # None => heap[cache[v][b]].used \/ Taking(b))'
  BY <1>10
<1>21. /\ (\A v \in Workers, b \in Approvals : reading[v][b] = None)'
       /\ (\A q \in Requests : req[q].pc \in Holding => loop[req[q].w] = q)'
       /\ (\A v \in Workers : loop[v] # None => req[loop[v]].pc \in Holding)'
       /\ SingleUse'
  BY <1>2 DEF SInv, SingleUse
<1>15. QED
  BY <1>5, <1>8, <1>11, <1>12, <1>13, <1>14, <1>18, <1>19, <1>20, <1>21 DEF SInv

\* A crash takes the dictionary and the handlers and leaves the table.
LEMMA CrashKeepsSInv ==
    ASSUME Deployment, IInv, SInv, NEW w \in Workers, Crash(w)
    PROVE  SInv' /\ TokenKept
<1>0. Gone.pc = "done" /\ TypeOK
  BY DEF Gone, Handle, IInv
<1>1. \A v \in Workers, a \in Approvals : cache'[v][a] = None /\ reading'[v][a] = None
  BY <1>0 DEF Deployment, Crash, TypeOK
<1>2. \A v \in Workers : loop'[v] = None
  BY <1>0 DEF Deployment, Crash, TypeOK
<1>3. \A q \in Requests : req'[q].pc \notin Active
  <2>1. \A q \in Requests : req[q].pc \in Active => req[q].w = w
    BY HandlerFacts DEF IInv, Deployment
  <2>2. QED BY <1>0, <2>1 DEF Crash, Active, Waiting, Holding, Entering
<1>4. UNCHANGED <<db, created, runs>>
  BY DEF Crash
<1>5. QED
  BY <1>1, <1>2, <1>3, <1>4
     DEF SInv, Active, Waiting, Holding, Deciding, Spent, Sunk, RanOn, SingleUse, TokenKept

LEMMA HandlerStepSInv ==
    ASSUME Deployment, IInv, SInv, NEW r \in Requests, HandlerStep(r)
    PROVE  SInv' /\ TokenKept
<1>0. /\ TypeOK /\ Gone \in Handler /\ Gone.pc = "done"
      /\ \A pc \in Active : pc # "done" /\ pc # "idle"
  BY DEF IInv, Gone, Handle, Handler, Active, Waiting, Holding, Entering
<1>00. req[r].pc \in Active => req[r].w \in Workers /\ Rec(r) \in Record /\ Rec(r).id \in Approvals
  BY HandlerFacts DEF IInv
<1>1. ASSUME NEW w \in Workers, NEW a \in Approvals, NEW x \in Actors, NEW o \in Objects,
             NEW pc \in Waiting, Begin(r, pc, w, a, x, o)
      PROVE  SInv' /\ TokenKept
  <2> DEFINE h == Handle(pc, w, x, o, None)
  <2>1. h \in Handler /\ h.pc \in Waiting /\ h.w = w /\ h.obj = o
    BY DEF Handle, Handler
  <2>2. \/ req' = [req EXCEPT ![r] = Gone]
        \/ req' = [req EXCEPT ![r] = h]
    BY <1>1 DEF Begin
  <2>3. req[r].pc \notin Holding
    BY <1>1 DEF Begin, Holding, Entering
  <2>4. req' \in [Requests -> Handler]
    BY <1>0, <2>1, <2>2 DEF TypeOK
  <2>5. \A q \in Requests : req'[q] = req[q] \/ (q = r /\ req'[q] \in {Gone, h})
    BY <1>0, <2>2 DEF TypeOK
  <2>6. \A q \in Requests : req[q].pc \in Holding => req'[q] = req[q]
    BY <2>3, <2>5
  <2>7. Get(w, a, o) /\ UNCHANGED <<loop, reading, created, runs>>
    BY <1>1 DEF Begin
  <2>10. \/ req' = [req EXCEPT ![r] = Gone]
         \/ pc = "approve_body" => Checked(Found(w, a, o)).status \in {"pending", "approved"}
    BY <1>1 DEF Begin
  <2>11. h.pc = pc /\ (pc \in Deciding => pc = "approve_body")
    BY DEF Handle, Deciding, Waiting
  <2> HIDE DEF h
  <2>8. \A q \in Requests :
           \/ req'[q] = req[q]
           \/ req'[q].pc \notin Active
           \/ /\ req'[q].pc \in Waiting /\ req'[q].w = w /\ req'[q].obj = o
              /\ req'[q].pc \in Deciding =>
                    Checked(Found(w, a, o)).status \in {"pending", "approved"}
    <3>1. CASE req' = [req EXCEPT ![r] = Gone]
      BY <1>0, <3>1 DEF TypeOK
    <3>2. CASE req' # [req EXCEPT ![r] = Gone]
      BY <1>0, <2>1, <2>2, <2>10, <2>11, <3>2 DEF TypeOK
    <3> QED BY <3>1, <3>2
  <2>9. QED BY <2>4, <2>6, <2>7, <2>8, GetKeepsSInv
<1>2. ASSUME Refuse(r) PROVE SInv' /\ TokenKept
  BY <1>2, RefuseKeepsSInv DEF Refuse, Finish
<1>3. ASSUME NEW c \in Codes \cup {None}, ApproveMark(r, c) PROVE SInv' /\ TokenKept
  <2> DEFINE rec == [Rec(r) EXCEPT !.status = "approved"]
             h == [req[r] EXCEPT !.pc = "approve_seal", !.code = c]
  <2>1. /\ req[r].pc \in Active /\ req[r].pc = "approve_body" /\ loop[req[r].w] \in {None, r}
        /\ req[r].pc \in Deciding /\ req[r].pc \notin Entering
    BY <1>3 DEF ApproveMark, Runs, Active, Waiting, Deciding, Entering
  <2>2. rec \in Record /\ rec.id = Rec(r).id /\ rec.used = Rec(r).used
    BY <1>00, <2>1 DEF Record, Status
  <2>3. h \in Handler /\ h.pc = "approve_seal" /\ h.w = req[r].w /\ h.x = req[r].x
        /\ h.obj = req[r].obj /\ h.pc \in Holding /\ h.pc \notin Entering
    BY <1>0 DEF TypeOK, Handler, Holding, Entering
  <2>4. /\ Save(req[r].obj, rec) /\ req' = [req EXCEPT ![r] = h]
        /\ loop' = [loop EXCEPT ![req[r].w] = r]
        /\ UNCHANGED <<cache, reading, now, created, runs>>
    BY <1>0, <1>3 DEF ApproveMark, TypeOK, Hold
  <2> HIDE DEF rec, h
  <2>5. QED BY <2>1, <2>2, <2>3, <2>4, AssignKeepsSInv
<1>4. ASSUME ApproveSeal(r) PROVE SInv' /\ TokenKept
  <2> DEFINE rec == [Rec(r) EXCEPT !.by = req[r].x, !.code = req[r].code,
                                   !.window = now + ExecutionWindow]
  <2>1. /\ req[r].pc \in Active /\ req[r].pc = "approve_seal" /\ loop[req[r].w] \in {None, r}
        /\ req[r].pc \in Deciding /\ req[r].pc \notin Entering
    BY <1>4 DEF ApproveSeal, Runs, Active, Holding, Deciding, Entering
  <2>2. rec \in Record /\ rec.id = Rec(r).id /\ rec.used = Rec(r).used
    <3>1. now + ExecutionWindow \in Nat
      BY <1>0, WindowAssumption DEF TypeOK
    <3>2. QED BY <1>00, <2>1, <3>1, HandlerFacts DEF IInv, Record
  <2>3. /\ Save(req[r].obj, rec) /\ req' = [req EXCEPT ![r] = Gone]
        /\ loop' = [loop EXCEPT ![req[r].w] = None]
        /\ UNCHANGED <<cache, reading, now, created, runs>>
    BY <1>4 DEF ApproveSeal, Finish, Release
  <2>4. Gone.pc \notin Active /\ Gone.pc \notin Holding /\ Gone.pc \notin Entering
        /\ Gone.pc \notin Deciding
    BY <1>0 DEF Active, Holding, Entering, Deciding
  <2> HIDE DEF rec
  <2>5. QED BY <1>0, <2>1, <2>2, <2>3, <2>4, AssignKeepsSInv
<1>5. ASSUME RejectFinish(r) \/ ExecuteLapse(r) PROVE SInv' /\ TokenKept
  <2>1. PICK status \in {"rejected", "expired"} :
           Save(req[r].obj, [Rec(r) EXCEPT !.status = status])
    BY <1>5 DEF RejectFinish, ExecuteLapse
  <2> DEFINE rec == [Rec(r) EXCEPT !.status = status]
  <2>2. /\ req[r].pc \in Active /\ req[r].pc \in Waiting /\ loop[req[r].w] \in {None, r}
        /\ req[r].pc \notin Entering /\ req[r].pc \notin Holding
    BY <1>5 DEF RejectFinish, ExecuteLapse, MayExecute, Runs, Active, Waiting, Holding, Entering
  <2>3. rec \in Record /\ rec.id = Rec(r).id /\ rec.used = Rec(r).used
        /\ rec.status \notin {"pending", "approved"}
    BY <1>00, <2>2 DEF Record, Status
  <2>4. loop[req[r].w] = None
    BY <1>00, <2>2, NoneAssumption DEF SInv
  <2>5. /\ req' = [req EXCEPT ![r] = Gone] /\ loop' = [loop EXCEPT ![req[r].w] = None]
        /\ UNCHANGED <<cache, reading, now, created, runs>>
    BY <1>0, <1>00, <1>5, <2>2, <2>4 DEF RejectFinish, ExecuteLapse, Finish, TypeOK
  <2>6. Gone.pc \notin Active /\ Gone.pc \notin Holding /\ Gone.pc \notin Entering
        /\ Gone.pc \notin Deciding
    BY <1>0 DEF Active, Holding, Entering, Deciding
  <2> HIDE DEF rec
  <2>7. Save(req[r].obj, rec)
    BY <2>1 DEF rec
  <2>9. req[r].pc # Gone.pc
    BY <1>0, <2>2
  <2>8. QED BY <1>0, <2>2, <2>3, <2>5, <2>6, <2>7, <2>9, AssignKeepsSInv
<1>6. ASSUME NEW c \in Codes, ExecuteLock(r, c) PROVE SInv' /\ TokenKept
  BY <1>6, LockKeepsSInv
<1>7. ASSUME Enters(r) PROVE SInv' /\ TokenKept
  <2>1. PICK rec \in Record, h \in Handler :
           /\ req[r].pc \in Entering /\ Runs(r, req[r].pc)
           /\ Save(req[r].obj, rec) /\ req' = [req EXCEPT ![r] = h]
           /\ UNCHANGED <<cache, loop, reading, now, created, runs>>
           /\ h.w = req[r].w /\ h.x = req[r].x /\ h.obj = req[r].obj
           /\ rec.id = Rec(r).id
           /\ rec.used = (Rec(r).used \/ req[r].pc = "execute_enter")
           /\ rec.status = IF req[r].pc = "execute_mark" THEN "executing" ELSE Rec(r).status
           /\ h.pc = CASE req[r].pc = "execute_mark" -> "execute_count"
                       [] req[r].pc = "execute_count" -> "execute_enter"
                       [] req[r].pc = "execute_enter" -> "execute_run"
    BY <1>7, EntryFacts DEF IInv
  <2>2. req[r].pc \in {"execute_mark", "execute_count", "execute_enter"}
        /\ req[r].pc \in Active /\ req[r].pc \in Holding /\ req[r].w \in Workers
    BY <2>1, HandlerFacts DEF IInv, Entering, Active, Holding
  <2>3. loop[req[r].w] = r /\ loop' = [loop EXCEPT ![req[r].w] = r]
    BY <1>0, <2>1, <2>2 DEF SInv, TypeOK
  <2>4. rec.status = "executing"
    BY <2>1, <2>2 DEF SInv, Stage
  <2>5. /\ h.pc # req[r].pc /\ h.pc # "execute_mark" /\ h.pc \in Holding /\ h.pc \notin Deciding
        /\ h.pc \in Entering \/ req[r].pc = "execute_enter"
    BY <2>1, <2>2 DEF Holding, Entering, Deciding
  <2>6. Rec(r).used \in BOOLEAN /\ (Rec(r).used => rec.used)
        /\ (req[r].pc = "execute_enter" => rec.used)
    BY <1>00, <2>1, <2>2 DEF Record
  <2>7. QED
    BY <2>1, <2>2, <2>3, <2>4, <2>5, <2>6, AssignKeepsSInv
<1>8. ASSUME NEW outcome \in {"executed", "execution_failed"}, ExecuteEnd(r, outcome)
      PROVE  SInv' /\ TokenKept
  <2> DEFINE rec == [Rec(r) EXCEPT !.status = outcome]
  <2>1. /\ req[r].pc \in Active /\ req[r].pc = "execute_run" /\ loop[req[r].w] \in {None, r}
        /\ req[r].pc \notin Entering
    BY <1>8 DEF ExecuteEnd, Runs, Active, Holding, Entering
  <2>2. rec \in Record /\ rec.id = Rec(r).id /\ rec.used = Rec(r).used
        /\ rec.status \notin {"pending", "approved"}
    BY <1>00, <1>8, <2>1 DEF Record, Status, ExecuteEnd
  <2>3. /\ Save(req[r].obj, rec) /\ req' = [req EXCEPT ![r] = Gone]
        /\ loop' = [loop EXCEPT ![req[r].w] = None]
        /\ UNCHANGED <<cache, reading, now, created, runs>>
    BY <1>8 DEF ExecuteEnd, Finish, Release
  <2>4. Gone.pc \notin Active /\ Gone.pc \notin Holding /\ Gone.pc \notin Entering
        /\ Gone.pc \notin Deciding
    BY <1>0 DEF Active, Holding, Entering, Deciding
  <2> HIDE DEF rec
  <2>5. QED BY <1>0, <2>1, <2>2, <2>3, <2>4, AssignKeepsSInv
<1>9. QED
  BY <1>1, <1>2, <1>3, <1>4, <1>5, <1>6, <1>7, <1>8 DEF HandlerStep, Enters

LEMMA StepSInv ==
    ASSUME Deployment, IInv, SInv, [Next]_vars
    PROVE  SInv' /\ TokenKept
<1>1. ASSUME NEW w \in Workers, NEW a \in Approvals, NEW o \in Objects, Look(w, a, o)
      PROVE  SInv' /\ TokenKept
  <2>1. /\ Get(w, a, o) /\ UNCHANGED <<loop, req, reading, created, runs>>
        /\ req' \in [Requests -> Handler]
    BY <1>1 DEF Look, IInv, TypeOK
  <2>2. QED BY <2>1, GetKeepsSInv
<1>2. ASSUME NEW w \in Workers, NEW a \in Approvals, NEW o \in Objects, ThreadStep(w, a, o)
      PROVE  SInv' /\ TokenKept
  <2>1. ~InstallRow(w, a, o)
    BY DEF InstallRow, SInv
  <2>2. ~ForceExpire(w, a, o)
    BY DEF ForceExpire, Deployment
  <2>3. QED BY <1>1, <1>2, <2>1, <2>2, CreateKeepsSInv DEF ThreadStep
<1>3. \A w \in Workers, a \in Approvals : ~ReadRow(w, a)
  BY DEF ReadRow, Deployment
<1>4. ASSUME Tick \/ UNCHANGED vars PROVE SInv' /\ TokenKept
  <2>1. UNCHANGED <<db, heap, cache, loop, req, reading, created, runs>>
    BY <1>4 DEF Tick, vars
  <2>3. \A a : (Spent(a)' <=> Spent(a)) /\ (Taking(a)' <=> Taking(a))
    BY <2>1 DEF Spent, Taking, Rec
  <2>4. \A q \in Requests : Rec(q)' = Rec(q)
    BY <2>1 DEF Rec
  <2>5. \A a : RanOn(a)' <=> RanOn(a)
    BY <2>1 DEF RanOn
  <2>2. QED BY <2>1, <2>3, <2>4, <2>5 DEF SInv, TokenKept, SingleUse, Sunk
<1>5. QED
  BY <1>2, <1>3, <1>4, HandlerStepSInv, CrashKeepsSInv DEF Next

LEMMA InitSInv == Init => SInv
BY NoneAssumption
   DEF Init, SInv, Handle, Active, Waiting, Holding, Entering, Deciding, Spent, RanOn, SingleUse

LEMMA SingleUseInvariance == ASSUME Deployment PROVE Spec => [](IInv /\ SInv)
<1>1. IInv /\ SInv /\ [Next]_vars => (IInv /\ SInv)'
  BY StepIInv, StepSInv
<1>2. QED BY <1>1, InitIInv, InitSInv, PTL DEF Spec

\* One process without listings takes the execution token of an approval once at most,
\* whatever number of approvals, actors and calls of /approve, /reject and /execute
\* interleave, crash or lose their writes (docs/srs_traceability_matrix.md, FR-2.3).
THEOREM SingleUseHolds == ASSUME Deployment PROVE Spec => []SingleUse
<1>1. SInv => SingleUse
  BY DEF SInv
<1>2. QED BY <1>1, SingleUseInvariance, PTL

\* In that deployment no write-back of a record object gives a token back, save those of
\* the call that took it, before its assignment of execution_token_used_at (main.py
\* 1635-1641).
THEOREM TokenStaysSpentHolds == ASSUME Deployment PROVE Spec => TokenStaysSpent
<1>1. IInv /\ SInv /\ [Next]_vars
        => [\A a \in Approvals :
              db[a] # None /\ db[a].used /\ ~db'[a].used
                 => \E r \in Requests :
                      req[r].pc \in Entering /\ Rec(r).id = a /\ req'[r] # req[r]]_vars
  <2>1. SUFFICES ASSUME IInv, SInv, [Next]_vars, NEW a \in Approvals,
                        db[a] # None, db[a].used, ~db'[a].used
                 PROVE  \E r \in Requests :
                           req[r].pc \in Entering /\ Rec(r).id = a /\ req'[r] # req[r]
    OBVIOUS
  <2>2. Spent(a) /\ ~Spent(a)'
    BY <2>1 DEF Spent
  <2>3. QED BY <2>1, <2>2, StepSInv DEF TokenKept
<1>2. QED BY <1>1, SingleUseInvariance, PTL DEF Spec, TokenStaysSpent

-----------------------------------------------------------------------------
(* Who may execute, in that deployment as long as the process does not die: *)
(* a crash between the assignments of /approve leaves an approved record    *)
(* without an approver, which any actor may execute.                        *)

Steady == Deployment /\ "crash" \notin Env

Sealing(a) == \E q \in Requests : req[q].pc = "approve_seal" /\ Rec(q).id = a
Sealed(rec) == [a |-> rec.id, x |-> rec.by, code |-> rec.code] \in decisions

\* An approved record names the decision it stands on, or the handler that decided is about
\* to name it; a rejected record is no longer open and nobody who saw it open is still to come.
GInv ==
    /\ \A w \in Workers, a \in Approvals : a \in created => cache[w][a] # None
    /\ \A w \in Workers, a \in Approvals :
         cache[w][a] # None /\ heap[cache[w][a]].status = "approved"
            => Sealed(heap[cache[w][a]]) \/ Sealing(a)
    /\ \A q \in Requests :
         req[q].pc = "approve_seal"
            => [a |-> Rec(q).id, x |-> req[q].x, code |-> req[q].code] \in decisions
    /\ \A a \in rejected :
         /\ a \in created /\ ~BeingApproved(a)
         /\ \A w \in Workers :
              cache[w][a] # None => heap[cache[w][a]].status \notin {"pending", "approved"}

\* While a handler runs no other one is between the two assignments of /approve.
LEMMA OneSeals ==
    ASSUME Deployment, IInv, SInv, NEW r \in Requests, req[r].pc \in Active,
           loop[req[r].w] \in {None, r}, NEW q \in Requests, req[q].pc \in Holding
    PROVE  q = r
<1>1. req[r].w \in Workers /\ req[q].w \in Workers
  BY HandlerFacts DEF IInv, Active
<1>2. loop[req[q].w] = q /\ req[q].w = req[r].w
  BY <1>1 DEF SInv, Deployment
<1> QED BY <1>2, NoneAssumption

\* A handler assigns to its record.
LEMMA AssignKeepsGInv ==
    ASSUME Deployment, IInv, SInv, GInv, NEW r \in Requests, req[r].pc \in Active,
           loop[req[r].w] \in {None, r},
           NEW rec \in Record, rec.id = Rec(r).id, Save(req[r].obj, rec),
           UNCHANGED <<cache, created>>, decisions \subseteq decisions',
           rec.status = "approved" => Sealed(rec)' \/ req'[r].pc = "approve_seal",
           NEW h \in Handler, req' = [req EXCEPT ![r] = h], h.pc # "approve_body",
           h.pc = "approve_seal" =>
              h.obj = req[r].obj /\ [a |-> rec.id, x |-> h.x, code |-> h.code] \in decisions',
           rejected' \subseteq rejected \cup {rec.id},
           rec.id \in rejected' =>
              /\ rec.status \notin {"pending", "approved"}
              /\ \A q \in Requests : q # r /\ req[q].pc = "approve_body" => Rec(q).id # rec.id
    PROVE  GInv'
<1> DEFINE o == req[r].obj
<1>0. TypeOK /\ Linked
  BY DEF IInv
<1>1. /\ o \in Objects /\ heap[o] # None /\ rec.id = heap[o].id /\ rec.id \in Approvals
      /\ req[r].w \in Workers /\ cache[req[r].w][rec.id] = o
  BY <1>0, HandlerFacts DEF SInv, Linked
<1>2. heap'[o] = rec /\ \A p \in Objects : p # o => heap'[p] = heap[p]
  <2>1. heap' = [heap EXCEPT ![o] = rec] /\ o \in Objects
    BY <1>0, <1>1, SaveFacts
  <2>2. DOMAIN heap = Objects
    BY <1>0 DEF TypeOK
  <2> QED BY <2>1, <2>2
<1>3. \A p \in Objects : heap[p] # None => heap'[p] # None /\ heap'[p].id = heap[p].id
  BY <1>0, <1>1, SaveLinked
<1>4. \A w \in Workers : w = req[r].w
  BY <1>1 DEF Deployment
<1>5. req'[r] = h /\ \A q \in Requests : q # r => req'[q] = req[q]
  BY <1>0 DEF TypeOK
<1>6. \A b \in Approvals : b # rec.id => ~Sealing(b)
  BY <1>1, OneSeals DEF Sealing, Holding, Entering
<1>7. \A q \in Requests : q # r /\ req'[q].pc \in Active => (heap'[req'[q].obj]).id = Rec(q).id
  BY <1>0, <1>3, <1>5 DEF Linked, Rec
<1>8. ASSUME NEW w \in Workers, NEW b \in Approvals, cache[w][b] # None,
             (heap'[cache[w][b]]).status = "approved"
      PROVE  Sealed(heap[cache[w][b]])' \/ Sealing(b)'
  <2>1. CASE b = rec.id
    <3>1. cache[w][b] = o
      BY <1>1, <1>4, <2>1
    <3>2. CASE Sealed(rec)'
      BY <1>2, <3>1, <3>2 DEF Sealed
    <3>3. CASE req'[r].pc = "approve_seal"
      BY <1>2, <1>5, <2>1, <3>3 DEF Sealing, Rec
    <3> QED BY <1>2, <1>8, <3>1, <3>2, <3>3
  <2>2. CASE b # rec.id
    <3>1. cache[w][b] \in Objects /\ cache[w][b] # o
      <4>1. cache[w][b] \in Objects /\ heap[cache[w][b]].id = b
        BY <1>0, <1>8 DEF TypeOK, Linked
      <4> QED BY <1>1, <2>2, <4>1
    <3>2. heap'[cache[w][b]] = heap[cache[w][b]]
      BY <1>2, <3>1
    <3>3. Sealed(heap[cache[w][b]])
      BY <1>6, <1>8, <2>2, <3>2 DEF GInv
    <3> QED BY <3>2, <3>3 DEF Sealed
  <2> QED BY <2>1, <2>2
<1>9. ASSUME NEW q \in Requests, req'[q].pc = "approve_seal"
      PROVE  [a |-> (heap'[req'[q].obj]).id, x |-> req'[q].x, code |-> req'[q].code] \in decisions'
  <2>1. CASE q = r
    BY <1>2, <1>5, <1>9, <2>1
  <2>2. CASE q # r
    BY <1>5, <1>7, <1>9, <2>2 DEF GInv, Active, Holding, Entering
  <2> QED BY <2>1, <2>2
<1>10. ASSUME NEW b \in rejected'
       PROVE  /\ b \in created /\ ~BeingApproved(b)'
              /\ \A w \in Workers :
                   cache[w][b] # None => (heap'[cache[w][b]]).status \notin {"pending", "approved"}
  <2>1. \A q \in Requests : req'[q].pc = "approve_body" =>
           q # r /\ req[q].pc = "approve_body" /\ Rec(q)'.id = Rec(q).id
    BY <1>5, <1>7 DEF Active, Waiting, Rec
  <2>2. CASE b = rec.id
    <3>1. \A w \in Workers : cache[w][b] = o
      BY <1>1, <1>4, <2>2
    <3>2. b \in created
      <4>1. cache[req[r].w][rec.id] # None
        BY <1>1, NoneAssumption
      <4> QED BY <1>1, <2>2, <4>1 DEF SInv
    <3> QED BY <1>2, <1>10, <2>1, <2>2, <3>1, <3>2 DEF BeingApproved
  <2>3. CASE b # rec.id
    <3>1. b \in rejected /\ b \in Approvals
      BY <1>0, <1>10, <2>3 DEF TypeOK
    <3>2. ASSUME NEW w \in Workers, cache[w][b] # None
          PROVE  (heap'[cache[w][b]]).status \notin {"pending", "approved"}
      <4>1. cache[w][b] \in Objects /\ cache[w][b] # o
        <5>1. cache[w][b] \in Objects /\ heap[cache[w][b]].id = b
          BY <1>0, <3>1, <3>2 DEF TypeOK, Linked
        <5> QED BY <1>1, <2>3, <5>1
      <4> QED BY <1>2, <3>1, <3>2, <4>1 DEF GInv
    <3> QED BY <2>1, <3>1, <3>2 DEF GInv, BeingApproved
  <2> QED BY <2>2, <2>3
<1> HIDE DEF o
<1> QED BY <1>8, <1>9, <1>10 DEF GInv, Rec

\* get_approval finds the object of the dictionary, and at most expires it.
LEMMA GetKeepsGInv ==
    ASSUME Deployment, IInv, SInv, GInv,
           NEW w \in Workers, NEW a \in Approvals, NEW o \in Objects, Get(w, a, o),
           UNCHANGED <<created, decisions, rejected>>,
           \A q \in Requests :
              \/ req'[q] = req[q]
              \/ /\ req[q].pc = "idle" /\ req'[q].pc # "approve_seal"
                 /\ req'[q].pc = "approve_body" =>
                       req'[q].obj = o /\ Checked(Found(w, a, o)).status \in {"pending", "approved"}
    PROVE  GInv'
<1>0. TypeOK /\ Linked /\ Finds(w, a, o) /\ Put(w, a, o, Found(w, a, o))
  BY DEF IInv, Get
<1>1. cache[w][a] = o
  BY <1>0 DEF Finds, SInv, GInv
<1>2. /\ heap[o] \in Record /\ heap[o].id = a /\ Found(w, a, o) = heap[o]
  BY <1>0, <1>1, FindsFacts DEF Found
<1>3. PICK p : p = Checked(heap[o])
  OBVIOUS
<1>4. /\ p.id = a /\ p.by = heap[o].by /\ p.code = heap[o].code
      /\ p.status \in {"pending", "approved"} => p = heap[o]
  BY <1>2, <1>3 DEF Checked, Record
<1>5. heap'[o] = p /\ (\A q \in Objects : q # o => heap'[q] = heap[q]) /\ cache' = cache
  BY <1>0, <1>1, <1>2, <1>3 DEF Put, TypeOK
<1>6. \A q \in Objects : heap[q] # None => heap'[q].id = heap[q].id
  BY <1>2, <1>4, <1>5
<1>7. \A q \in Requests : req[q].pc \in Active => (heap'[req[q].obj]).id = Rec(q).id
  BY <1>0, <1>6 DEF Linked, Rec
<1>8. \A b : Sealing(b) => Sealing(b)'
  <2>1. ASSUME NEW b, NEW q \in Requests, req[q].pc = "approve_seal", Rec(q).id = b
        PROVE  Sealing(b)'
    BY <1>7, <2>1 DEF Sealing, Rec, Active, Holding, Entering
  <2> QED BY <2>1 DEF Sealing
<1>9. ASSUME NEW v \in Workers, NEW b \in Approvals, cache[v][b] # None,
             (heap'[cache[v][b]]).status = "approved"
      PROVE  Sealed(heap[cache[v][b]])' \/ Sealing(b)'
  <2>1. cache[v][b] \in Objects
    BY <1>0, <1>9 DEF TypeOK
  <2>2. heap'[cache[v][b]] = heap[cache[v][b]]
    BY <1>4, <1>5, <1>9, <2>1
  <2>3. Sealed(heap[cache[v][b]]) \/ Sealing(b)
    BY <1>9, <2>2 DEF GInv
  <2> QED BY <1>5, <1>8, <2>2, <2>3 DEF Sealed
<1>10. ASSUME NEW q \in Requests, req'[q].pc = "approve_seal"
       PROVE  [a |-> (heap'[req'[q].obj]).id, x |-> req'[q].x, code |-> req'[q].code] \in decisions
  BY <1>7, <1>10 DEF GInv, Active, Holding, Entering
<1>11. ASSUME NEW b \in rejected
       PROVE  /\ b \in created /\ ~BeingApproved(b)'
              /\ \A v \in Workers :
                   cache[v][b] # None => (heap'[cache[v][b]]).status \notin {"pending", "approved"}
  <2>1. b \in Approvals
    BY <1>0 DEF TypeOK
  <2>2. \A v \in Workers :
           cache[v][b] # None => (heap'[cache[v][b]]).status \notin {"pending", "approved"}
    <3>1. ASSUME NEW v \in Workers, cache[v][b] # None
          PROVE  (heap'[cache[v][b]]).status \notin {"pending", "approved"}
      <4>1. cache[v][b] \in Objects /\ heap[cache[v][b]].status \notin {"pending", "approved"}
        BY <1>0, <2>1, <3>1 DEF TypeOK, GInv
      <4> QED BY <1>4, <1>5, <4>1
    <3> QED BY <3>1
  <2>3. ASSUME NEW q \in Requests, req'[q].pc = "approve_body", (heap'[req'[q].obj]).id = b
        PROVE  FALSE
    <3>1. CASE req'[q] = req[q]
      BY <1>7, <2>3, <3>1 DEF GInv, BeingApproved, Active, Waiting
    <3>2. CASE req'[q] # req[q]
      <4>1. req'[q].obj = o /\ p.status \in {"pending", "approved"}
        BY <1>2, <1>3, <2>3, <3>2
      <4>2. b = a /\ cache[w][b] = o
        BY <1>1, <1>4, <1>5, <2>3, <4>1
      <4> QED BY <1>5, <2>2, <4>1, <4>2, NoneAssumption
    <3> QED BY <3>1, <3>2
  <2> QED BY <2>2, <2>3 DEF GInv, BeingApproved, Rec
<1> QED BY <1>5, <1>9, <1>10, <1>11 DEF GInv, Rec

\* A new approval is pending and no handler knows it.
LEMMA CreateKeepsGInv ==
    ASSUME Deployment, IInv, SInv, GInv,
           NEW w \in Workers, NEW a \in Approvals, NEW o \in Objects, Create(w, a, o)
    PROVE  GInv'
<1> DEFINE rec == [id |-> a, status |-> "pending", by |-> None, code |-> None,
                   execCode |-> None, used |-> FALSE,
                   expires |-> now + DecisionWindow, window |-> None]
<1>0. TypeOK /\ Linked /\ now + DecisionWindow \in Nat
  BY WindowAssumption DEF IInv, TypeOK
<1>1. rec \in Record /\ rec.id = a /\ rec.status = "pending"
  BY <1>0 DEF Record, Status
<1>2. /\ Save(o, rec) /\ Fresh(o) /\ a \notin created /\ created' = created \cup {a}
      /\ cache' = [cache EXCEPT ![w][a] = o] /\ UNCHANGED <<req, decisions, rejected>>
  BY DEF Create
<1> HIDE DEF rec
<1>3. heap'[o] = rec /\ \A p \in Objects : p # o => heap'[p] = heap[p]
  BY <1>0, <1>1, <1>2, SaveFacts DEF TypeOK
<1>4. \A q \in Requests : req[q].pc \in Active => heap'[req[q].obj] = heap[req[q].obj]
  BY <1>0, <1>2, <1>3 DEF Linked, Fresh
<1>5. \A v \in Workers : v = w
  BY DEF Deployment
<1>6. cache'[w][a] = o /\ \A v \in Workers, b \in Approvals : b # a => cache'[v][b] = cache[v][b]
  BY <1>0, <1>2 DEF TypeOK
<1>7. \A v \in Workers, b \in Approvals :
         b # a /\ cache[v][b] # None => heap'[cache[v][b]] = heap[cache[v][b]]
  BY <1>0, <1>2, <1>3 DEF TypeOK, Fresh
<1>8. \A b : Sealing(b) => Sealing(b)'
  BY <1>2, <1>4 DEF Sealing, Rec, Active, Holding, Entering
<1>9. ASSUME NEW v \in Workers, NEW b \in Approvals, cache'[v][b] # None,
             (heap'[cache'[v][b]]).status = "approved"
      PROVE  Sealed(heap[cache[v][b]])' \/ Sealing(b)'
  <2>1. b # a
    BY <1>1, <1>3, <1>5, <1>6, <1>9
  <2>2. cache'[v][b] = cache[v][b] /\ heap'[cache[v][b]] = heap[cache[v][b]]
    BY <1>6, <1>7, <1>9, <2>1
  <2>3. Sealed(heap[cache[v][b]]) \/ Sealing(b)
    BY <1>9, <2>2 DEF GInv
  <2> QED BY <1>2, <1>8, <2>2, <2>3 DEF Sealed
<1>10. \A q \in Requests :
         req'[q].pc = "approve_seal"
            => [a |-> (heap'[req'[q].obj]).id, x |-> req'[q].x, code |-> req'[q].code] \in decisions'
  BY <1>2, <1>4 DEF GInv, Rec, Active, Holding, Entering
<1>11. ASSUME NEW b \in rejected
       PROVE  /\ b \in created' /\ ~BeingApproved(b)'
              /\ \A v \in Workers :
                   cache'[v][b] # None => (heap'[cache'[v][b]]).status \notin {"pending", "approved"}
  <2>1. b \in created /\ b # a /\ b \in Approvals
    BY <1>0, <1>2 DEF GInv, TypeOK
  <2> QED BY <1>2, <1>4, <1>6, <1>7, <2>1 DEF GInv, BeingApproved, Rec, Active, Waiting
<1>12. \A v \in Workers, b \in Approvals : b \in created' => cache'[v][b] # None
  BY <1>2, <1>5, <1>6, NoneAssumption DEF GInv
<1> QED BY <1>2, <1>9, <1>10, <1>11, <1>12 DEF GInv, Rec

\* A step that leaves the records and decisions alone.
LEMMA QuietKeepsGInv ==
    ASSUME GInv, UNCHANGED <<heap, cache, created, decisions, rejected>>,
           \A q \in Requests :
              \/ req'[q] = req[q]
              \/ /\ req[q].pc # "approve_seal"
                 /\ req'[q].pc \notin {"approve_seal", "approve_body"}
    PROVE  GInv'
<1>1. \A b : Sealing(b) => Sealing(b)'
  BY DEF Sealing, Rec
<1>2. \A w \in Workers, a \in Approvals :
         cache[w][a] # None /\ heap[cache[w][a]].status = "approved"
            => Sealed(heap[cache[w][a]])' \/ Sealing(a)'
  BY <1>1 DEF GInv, Sealed
<1>3. \A b : BeingApproved(b)' => BeingApproved(b)
  BY DEF BeingApproved, Rec
<1>4. \A q \in Requests :
         req'[q].pc = "approve_seal"
            => [a |-> Rec(q).id, x |-> req[q].x, code |-> req[q].code] \in decisions /\ req'[q] = req[q]
  BY DEF GInv
<1> QED BY <1>2, <1>3, <1>4 DEF GInv, Rec

spent == {[a |-> m.a, x |-> m.x, code |-> m.code] : m \in runs}
GrantStep == [Grant!Next]_<<decisions, spent>>
RejectionStep == \A m \in runs' \ runs : m.a \notin rejected

\* The record /execute finds approved names a decision of the actor who calls, made with
\* another code, and the token is there for the first time.
LEMMA LockIsSpend ==
    ASSUME Deployment, IInv, SInv, GInv, NEW r \in Requests, NEW c \in Codes, ExecuteLock(r, c)
    PROVE  GInv' /\ GrantStep /\ RejectionStep
<1> DEFINE a == Rec(r).id
           m == [r |-> r, a |-> a, x |-> req[r].x, code |-> c]
           s == [a |-> a, x |-> req[r].x, code |-> c]
<1>0. TypeOK /\ Linked
  BY DEF IInv
<1>1. /\ req[r].pc \in Active /\ req[r].pc = "execute_body" /\ loop[req[r].w] \in {None, r}
      /\ Rec(r).status = "approved" /\ Rec(r).by \in {None, req[r].x} /\ c # Rec(r).code
  BY DEF ExecuteLock, MayExecute, Runs, Active, Waiting
<1>2. /\ Rec(r) \in Record /\ a \in Approvals /\ req[r].x \in Actors /\ req[r].w \in Workers
      /\ Rec(r) = heap[req[r].obj] /\ cache[req[r].w][a] = req[r].obj /\ req[r].obj # None
  BY <1>0, <1>1, HandlerFacts, NoneAssumption DEF SInv
<1>3. /\ runs' = runs \cup {m} /\ ~Sunk(db[a])
      /\ UNCHANGED <<heap, cache, created, decisions, rejected>>
  BY DEF ExecuteLock, Sunk
<1>4. GInv'
  <2>1. \A q \in Requests : q # r => req'[q] = req[q]
    BY <1>0 DEF ExecuteLock, TypeOK
  <2>2. req'[r].pc = "execute_mark"
    BY <1>0 DEF ExecuteLock, TypeOK, Handler
  <2>3. \A q \in Requests :
           \/ req'[q] = req[q]
           \/ /\ req[q].pc # "approve_seal"
              /\ req'[q].pc \notin {"approve_seal", "approve_body"}
    BY <1>1, <2>1, <2>2
  <2> QED BY <1>3, <2>3, QuietKeepsGInv
<1>5. Sealed(Rec(r))
  <2>1. ~Sealing(a)
    BY <1>1, OneSeals DEF Sealing, Holding, Entering
  <2> QED BY <1>1, <1>2, <2>1 DEF GInv
<1>6. \E d \in decisions : d.a = a /\ d.x = req[r].x /\ d.code # c
  <2>1. PICK d \in decisions : d = [a |-> a, x |-> Rec(r).by, code |-> Rec(r).code]
    BY <1>5 DEF Sealed
  <2>2. d.a = a /\ d.x = Rec(r).by /\ d.code = Rec(r).code /\ d.x \in Actors
    BY <1>0, <2>1 DEF TypeOK
  <2>3. d.x = req[r].x
    BY <1>1, <2>2, NoneAssumption
  <2> QED BY <1>1, <2>2, <2>3
<1>7. \A t \in spent : t.a # a
  <2>1. ~RanOn(a)
    BY <1>2, <1>3 DEF SInv
  <2> HIDE DEF a
  <2> QED BY <2>1 DEF RanOn, spent
<1>8. spent' = spent \cup {s}
  <2>1. \A n \in runs' : n \in runs \/ n = m
    BY <1>3
  <2>2. [a |-> m.a, x |-> m.x, code |-> m.code] = s /\ m \in runs' /\ runs \subseteq runs'
    BY <1>3
  <2> HIDE DEF m, s
  <2>3. ASSUME NEW t \in spent' PROVE t \in spent \cup {s}
    BY <2>1, <2>2, <2>3 DEF spent
  <2>4. ASSUME NEW t \in spent \cup {s} PROVE t \in spent'
    BY <2>2, <2>4 DEF spent
  <2> QED BY <2>3, <2>4
<1>9. GrantStep
  <2>1. Grant!Spend(a, req[r].x, c)
    BY <1>3, <1>6, <1>7, <1>8 DEF Grant!Spend, spent
  <2> QED BY <1>2, <2>1 DEF GrantStep, Grant!Next
<1>10. RejectionStep
  <2>1. a \notin rejected
    BY <1>1, <1>2 DEF GInv
  <2> QED BY <1>3, <2>1 DEF RejectionStep
<1> QED BY <1>4, <1>9, <1>10

\* A step that neither decides nor executes stutters in the abstract specification.
LEMMA QuietGrant == ASSUME UNCHANGED <<decisions, runs>> PROVE GrantStep /\ RejectionStep
BY DEF GrantStep, RejectionStep, spent

LEMMA HandlerStepGInv ==
    ASSUME Deployment, IInv, SInv, GInv, NEW r \in Requests, HandlerStep(r)
    PROVE  GInv' /\ GrantStep /\ RejectionStep
<1>0. TypeOK /\ Gone \in Handler /\ Gone.pc = "done"
  BY DEF IInv, Gone, Handle, Handler
<1>00. req[r].pc \in Active =>
          /\ req[r].w \in Workers /\ req[r].x \in Actors /\ req[r].obj # None
          /\ Rec(r) \in Record /\ Rec(r).id \in Approvals /\ Rec(r) = heap[req[r].obj]
          /\ cache[req[r].w][Rec(r).id] = req[r].obj
  BY HandlerFacts, NoneAssumption DEF IInv, SInv
<1>1. ASSUME NEW w \in Workers, NEW a \in Approvals, NEW x \in Actors, NEW o \in Objects,
             NEW pc \in Waiting, Begin(r, pc, w, a, x, o)
      PROVE  GInv' /\ GrantStep /\ RejectionStep
  <2>1. PICK h : h = Handle(pc, w, x, o, None)
    OBVIOUS
  <2>2. h.pc = pc /\ h.obj = o /\ pc # "approve_seal"
    BY <2>1 DEF Handle, Waiting
  <2>3. \/ req' = [req EXCEPT ![r] = Gone]
        \/ /\ req' = [req EXCEPT ![r] = h]
           /\ pc = "approve_body" => Checked(Found(w, a, o)).status \in {"pending", "approved"}
    BY <1>1, <2>1 DEF Begin
  <2>4. req[r].pc = "idle" /\ Get(w, a, o) /\ UNCHANGED <<created, decisions, runs, rejected>>
    BY <1>1 DEF Begin
  <2>5. \A q \in Requests :
           \/ req'[q] = req[q]
           \/ /\ req[q].pc = "idle" /\ req'[q].pc # "approve_seal"
              /\ req'[q].pc = "approve_body" =>
                    req'[q].obj = o /\ Checked(Found(w, a, o)).status \in {"pending", "approved"}
    <3>1. ASSUME NEW q \in Requests, q # r PROVE req'[q] = req[q]
      BY <1>0, <2>3, <3>1 DEF TypeOK
    <3>2. \/ req'[r] = Gone
          \/ /\ req'[r] = h
             /\ pc = "approve_body" => Checked(Found(w, a, o)).status \in {"pending", "approved"}
      BY <1>0, <2>3 DEF TypeOK
    <3> QED BY <1>0, <2>2, <2>4, <3>1, <3>2
  <2> QED BY <2>4, <2>5, GetKeepsGInv, QuietGrant
<1>2. CASE Refuse(r)
  <2>1. \A q \in Requests :
           \/ req'[q] = req[q]
           \/ /\ req[q].pc # "approve_seal"
              /\ req'[q].pc \notin {"approve_seal", "approve_body"}
    BY <1>0, <1>2 DEF Refuse, Finish, TypeOK, Waiting
  <2> QED BY <1>2, <2>1, QuietKeepsGInv, QuietGrant DEF Refuse
<1>3. ASSUME NEW c \in Codes \cup {None}, ApproveMark(r, c)
      PROVE  GInv' /\ GrantStep /\ RejectionStep
  <2> DEFINE rec == [Rec(r) EXCEPT !.status = "approved"]
             h == [req[r] EXCEPT !.pc = "approve_seal", !.code = c]
             d == [a |-> Rec(r).id, x |-> req[r].x, code |-> c]
  <2>1. /\ req[r].pc \in Active /\ req[r].pc = "approve_body" /\ loop[req[r].w] \in {None, r}
    BY <1>3 DEF ApproveMark, Runs, Active, Waiting
  <2>2. rec \in Record /\ rec.id = Rec(r).id
    BY <1>00, <2>1 DEF Record, Status
  <2>3. /\ h \in Handler /\ h.pc = "approve_seal" /\ h.x = req[r].x /\ h.obj = req[r].obj
        /\ h.code = c
    BY <1>0 DEF TypeOK, Handler, Holding, Entering
  <2>4. /\ Save(req[r].obj, rec) /\ req' = [req EXCEPT ![r] = h] /\ req'[r] = h
        /\ decisions' = decisions \cup {d} /\ UNCHANGED <<cache, created, runs, rejected>>
    BY <1>0, <1>3 DEF ApproveMark, TypeOK
  <2>5. Rec(r).id \notin rejected
    BY <1>00, <2>1 DEF GInv, BeingApproved
  <2>6. Grant!Decide(Rec(r).id, req[r].x, c)
    BY <2>4 DEF Grant!Decide, spent
  <2>7. GrantStep
    BY <1>00, <2>1, <2>6 DEF GrantStep, Grant!Next
  <2>8. RejectionStep
    BY <2>4 DEF RejectionStep
  <2>9. [a |-> rec.id, x |-> h.x, code |-> h.code] \in decisions' /\ decisions \subseteq decisions'
    BY <2>2, <2>3, <2>4
  <2> HIDE DEF rec, h, d
  <2>10. GInv'
    <3>1. /\ rec.status = "approved" => req'[r].pc = "approve_seal"
          /\ h.pc # "approve_body" /\ rejected' \subseteq rejected \cup {rec.id} /\ rec.id \notin rejected'
      BY <2>2, <2>3, <2>4, <2>5
    <3>2. UNCHANGED <<cache, created>>
      BY <2>4
    <3> QED BY <2>1, <2>2, <2>3, <2>4, <2>9, <3>1, <3>2, AssignKeepsGInv
  <2> QED BY <2>7, <2>8, <2>10
<1>4. CASE ApproveSeal(r)
  <2>0. PICK rec : rec = [Rec(r) EXCEPT !.by = req[r].x, !.code = req[r].code,
                                        !.window = now + ExecutionWindow]
    OBVIOUS
  <2>1. req[r].pc \in Active /\ req[r].pc = "approve_seal" /\ loop[req[r].w] \in {None, r}
    BY <1>4 DEF ApproveSeal, Runs, Active, Holding, Entering
  <2>2. /\ rec \in Record /\ rec.id = Rec(r).id /\ rec.status = Rec(r).status
        /\ rec.by = req[r].x /\ rec.code = req[r].code
    <3>1. now + ExecutionWindow \in Nat
      BY <1>0, WindowAssumption DEF TypeOK
    <3> QED BY <1>00, <2>0, <2>1, <3>1, HandlerFacts DEF IInv, Record
  <2>3. /\ Save(req[r].obj, rec) /\ req' = [req EXCEPT ![r] = Gone]
        /\ UNCHANGED <<cache, created, decisions, runs, rejected>>
    BY <1>4, <2>0 DEF ApproveSeal, Finish
  <2>4. Sealed(rec)'
    BY <2>1, <2>2, <2>3 DEF GInv, Sealed
  <2>5. rec.id \in rejected => rec.status \notin {"pending", "approved"}
                               /\ ~BeingApproved(rec.id)
    BY <1>00, <2>1, <2>2 DEF GInv
  <2>6. GInv'
    BY <1>0, <2>1, <2>2, <2>3, <2>4, <2>5, AssignKeepsGInv DEF BeingApproved
  <2> QED BY <2>3, <2>6, QuietGrant
<1>5. CASE RejectFinish(r)
  <2> DEFINE rec == [Rec(r) EXCEPT !.status = "rejected"]
  <2>1. /\ req[r].pc \in Active /\ req[r].pc = "reject_body" /\ loop[req[r].w] \in {None, r}
    BY <1>5 DEF RejectFinish, Runs, Active, Waiting
  <2>2. rec \in Record /\ rec.id = Rec(r).id /\ rec.status = "rejected"
    BY <1>00, <2>1 DEF Record, Status
  <2>3. /\ Save(req[r].obj, rec) /\ req' = [req EXCEPT ![r] = Gone]
        /\ rejected' = rejected \cup {a \in {rec.id} : ~BeingApproved(a)}
        /\ UNCHANGED <<cache, created, decisions, runs>>
    BY <1>5, <2>2 DEF RejectFinish, Finish
  <2> HIDE DEF rec
  <2>4. rejected' \subseteq rejected \cup {rec.id}
    BY <2>3
  <2>5. rec.id \in rejected' => ~BeingApproved(rec.id)
    BY <2>3 DEF GInv
  <2>6. GInv'
    BY <1>0, <2>1, <2>2, <2>3, <2>4, <2>5, AssignKeepsGInv DEF BeingApproved
  <2> QED BY <2>3, <2>6, QuietGrant
<1>6. CASE ExecuteLapse(r)
  <2> DEFINE rec == [Rec(r) EXCEPT !.status = "expired"]
  <2>1. /\ req[r].pc \in Active /\ loop[req[r].w] \in {None, r}
    BY <1>6 DEF ExecuteLapse, MayExecute, Runs, Active, Waiting
  <2>2. rec \in Record /\ rec.id = Rec(r).id /\ rec.status = "expired"
    BY <1>00, <2>1 DEF Record, Status
  <2>3. /\ Save(req[r].obj, rec) /\ req' = [req EXCEPT ![r] = Gone]
        /\ UNCHANGED <<cache, created, decisions, runs, rejected>>
    BY <1>6 DEF ExecuteLapse, Finish
  <2> HIDE DEF rec
  <2>4. rec.id \in rejected => ~BeingApproved(rec.id)
    BY DEF GInv
  <2>5. GInv'
    BY <1>0, <2>1, <2>2, <2>3, <2>4, AssignKeepsGInv DEF BeingApproved
  <2> QED BY <2>3, <2>5, QuietGrant
<1>7. ASSUME NEW c \in Codes, ExecuteLock(r, c) PROVE GInv' /\ GrantStep /\ RejectionStep
  BY <1>7, LockIsSpend
<1>8. CASE Enters(r)
  <2>1. PICK rec \in Record, h \in Handler :
           /\ req[r].pc \in Entering /\ Runs(r, req[r].pc)
           /\ Save(req[r].obj, rec) /\ req' = [req EXCEPT ![r] = h]
           /\ UNCHANGED <<cache, created, decisions, runs, rejected>>
           /\ rec.id = Rec(r).id
           /\ rec.status = IF req[r].pc = "execute_mark" THEN "executing" ELSE Rec(r).status
           /\ h.pc = CASE req[r].pc = "execute_mark" -> "execute_count"
                       [] req[r].pc = "execute_count" -> "execute_enter"
                       [] req[r].pc = "execute_enter" -> "execute_run"
    BY <1>0, <1>8, EntryFacts DEF IInv
  <2>2. req[r].pc \in {"execute_mark", "execute_count", "execute_enter"}
        /\ req[r].pc \in Active /\ loop[req[r].w] \in {None, r}
    BY <2>1 DEF Entering, Active, Holding, Runs
  <2>3. h.pc \in {"execute_count", "execute_enter", "execute_run"} /\ rec.status = "executing"
    BY <2>1, <2>2 DEF SInv, Stage
  <2>4. rec.id \in rejected => ~BeingApproved(rec.id)
    BY DEF GInv
  <2>5. GInv'
    BY <2>1, <2>2, <2>3, <2>4, AssignKeepsGInv DEF BeingApproved
  <2> QED BY <2>1, <2>5, QuietGrant
<1>9. ASSUME NEW outcome \in {"executed", "execution_failed"}, ExecuteEnd(r, outcome)
      PROVE  GInv' /\ GrantStep /\ RejectionStep
  <2> DEFINE rec == [Rec(r) EXCEPT !.status = outcome]
  <2>1. req[r].pc \in Active /\ loop[req[r].w] \in {None, r}
    BY <1>9 DEF ExecuteEnd, Runs, Active, Holding, Entering
  <2>2. rec \in Record /\ rec.id = Rec(r).id /\ rec.status = outcome
    BY <1>00, <2>1 DEF Record, Status
  <2>3. /\ Save(req[r].obj, rec) /\ req' = [req EXCEPT ![r] = Gone]
        /\ UNCHANGED <<cache, created, decisions, runs, rejected>>
    BY <1>9 DEF ExecuteEnd, Finish
  <2> HIDE DEF rec
  <2>4. rec.id \in rejected => ~BeingApproved(rec.id)
    BY DEF GInv
  <2>5. GInv'
    BY <1>0, <2>1, <2>2, <2>3, <2>4, AssignKeepsGInv DEF BeingApproved
  <2> QED BY <2>3, <2>5, QuietGrant
<1> QED BY <1>1, <1>2, <1>3, <1>4, <1>5, <1>6, <1>7, <1>8, <1>9 DEF HandlerStep, Enters

LEMMA StepGInv ==
    ASSUME Steady, IInv, SInv, GInv, [Next]_vars
    PROVE  GInv' /\ GrantStep /\ RejectionStep
<1>0. Deployment
  BY DEF Steady
<1>1. ASSUME NEW w \in Workers, NEW a \in Approvals, NEW o \in Objects, Look(w, a, o)
      PROVE  GInv' /\ GrantStep /\ RejectionStep
  BY <1>0, <1>1, GetKeepsGInv, QuietGrant DEF Look
<1>2. ASSUME NEW w \in Workers, NEW a \in Approvals, NEW o \in Objects, ThreadStep(w, a, o)
      PROVE  GInv' /\ GrantStep /\ RejectionStep
  <2>1. ~InstallRow(w, a, o) /\ ~ForceExpire(w, a, o)
    BY <1>0 DEF InstallRow, ForceExpire, SInv, Deployment
  <2>2. Create(w, a, o) => UNCHANGED <<decisions, runs>>
    BY DEF Create
  <2> QED BY <1>0, <1>1, <1>2, <2>1, <2>2, CreateKeepsGInv, QuietGrant DEF ThreadStep
<1>3. \A w \in Workers : ~Crash(w) /\ \A a \in Approvals : ~ReadRow(w, a)
  BY DEF Crash, ReadRow, Steady, Deployment
<1>4. CASE Tick \/ UNCHANGED vars
  <2>1. UNCHANGED <<heap, cache, created, decisions, rejected, req, runs>>
    BY <1>4 DEF Tick, vars
  <2> QED BY <2>1, QuietKeepsGInv, QuietGrant
<1> QED BY <1>0, <1>2, <1>3, <1>4, HandlerStepGInv DEF Next

LEMMA InitGInv == Init => GInv
BY DEF Init, GInv, Handle

LEMMA GrantInvariance ==
    ASSUME Steady PROVE Spec => [](IInv /\ SInv /\ GInv)
<1>1. Steady => Deployment
  BY DEF Steady
<1>2. GInv /\ IInv /\ SInv /\ [Next]_vars => GInv'
  BY StepGInv
<1> QED BY <1>1, <1>2, InitGInv, SingleUseInvariance, PTL DEF Spec

\* One process that does not die and lists nothing implements ExecutionGrant, even when it
\* loses writes: only the actor whose decision the record names executes it, once, and with
\* another code than the one of the decision (main.py, execute_request).
THEOREM GrantHolds == ASSUME Steady PROVE Spec => GrantSpec
<1>1. Init => Grant!Init
  BY DEF Init, Grant!Init
<1>2. IInv /\ SInv /\ GInv /\ [Next]_vars => GrantStep
  BY StepGInv
<1> QED BY <1>1, <1>2, GrantInvariance, PTL DEF Spec, GrantSpec, Grant!Spec, GrantStep, spent

\* In that deployment a rejected approval is not executed, unless an /approve call had looked
\* at its status before the rejection (tests/test_hitl_workflow.py).
THEOREM RejectedNeverExecutesHolds == ASSUME Steady PROVE Spec => RejectedNeverExecutes
<1>1. IInv /\ SInv /\ GInv /\ [Next]_vars => [\A m \in runs' \ runs : m.a \notin rejected]_vars
  BY StepGInv DEF RejectionStep
<1> QED BY <1>1, GrantInvariance, PTL DEF Spec, RejectedNeverExecutes
=============================================================================
