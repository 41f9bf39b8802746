---------------------------- MODULE SignInProofs ----------------------------
(***************************************************************************)
(* Theorems about the parts of MCSignIn, for every value of its constants. *)
(* A step of the sum is a step of one part, and leaves the variables of    *)
(* the others alone.                                                       *)
(***************************************************************************)
EXTENDS MCSignIn, TLAPS

(***************************************************************************)
(* Signing in.                                                             *)
(***************************************************************************)

\* Where a call may be, by what it does, and what it knows there.
Fits(k) ==
    /\ k.pc = "session" => k.op \in {"login", "mfaRequest"}
    /\ k.pc = "code" => k.op = "verify"
    /\ k.pc = "issue" => k.op \in {"login", "verify", "oidc"}
    /\ k.pc = "rotate" => k.op = "mfaConfirm"
    /\ k.pc = "close" => k.op \in {"verify", "mfaConfirm"}
    /\ k.pc = "insert" => k.op = "request"
    /\ k.pc \in {"sweep", "commit"} => k.op = "reset"
    /\ k.pc \in {"exchange", "upsert", "mark"} => k.op = "oidc"
    /\ k.op = "login" => k.of = None
    /\ k.op \in {"verify", "reset", "oidc"} => k.of \in Calls
    /\ k.pc \in {"session", "code", "issue", "rotate", "close", "insert", "sweep", "commit", "mark"} =>
          k.user \in Users
    /\ k.pc \in {"session", "code", "issue", "mark"} => k.password \in Session!Versions

\* Calls that run at the same time are known to have.
Beside == \A c, d \in Calls : c # d /\ Session!Running(c) /\ Session!Running(d) => {c, d} \in beside

CallsInv == Session!TypeOK /\ (\A c \in Calls : Fits(call[c])) /\ Beside

\* The calls that use a row, and those the row was made by: a row tells what uses it.
Using == {"verify", "mfaConfirm", "reset", "oidc"}
Origin(op) == IF op \in {"verify", "mfaConfirm"} THEN {"login", "mfaRequest"}
              ELSE IF op = "reset" THEN {"request"} ELSE {"authorize"}
MadeBy(o, ops) == o \in Calls /\ Session!At(o, "done") /\ call[o].op \in ops
Made == /\ \A s \in sessions : MadeBy(s.id, Origin("verify"))
        /\ \A r \in resets : MadeBy(r.id, Origin("reset"))
        /\ \A s \in states : MadeBy(s.id, Origin("oidc"))
        /\ \A c \in Calls : call[c].op \in Using /\ call[c].of # None =>
              MadeBy(call[c].of, Origin(call[c].op))

\* No call can start with the row any more.
Closed(op, o) ==
    /\ op \in {"verify", "mfaConfirm"} => \A s \in sessions : s.id # o
    /\ op = "reset" => \A r \in resets : r.id = o => r.used
    /\ op = "oidc" => \A s \in states : s.id = o => s.used

\* A use is of a call that has gone on from it; when that call ends the row is closed.
Used == /\ \A a \in uses : /\ a.of = call[a.call].of /\ call[a.call].op \in Using
                           /\ call[a.call].pc \in {"close", "done", "dead"}
                           /\ Session!At(a.call, "done") => Closed(call[a.call].op, a.of)
        /\ \A c \in Calls : Session!At(c, "issue") /\ call[c].op = "oidc" => Closed("oidc", call[c].of)

\* A call that is under way with a row has run beside every other that has used it.
Overlaps == \A c \in Calls, a \in uses :
    Session!Running(c) /\ call[c].op \in Using /\ a.of = call[c].of /\ a.call # c =>
        {a.call, c} \in beside \/ Session!At(a.call, "dead")

OnceInv == CallsInv /\ Made /\ Used /\ Overlaps /\ Session!UsedOnce

\* A call that has checked a password that is no longer the user's ran beside the reset; so did
\* one whose refresh token a reset that is about to commit has not seen.
Current(u) == users[u].password
Checked == \A c \in Calls : Session!At(c, "issue") /\ call[c].op = "login" =>
    call[c].password = Current(call[c].user) \/ {c, Current(call[c].user)} \in beside
Swept == \A d \in Calls, t \in tokens :
    Session!At(d, "commit") /\ t.user = call[d].user /\ t.id \notin call[d].seen => {t.id, d} \in beside

ResetInv == CallsInv /\ Checked /\ Swept /\ Session!ResetSignsOut
LEMMA SessionInit == PartsAssumption /\ Session!Init => OnceInv /\ ResetInv
<1> SUFFICES ASSUME PartsAssumption, Session!Init PROVE OnceInv /\ ResetInv
  OBVIOUS
<1>1. /\ Session!NewCall \in Session!CallRecord /\ Session!NewCall.pc = "new"
      /\ Session!NewCall.op = "none" /\ Session!NewCall.of = None
  BY DEF Session!NewCall, Session!CallRecord
<1>2. Session!TypeOK
  BY <1>1 DEF Session!Init, Session!TypeOK, Session!UserRow, Session!Versions
<1>3. /\ \A c \in Calls : call[c] = Session!NewCall
      /\ sessions = {} /\ tokens = {} /\ resets = {} /\ states = {} /\ uses = {}
  BY DEF Session!Init
<1>4. CallsInv
  BY <1>1, <1>2, <1>3 DEF CallsInv, Fits, Beside, Session!Running
<1>5. OnceInv
  BY <1>1, <1>3, <1>4 DEF OnceInv, Made, Used, Using, Overlaps, Session!UsedOnce, Session!Running, Session!At
<1>6. ResetInv
  BY <1>1, <1>3, <1>4 DEF ResetInv, Checked, Swept, Session!ResetSignsOut, Session!At
<1> QED BY <1>5, <1>6

\* Of the calls, a step changes one: it begins ...
LEMMA BeginKeepsCalls ==
    ASSUME CallsInv, NEW c \in Calls, NEW k \in Session!CallRecord, Fits(k), Session!Begin(c, k)
    PROVE  /\ call' \in [Calls -> Session!CallRecord] /\ call'[c] = k
           /\ \A d \in Calls : d # c => call'[d] = call[d]
           /\ \A d \in Calls : Fits(call'[d])
           /\ Beside' /\ beside' \subseteq SUBSET Calls /\ beside \subseteq beside'
           /\ \A d \in Calls : Session!Running(d) => {c, d} \in beside'
           /\ ~Session!Running(c) /\ ~Session!At(c, "done") /\ ~Session!At(c, "dead")
<1>1. /\ call' \in [Calls -> Session!CallRecord] /\ call'[c] = k
      /\ \A d \in Calls : d # c => call'[d] = call[d]
  BY DEF CallsInv, Session!TypeOK, Session!Begin
<1>2. \A d \in Calls : Fits(call'[d])
  BY <1>1 DEF CallsInv
<1>3. /\ beside \subseteq beside' /\ \A d \in Calls : Session!Running(d) => {c, d} \in beside'
      /\ beside' \subseteq SUBSET Calls
  BY DEF CallsInv, Session!TypeOK, Session!Begin
<1>4. ~Session!Running(c) /\ ~Session!At(c, "done") /\ ~Session!At(c, "dead")
  BY DEF Session!Begin, Session!Running, Session!At
<1>5. Beside'
  BY <1>1, <1>3 DEF CallsInv, Beside, Session!Running
<1> QED BY <1>1, <1>2, <1>3, <1>4, <1>5

\* ... or goes on.
LEMMA MoveKeepsCalls ==
    ASSUME CallsInv, NEW c \in Calls, NEW k \in Session!CallRecord, Fits(k), Session!Running(c),
           call' = [call EXCEPT ![c] = k], beside' = beside
    PROVE  /\ call' \in [Calls -> Session!CallRecord] /\ call'[c] = k
           /\ \A d \in Calls : d # c => call'[d] = call[d]
           /\ \A d \in Calls : Fits(call'[d])
           /\ Beside' /\ beside' \subseteq SUBSET Calls
<1>1. /\ call' \in [Calls -> Session!CallRecord] /\ call'[c] = k
      /\ \A d \in Calls : d # c => call'[d] = call[d]
  BY DEF CallsInv, Session!TypeOK
<1>2. \A d \in Calls : Fits(call'[d])
  BY <1>1 DEF CallsInv
<1>3. Beside'
  BY <1>1 DEF CallsInv, Beside, Session!Running
<1> QED BY <1>1, <1>2, <1>3 DEF CallsInv, Session!TypeOK

\* A call that begins with a row finds it open; what else begins or goes away changes nothing.
LEMMA BeginKeepsOnce ==
    ASSUME PartsAssumption, OnceInv, NEW c \in Calls, NEW k \in Session!CallRecord, Fits(k),
           Session!Begin(c, k), k.pc # "issue" \/ k.op = "login", k.pc # "dead",
           k.op \in Using /\ k.of # None =>
              MadeBy(k.of, Origin(k.op)) /\ ~Closed(k.op, k.of),
           sessions' \subseteq sessions, resets' \subseteq resets,
           \A s \in states' : s \in states \/ (s.id = c /\ k.op = "authorize" /\ k.pc = "done"),
           uses' = uses, Session!TypeOK'
    PROVE  OnceInv'
<1> USE DEF Session!At
<1>0. /\ call'[c] = k /\ \A d \in Calls : d # c => call'[d] = call[d]
      /\ CallsInv' /\ beside \subseteq beside'
      /\ \A d \in Calls : Session!Running(d) => {c, d} \in beside'
      /\ ~Session!Running(c) /\ ~Session!At(c, "done") /\ ~Session!At(c, "dead")
      /\ None \notin Calls
  BY BeginKeepsCalls DEF OnceInv, CallsInv, PartsAssumption, Session!NoneAssumption
<1>1. \A o, ops : MadeBy(o, ops) => o # c /\ MadeBy(o, ops)'
  BY <1>0 DEF MadeBy
<1>2. \A a \in uses : a.call \in Calls /\ a.of \in Calls /\ a.call # c
  BY <1>0 DEF OnceInv, CallsInv, Session!TypeOK, Used, Session!Begin
<1>3. Made'
  <2>1. \A s \in sessions' : MadeBy(s.id, Origin("verify"))'
    BY <1>1 DEF OnceInv, Made
  <2>2. \A r \in resets' : MadeBy(r.id, Origin("reset"))'
    BY <1>1 DEF OnceInv, Made
  <2>3. \A s \in states' : MadeBy(s.id, Origin("oidc"))'
    BY <1>0, <1>1 DEF OnceInv, Made, MadeBy, Origin
  <2>4. \A d \in Calls : \A o, op : call'[d].op = op /\ call'[d].of = o /\ op \in Using /\ o # None =>
            MadeBy(o, Origin(op))'
    BY <1>0, <1>1 DEF OnceInv, Made
  <2>5. \A d \in Calls : (call[d].op \in Using /\ call[d].of # None =>
            MadeBy(call[d].of, Origin(call[d].op)))'
    BY <2>4
  <2> QED BY <2>1, <2>2, <2>3, <2>5 DEF Made
<1>4. \A op, o : o \in Calls /\ o # c /\ Closed(op, o) => Closed(op, o)'
  BY DEF Closed
<1>5. Used'
  <2>1. ASSUME NEW a \in uses
        PROVE  /\ a.of = call'[a.call].of /\ call'[a.call].op \in Using
               /\ call'[a.call].pc \in {"close", "done", "dead"}
               /\ call'[a.call].pc = "done" => Closed(call[a.call].op, a.of)'
    <3>1. call'[a.call] = call[a.call]
      BY <1>0, <1>2
    <3>2. /\ a.of = call[a.call].of /\ call[a.call].op \in Using
          /\ call[a.call].pc \in {"close", "done", "dead"}
          /\ call[a.call].pc = "done" => Closed(call[a.call].op, a.of)
      BY DEF OnceInv, Used
    <3>3. MadeBy(a.of, Origin(call[a.call].op))
      BY <1>2, <1>0, <3>2 DEF OnceInv, Made
    <3>4. a.of \in Calls /\ a.of # c
      BY <1>1, <3>3 DEF MadeBy
    <3>5. Closed(call[a.call].op, a.of) => Closed(call[a.call].op, a.of)'
      <4> DEFINE op == call[a.call].op
      <4>1. op' = op
        BY <3>1
      <4> HIDE DEF op
      <4> QED BY <1>4, <3>4, <4>1 DEF op
    <3> QED BY <3>1, <3>2, <3>5
  <2>2. ASSUME NEW d \in Calls, call'[d].pc = "issue", call'[d].op = "oidc"
        PROVE  Closed("oidc", call[d].of)'
    <3>1. d # c /\ call'[d] = call[d]
      BY <1>0, <2>2
    <3>2. MadeBy(call[d].of, Origin("oidc")) /\ Closed("oidc", call[d].of)
      BY <1>0, <2>2, <3>1 DEF OnceInv, CallsInv, Fits, Made, Using, Used
    <3>3. call[d].of \in Calls /\ call[d].of # c
      BY <1>1, <3>2 DEF MadeBy
    <3> QED BY <1>4, <3>1, <3>2, <3>3 
  <2> QED BY <2>1, <2>2 DEF Used
<1>6. Overlaps'
  <2> SUFFICES ASSUME NEW d \in Calls, NEW a \in uses, Session!Running(d)', call'[d].op \in Using,
                      a.of = call'[d].of, a.call # d
               PROVE  {a.call, d} \in beside' \/ call'[a.call].pc = "dead"
    BY DEF Overlaps
  <2>1. CASE d # c
    BY <1>0, <1>2, <2>1 DEF OnceInv, Overlaps, Session!Running
  <2>2. CASE d = c
    <3>1. a.of = k.of /\ k.op \in Using /\ k.of # None
      BY <1>0, <1>2, <2>2
    <3>2. call[a.call].op \in Using /\ a.of = call[a.call].of /\ MadeBy(a.of, Origin(call[a.call].op))
      BY <1>2, <1>0 DEF OnceInv, Used, Made
    <3>3. call[a.call].op = k.op \/ {call[a.call].op, k.op} = {"verify", "mfaConfirm"}
      BY <3>1, <3>2 DEF MadeBy, Origin, Using
    <3>4. ~Session!At(a.call, "done")
      BY <3>1, <3>2, <3>3 DEF OnceInv, Used, Closed
    <3>5. Session!Running(a.call) \/ Session!At(a.call, "dead")
      BY <3>4 DEF OnceInv, Used, Session!Running
    <3>6. {a.call, c} = {c, a.call}
      OBVIOUS
    <3> QED BY <1>0, <1>2, <2>2, <3>5, <3>6
  <2> QED BY <2>1, <2>2
<1>7. Session!UsedOnce'
  BY <1>0, <1>2 DEF OnceInv, Session!UsedOnce
<1> QED BY <1>0, <1>3, <1>5, <1>6, <1>7 DEF OnceInv

\* What a call that goes on may do: make a row of its own, close one, note that it has used one.
GoesOn(c, k, used) ==
    /\ Session!Running(c) /\ Fits(k)
    /\ call' = [call EXCEPT ![c] = k] /\ beside' = beside
    /\ k.op = call[c].op /\ k.of = call[c].of
    /\ \A s \in sessions' : s \in sessions \/ (s.id = c /\ k.op \in Origin("verify") /\ k.pc = "done")
    /\ \A r \in resets' : \/ \E q \in resets : q.id = r.id /\ (q.used => r.used)
                          \/ r.id = c /\ k.op = "request" /\ k.pc = "done"
    /\ \A s \in states' : \E q \in states : q.id = s.id /\ (q.used => s.used)
    /\ used \in SUBSET {[call |-> c, of |-> k.of]} /\ uses' = uses \union used
    /\ used # {} => k.op \in Using /\ k.of # None
    /\ \A a \in uses' : a.call = c => k.pc \in {"close", "done", "dead"}
                                       /\ (k.pc = "done" => Closed(k.op, k.of)')
    /\ k.pc = "issue" /\ k.op = "oidc" => Closed(k.op, k.of)'

\* A call that goes on so keeps what the one-time rows and their uses rest on.
LEMMA MoveKeepsOnce ==
    ASSUME PartsAssumption, OnceInv, NEW c \in Calls, NEW k \in Session!CallRecord, NEW used,
           GoesOn(c, k, used), Session!TypeOK'
    PROVE  OnceInv'
<1> USE DEF GoesOn
<1> USE DEF Session!At
<1>0. /\ call'[c] = k /\ \A d \in Calls : d # c => call'[d] = call[d]
      /\ CallsInv' /\ None \notin Calls
  BY MoveKeepsCalls DEF OnceInv, CallsInv, PartsAssumption, Session!NoneAssumption
<1>1. \A o, ops : MadeBy(o, ops) => o # c /\ MadeBy(o, ops)'
  BY <1>0 DEF MadeBy, Session!Running
<1>2. \A a \in uses : a.call \in Calls /\ a.of \in Calls
  BY DEF OnceInv, CallsInv, Session!TypeOK
<1>3. Made'
  <2>1. \A s \in sessions' : MadeBy(s.id, Origin("verify"))'
    BY <1>0, <1>1 DEF OnceInv, Made, MadeBy
  <2>2. \A r \in resets' : MadeBy(r.id, Origin("reset"))'
    <3>1. \A q \in resets : MadeBy(q.id, Origin("reset"))'
      BY <1>1 DEF OnceInv, Made
    <3>2. ASSUME k.op = "request", k.pc = "done" PROVE MadeBy(c, Origin("reset"))'
      BY <1>0, <3>2 DEF MadeBy, Origin
    <3> QED BY <3>1, <3>2
  <2>3. \A s \in states' : MadeBy(s.id, Origin("oidc"))'
    BY <1>1 DEF OnceInv, Made
  <2>4. \A d \in Calls : \A o, op : call'[d].op = op /\ call'[d].of = o /\ op \in Using /\ o # None =>
            MadeBy(o, Origin(op))'
    BY <1>0, <1>1 DEF OnceInv, Made
  <2>5. \A d \in Calls : (call[d].op \in Using /\ call[d].of # None =>
            MadeBy(call[d].of, Origin(call[d].op)))'
    BY <2>4
  <2> QED BY <2>1, <2>2, <2>3, <2>5 DEF Made
<1>4. \A op, o : o \in Calls /\ o # c /\ Closed(op, o) => Closed(op, o)'
  BY DEF Closed
<1>5. ASSUME NEW a \in uses'
      PROVE  a \in uses \/ (a.call = c /\ a.of = k.of /\ k.op \in Using /\ k.of # None)
  OBVIOUS
<1>6. Used'
  <2>1. ASSUME NEW a \in uses'
        PROVE  /\ a.of = call'[a.call].of /\ call'[a.call].op \in Using
               /\ call'[a.call].pc \in {"close", "done", "dead"}
               /\ \A op : call'[a.call].op = op /\ call'[a.call].pc = "done" => Closed(op, a.of)'
    <3>1. CASE a.call = c
      <4>1. a.of = k.of /\ k.op \in Using
        BY <1>5, <3>1 DEF OnceInv, Used
      <4> QED BY <1>0, <3>1, <4>1
    <3>2. CASE a \in uses /\ a.call # c
      <4>1. call'[a.call] = call[a.call]
        BY <1>0, <1>2, <3>2
      <4>2. /\ a.of = call[a.call].of /\ call[a.call].op \in Using
            /\ call[a.call].pc \in {"close", "done", "dead"}
            /\ call[a.call].pc = "done" => Closed(call[a.call].op, a.of)
        BY <3>2 DEF OnceInv, Used
      <4>3. MadeBy(a.of, Origin(call[a.call].op))
        BY <1>2, <1>0, <3>2, <4>2 DEF OnceInv, Made
      <4>4. a.of \in Calls /\ a.of # c
        BY <1>1, <4>3 DEF MadeBy
      <4> QED BY <1>4, <4>1, <4>2, <4>4
    <3> QED BY <1>5, <3>1, <3>2
  <2>2. ASSUME NEW d \in Calls, call'[d].pc = "issue", call'[d].op = "oidc"
        PROVE  Closed("oidc", call[d].of)'
    <3>1. CASE d = c
      BY <1>0, <2>2, <3>1
    <3>2. CASE d # c
      <4>1. call'[d] = call[d]
        BY <1>0, <3>2
      <4>2. MadeBy(call[d].of, Origin("oidc")) /\ Closed("oidc", call[d].of)
        BY <1>0, <2>2, <4>1 DEF OnceInv, CallsInv, Fits, Made, Using, Used
      <4>3. call[d].of \in Calls /\ call[d].of # c
        BY <1>1, <4>2 DEF MadeBy
      <4> QED BY <1>4, <4>1, <4>2, <4>3
    <3> QED BY <3>1, <3>2
  <2> QED BY <2>1, <2>2 DEF Used
<1>7. Overlaps'
  <2> SUFFICES ASSUME NEW d \in Calls, NEW a \in uses', Session!Running(d)', call'[d].op \in Using,
                      a.of = call'[d].of, a.call # d
               PROVE  {a.call, d} \in beside' \/ call'[a.call].pc = "dead"
    BY DEF Overlaps
  <2>1. Session!Running(d) /\ call'[d].op = call[d].op /\ call'[d].of = call[d].of
    BY <1>0 DEF Session!Running
  <2>2. CASE a \in uses
    <3>1. {a.call, d} \in beside \/ call[a.call].pc = "dead"
      BY <2>1, <2>2 DEF OnceInv, Overlaps
    <3> QED BY <1>0, <1>2, <2>2, <3>1 DEF Session!Running
  <2>3. CASE a.call = c
    BY <2>1, <2>3 DEF OnceInv, CallsInv, Beside
  <2> QED BY <1>5, <2>2, <2>3
<1>8. Session!UsedOnce'
  <2> SUFFICES ASSUME NEW a \in uses', NEW b \in uses', a.of = b.of, a.call # b.call
               PROVE  {a.call, b.call} \in beside \/ call'[a.call].pc = "dead" \/ call'[b.call].pc = "dead"
    BY DEF Session!UsedOnce
  <2>0. \A d \in Calls : call[d].pc = "dead" => call'[d].pc = "dead"
    BY <1>0 DEF Session!Running
  <2>1. CASE a \in uses /\ b \in uses
    BY <1>2, <2>0, <2>1 DEF OnceInv, Session!UsedOnce
  <2>2. ASSUME NEW x \in uses, k.op \in Using, x.of = k.of, x.call # c
        PROVE  {x.call, c} \in beside \/ call'[x.call].pc = "dead"
    BY <1>2, <2>0, <2>2 DEF OnceInv, Overlaps
  <2>3. {a.call, b.call} = {b.call, a.call}
    OBVIOUS
  <2>4. CASE a \notin uses
    BY <1>5, <2>2, <2>3, <2>4
  <2>5. CASE b \notin uses
    BY <1>5, <2>2, <2>3, <2>5
  <2> QED BY <2>1, <2>4, <2>5
<1> QED BY <1>0, <1>3, <1>6, <1>7, <1>8 DEF OnceInv

\* Passwords stay, and refresh tokens stay or are revoked.
LEMMA KeepsReset ==
    ASSUME ResetInv, CallsInv', NEW c \in Calls, NEW k, call'[c] = k,
           \A d \in Calls : d # c => call'[d] = call[d],
           \A u \in Users : users'[u].password = users[u].password,
           \A t \in tokens' : \E q \in tokens :
              /\ t.id = q.id /\ t.user = q.user /\ t.password = q.password
              /\ t.under = q.under /\ t.of = q.of /\ (q.revoked => t.revoked),
           k.pc = "issue" /\ k.op = "login" => k.password = users[k.user].password,
           k.pc = "commit" => \A t \in tokens : t.user = k.user => t.id \in k.seen,
           beside \subseteq beside'
    PROVE  ResetInv'
<1> USE DEF Session!At
<1>0. /\ \A t \in tokens : t.user \in Users
      /\ \A d \in Calls : call[d].pc = "issue" => call[d].user \in Users
      /\ \A d \in Calls : call'[d].pc = "issue" => call'[d].user \in Users
  BY DEF ResetInv, CallsInv, Session!TypeOK, Session!TokenRow, Fits
<1>1. Checked'
  <2>1. \A u \in Users : Current(u)' = Current(u)
    BY DEF Current
  <2>2. Checked
    BY DEF ResetInv
  <2>3. ASSUME NEW d \in Calls, call'[d].pc = "issue", call'[d].op = "login"
        PROVE  call'[d].password = users'[call'[d].user].password \/ {d, users'[call'[d].user].password} \in beside'
    <3>1. CASE d = c
      BY <1>0, <2>1, <2>3, <3>1 DEF Current
    <3>2. CASE d # c
      <4>1. call'[d] = call[d] /\ call[d].user \in Users
        BY <1>0, <2>3, <3>2
      <4>2. call[d].password = Current(call[d].user) \/ {d, Current(call[d].user)} \in beside
        BY <2>2, <2>3, <4>1 DEF Checked
      <4> QED
        <5>1. call'[d].password = users[call[d].user].password \/ {d, users[call[d].user].password} \in beside
          BY <4>1, <4>2 DEF Current
        <5>2. users'[call'[d].user].password = users[call[d].user].password
          BY <4>1
        <5> QED BY <5>1, <5>2
    <3> QED BY <3>1, <3>2
  <2> QED BY <2>3 DEF Checked, Current, Session!At
<1>2. Swept'
  <2> SUFFICES ASSUME NEW d \in Calls, NEW t \in tokens', call'[d].pc = "commit",
                      t.user = call'[d].user, t.id \notin call'[d].seen
               PROVE  {t.id, d} \in beside'
    BY DEF Swept
  <2>1. PICK q \in tokens : t.id = q.id /\ t.user = q.user
    OBVIOUS
  <2>2. d # c
    <3>1. ASSUME d = c PROVE FALSE
      <4>1. k.pc = "commit" /\ q.user = k.user /\ q.id \notin k.seen
        BY <2>1, <3>1
      <4> QED BY <4>1
    <3> QED BY <3>1
  <2>3. {q.id, d} \in beside
    BY <2>1, <2>2 DEF ResetInv, Swept
  <2> QED BY <2>1, <2>3
<1>3. Session!ResetSignsOut'
  <2> SUFFICES ASSUME NEW t \in tokens', ~t.revoked, t.password # users'[t.user].password
               PROVE  \/ {t.id, users'[t.user].password} \in beside'
                      \/ t.under = users'[t.user].password /\ t.of # None
    BY DEF Session!ResetSignsOut
  <2>1. PICK q \in tokens :
              /\ t.id = q.id /\ t.user = q.user /\ t.password = q.password
              /\ t.under = q.under /\ t.of = q.of /\ (q.revoked => t.revoked)
    OBVIOUS
  <2>2. users'[t.user].password = users[q.user].password
    BY <1>0, <2>1
  <2> QED BY <2>1, <2>2 DEF ResetInv, Session!ResetSignsOut
<1> QED BY <1>1, <1>2, <1>3 DEF ResetInv

SessionInv == OnceInv /\ ResetInv

\* A call begins: nothing is written yet.
LEMMA BeginKeepsInv ==
    ASSUME PartsAssumption, SessionInv, NEW c \in Calls, NEW k \in Session!CallRecord, Fits(k),
           Session!Begin(c, k), k.pc = "issue" => k.op = "login" /\ k.password = users[k.user].password,
           k.pc \notin {"commit", "dead"},
           k.op \in Using /\ k.of # None => MadeBy(k.of, Origin(k.op)) /\ ~Closed(k.op, k.of),
           UNCHANGED <<users, sessions, tokens, resets, states, spent, uses>>
    PROVE  SessionInv'
<1>1. /\ call'[c] = k /\ \A d \in Calls : d # c => call'[d] = call[d]
      /\ beside \subseteq beside' /\ beside' \subseteq SUBSET Calls
      /\ call' \in [Calls -> Session!CallRecord]
  BY BeginKeepsCalls DEF SessionInv, OnceInv
<1>2. Session!TypeOK'
  BY <1>1 DEF SessionInv, OnceInv, CallsInv, Session!TypeOK
<1>3. OnceInv'
  BY <1>2, BeginKeepsOnce DEF SessionInv
<1>4. ResetInv'
  BY <1>1, <1>3, KeepsReset DEF SessionInv, OnceInv
<1> QED BY <1>3, <1>4 DEF SessionInv

\* A call goes on, and writes nothing but what only matters to others.
LEMMA MoveKeepsInv ==
    ASSUME PartsAssumption, SessionInv, NEW c \in Calls, NEW k \in Session!CallRecord, Fits(k),
           Session!Running(c), call' = [call EXCEPT ![c] = k], k.op = call[c].op, k.of = call[c].of,
           k.pc = "issue" => k.op = "verify",
           k.pc = "commit" => \A t \in tokens : t.user = k.user => t.id \in k.seen,
           call[c].pc = "close" => k.pc = "dead",
           users' \in [Users -> Session!UserRow],
           \A u \in Users : users'[u].password = users[u].password,
           spent' \subseteq Calls \X Session!Codes,
           UNCHANGED <<sessions, tokens, resets, states, uses, beside>>
    PROVE  SessionInv'
<1>1. /\ call'[c] = k /\ \A d \in Calls : d # c => call'[d] = call[d]
      /\ call' \in [Calls -> Session!CallRecord]
  BY MoveKeepsCalls DEF SessionInv, OnceInv
<1>2. Session!TypeOK'
  BY <1>1 DEF SessionInv, OnceInv, CallsInv, Session!TypeOK
<1>3. \A a \in uses : a.call = c => k.pc = "dead"
  BY DEF SessionInv, OnceInv, Used, Session!Running
<1>4. OnceInv'
  <2>1. OnceInv /\ beside' = beside
    BY DEF SessionInv
  <2>2. PICK used : used = {}
    OBVIOUS
  <2>3. /\ used \in SUBSET {[call |-> c, of |-> k.of]} /\ uses' = uses \union used
        /\ used # {} => k.op \in Using /\ k.of # None
        /\ ~(k.pc = "issue" /\ k.op = "oidc")
    BY <2>2
  <2>4. \A a \in uses' : a.call = c => k.pc \in {"close", "done", "dead"}
                                          /\ (k.pc = "done" => Closed(k.op, k.of)')
    BY <1>3
  <2>5. \A s \in sessions' : s \in sessions \/ (s.id = c /\ k.op \in Origin("verify") /\ k.pc = "done")
    OBVIOUS
  <2>6. \A r \in resets' : \/ \E q \in resets : q.id = r.id /\ (q.used => r.used)
                           \/ r.id = c /\ k.op = "request" /\ k.pc = "done"
    OBVIOUS
  <2>7. \A s \in states' : \E q \in states : q.id = s.id /\ (q.used => s.used)
    OBVIOUS
  <2>8. Session!Running(c) /\ Fits(k) /\ call' = [call EXCEPT ![c] = k]
        /\ k.op = call[c].op /\ k.of = call[c].of
    OBVIOUS
  <2>9. GoesOn(c, k, used)
    BY <2>1, <2>3, <2>4, <2>5, <2>6, <2>7, <2>8 DEF GoesOn
  <2> QED BY <1>2, <2>1, <2>9, MoveKeepsOnce
<1>5. ResetInv'
  BY <1>1, <1>4, KeepsReset DEF SessionInv, OnceInv
<1> QED BY <1>4, <1>5 DEF SessionInv

\* The calls that begin: signing in, asking for a reset, coming with a token.
LEMMA BeginsKeepInv ==
    ASSUME PartsAssumption, SessionInv, NEW c \in Calls,
           \/ \E u \in Users : \/ Session!Login(c, u) \/ Session!RequestMfaReset(c, u)
                               \/ Session!RequestReset(c, u)
           \/ Session!VerifyOtp(c) \/ Session!ConfirmMfaReset(c)
           \/ Session!ConfirmReset(c) \/ Session!LoadState(c) \/ Session!Refresh(c)
    PROVE  SessionInv'
<1> USE DEF Session!rows
<1>0. /\ Session!TypeOK /\ Made /\ None \notin Calls /\ None \notin Users
      /\ \A u \in Users : users[u].password \in Session!Versions
  BY DEF SessionInv, OnceInv, CallsInv, PartsAssumption, Session!NoneAssumption, Session!TypeOK,
         Session!UserRow
<1>1. ASSUME NEW op \in {"login", "mfaRequest", "mfaConfirm", "reset", "oidc", "refresh"},
             NEW u \in Users \union {None}, NEW r \in Calls \union {None},
             NEW pc \in {"session", "issue", "rotate", "sweep", "exchange", "done"},
             Session!Start(c, op, u, r, pc), UNCHANGED <<Session!rows, uses>>,
             pc = "session" => op \in {"login", "mfaRequest"},
             pc = "issue" => op = "login", pc = "rotate" => op = "mfaConfirm",
             pc = "sweep" => op = "reset", pc = "exchange" => op = "oidc",
             op = "login" => r = None, op \in {"reset", "oidc"} => r # None,
             pc \notin {"exchange", "done"} => u # None,
             op \in Using /\ r # None => MadeBy(r, Origin(op)) /\ ~Closed(op, r)
      PROVE  SessionInv'
  <2> DEFINE k == [Session!NewCall EXCEPT !.op = op, !.pc = pc, !.user = u, !.of = r,
                       !.password = IF u = None THEN None ELSE users[u].password]
  <2>1. /\ k.op = op /\ k.pc = pc /\ k.user = u /\ k.of = r
        /\ k.password = IF u = None THEN None ELSE users[u].password
        /\ k \in Session!CallRecord
    <3>1. PICK w : w = IF u = None THEN None ELSE users[u].password
      OBVIOUS
    <3>2. w \in Session!Versions \union {None}
      BY <1>0, <3>1
    <3>3. PICK n : n = Session!NewCall
      OBVIOUS
    <3>4. n \in Session!CallRecord
      BY <3>3 DEF Session!NewCall, Session!CallRecord
    <3>5. PICK x : x = [n EXCEPT !.op = op, !.pc = pc]
      OBVIOUS
    <3>6. x \in Session!CallRecord /\ x.op = op /\ x.pc = pc
      BY <3>4, <3>5 DEF Session!CallRecord
    <3>7. PICK y : y = [x EXCEPT !.user = u, !.of = r]
      OBVIOUS
    <3>8. /\ y \in Session!CallRecord /\ y.op = op /\ y.pc = pc
          /\ y.user = u /\ y.of = r
      BY <3>6, <3>7 DEF Session!CallRecord
    <3>9. k = [y EXCEPT !.password = w]
      BY <3>1, <3>3, <3>5, <3>7
    <3> HIDE DEF k
    <3>10. k \in Session!CallRecord /\ k.password = w /\ k.op = op /\ k.pc = pc /\ k.user = u /\ k.of = r
      BY <3>2, <3>8, <3>9 DEF Session!CallRecord
    <3> QED BY <3>1, <3>10
  <2>2. Session!Begin(c, k)
    BY <1>1 DEF Session!Start
  <2> HIDE DEF k
  <2>3. Fits(k)
    BY <1>0, <1>1, <2>1 DEF Fits
  <2> QED BY <1>0, <1>1, <2>1, <2>2, <2>3, BeginKeepsInv
<1>2. ASSUME NEW op \in {"verify", "mfaConfirm"}, NEW step, NEW pc \in {"code", "rotate"},
             (op = "verify") <=> (pc = "code"), Session!Load(c, op, step, pc)
      PROVE  SessionInv'
  <2>1. PICK s \in sessions :
           /\ Session!Begin(c, [Session!NewCall EXCEPT !.op = op, !.pc = pc, !.user = s.user, !.of = s.id,
                                    !.password = s.password])
           /\ UNCHANGED <<Session!rows, uses>>
    BY <1>2 DEF Session!Load
  <2> DEFINE k == [Session!NewCall EXCEPT !.op = op, !.pc = pc, !.user = s.user, !.of = s.id,
                                    !.password = s.password]
  <2>2. s.id \in Calls /\ s.user \in Users /\ s.password \in Session!Versions
    BY <1>0 DEF Session!TypeOK, Session!SessionRow
  <2>3. /\ k.op = op /\ k.pc = pc /\ k.user = s.user /\ k.of = s.id /\ k.password = s.password
        /\ k \in Session!CallRecord
    BY <2>2 DEF Session!NewCall, Session!CallRecord
  <2>4. MadeBy(s.id, Origin(op)) /\ ~Closed(op, s.id)
    BY <1>0 DEF Made, Origin, Closed
  <2>5. Session!Begin(c, k)
    BY <2>1
  <2> HIDE DEF k
  <2>6. Fits(k)
    BY <1>2, <2>2, <2>3 DEF Fits
  <2> QED BY <1>2, <2>1, <2>3, <2>4, <2>5, <2>6, BeginKeepsInv
<1>3. ASSUME NEW u \in Users, Session!Login(c, u) PROVE SessionInv'
  BY <1>0, <1>1, <1>3 DEF Session!Login, Using
<1>4. ASSUME NEW u \in Users, Session!RequestMfaReset(c, u) PROVE SessionInv'
  BY <1>0, <1>1, <1>4 DEF Session!RequestMfaReset, Using
<1>5. ASSUME NEW u \in Users, Session!RequestReset(c, u) PROVE SessionInv'
  <2> DEFINE k == [Session!NewCall EXCEPT !.op = "request", !.pc = "insert", !.user = u,
                    !.seen = {r.id : r \in {x \in resets : x.user = u /\ ~x.used}}]
  <2>1. {r.id : r \in {x \in resets : x.user = u /\ ~x.used}} \subseteq Calls
    BY <1>0 DEF Session!TypeOK, Session!ResetRow
  <2>2. /\ k.op = "request" /\ k.pc = "insert" /\ k.user = u /\ k.of = None
        /\ k \in Session!CallRecord
    BY <2>1 DEF Session!NewCall, Session!CallRecord
  <2>3. Session!Begin(c, k) /\ UNCHANGED <<Session!rows, uses>>
    BY <1>5 DEF Session!RequestReset
  <2> HIDE DEF k
  <2>4. Fits(k)
    BY <2>2 DEF Fits
  <2> QED BY <2>2, <2>3, <2>4, BeginKeepsInv
<1>6. CASE Session!VerifyOtp(c)
  BY <1>2, <1>6 DEF Session!VerifyOtp
<1>7. CASE Session!ConfirmMfaReset(c)
  <2>1. CASE Session!Load(c, "mfaConfirm", "mfa_reset", "rotate")
    BY <1>2, <2>1
  <2>2. ASSUME NEW u \in Users, Session!Start(c, "mfaConfirm", u, None, "rotate"),
               UNCHANGED <<Session!rows, uses>>
        PROVE  SessionInv'
    BY <1>0, <1>1, <2>2 DEF Using
  <2> QED BY <1>7, <2>1, <2>2 DEF Session!ConfirmMfaReset
<1>8. CASE Session!ConfirmReset(c)
  <2>1. PICK r \in resets : /\ ~r.used /\ Session!Start(c, "reset", r.user, r.id, "sweep")
                            /\ UNCHANGED <<Session!rows, uses>>
    BY <1>8 DEF Session!ConfirmReset
  <2>2. /\ r.id \in Calls /\ r.user \in Users
        /\ MadeBy(r.id, Origin("reset")) /\ ~Closed("reset", r.id)
    BY <1>0, <2>1 DEF Session!TypeOK, Session!ResetRow, Made, Closed
  <2> QED BY <1>0, <1>1, <2>1, <2>2
<1>9. CASE Session!LoadState(c)
  <2>1. PICK s \in states : /\ ~s.used /\ Session!Start(c, "oidc", None, s.id, "exchange")
                            /\ UNCHANGED <<Session!rows, uses>>
    BY <1>9 DEF Session!LoadState
  <2>2. s.id \in Calls /\ MadeBy(s.id, Origin("oidc")) /\ ~Closed("oidc", s.id)
    BY <1>0, <2>1 DEF Session!TypeOK, Session!StateRow, Made, Closed
  <2> QED BY <1>0, <1>1, <2>1, <2>2
<1>10. CASE Session!Refresh(c)
  <2>1. PICK t \in tokens : /\ Session!Start(c, "refresh", t.user, t.of, "done")
                            /\ UNCHANGED <<Session!rows, uses>>
    BY <1>10 DEF Session!Refresh
  <2>2. t.user \in Users /\ t.of \in Calls \union {None}
    BY <1>0 DEF Session!TypeOK, Session!TokenRow
  <2> QED BY <1>0, <1>1, <2>1, <2>2 DEF Using
<1> QED BY <1>3, <1>4, <1>5, <1>6, <1>7, <1>8, <1>9, <1>10

\* The calls that go on and write nothing another relies on.
LEMMA MovesKeepInv ==
    ASSUME PartsAssumption, SessionInv, NEW c \in Calls,
           \/ Session!CheckCode(c) \/ Session!SweepTokens(c) \/ Session!Exchange(c)
           \/ Session!UpsertUser(c) \/ Session!Die(c)
    PROVE  SessionInv'
<1> USE DEF Session!At, Session!Goto, Session!User, Session!rows, Session!history
<1>0. /\ Session!TypeOK /\ call[c] \in Session!CallRecord /\ Fits(call[c])
      /\ \A u \in Users : users[u] \in Session!UserRow /\ users[u].password \in Session!Versions
  BY DEF SessionInv, OnceInv, CallsInv, Session!TypeOK, Session!UserRow
<1>1. ASSUME NEW pc \in {"issue", "done", "dead", "upsert"}, Session!Running(c),
             call' = [call EXCEPT ![c].pc = pc],
             pc = "issue" => call[c].op = "verify" /\ call[c].pc = "code",
             pc = "upsert" => call[c].op = "oidc", call[c].pc = "close" => pc = "dead",
             spent' \subseteq Calls \X Session!Codes,
             UNCHANGED <<users, sessions, tokens, resets, states, uses, beside>>
      PROVE  SessionInv'
  <2> DEFINE k == [call[c] EXCEPT !.pc = pc]
  <2>1. /\ k \in Session!CallRecord /\ k.pc = pc /\ k.op = call[c].op /\ k.of = call[c].of
        /\ k.user = call[c].user /\ k.password = call[c].password
    BY <1>0 DEF Session!CallRecord
  <2>2. call' = [call EXCEPT ![c] = k]
    BY <1>1
  <2> HIDE DEF k
  <2>3. Fits(k)
    BY <1>0, <1>1, <2>1 DEF Fits
  <2>4. users' \in [Users -> Session!UserRow]
    BY <1>0, <1>1 DEF Session!TypeOK
  <2> QED BY <1>1, <2>1, <2>2, <2>3, <2>4, MoveKeepsInv
<1>2. CASE Session!CheckCode(c)
  <2>1. PICK pc \in {"issue", "done"} : call' = [call EXCEPT ![c].pc = pc]
    BY <1>2 DEF Session!CheckCode
  <2> QED BY <1>0, <1>1, <1>2, <2>1 DEF Session!CheckCode, Session!Running, Fits, Session!TypeOK
<1>3. CASE Session!SweepTokens(c)
  <2> DEFINE k == [call[c] EXCEPT !.pc = "commit",
                                  !.seen = {t.id : t \in {x \in tokens : x.user = call[c].user}}]
  <2>1. {t.id : t \in {x \in tokens : x.user = call[c].user}} \subseteq Calls
    BY <1>0 DEF Session!TypeOK, Session!TokenRow
  <2>2. /\ k \in Session!CallRecord /\ k.pc = "commit" /\ k.op = call[c].op /\ k.of = call[c].of
        /\ k.user = call[c].user /\ k.password = call[c].password
        /\ k.seen = {t.id : t \in {x \in tokens : x.user = call[c].user}}
    BY <1>0, <2>1 DEF Session!CallRecord
  <2>3. call' = [call EXCEPT ![c] = k]
    BY <1>0, <1>3 DEF Session!SweepTokens, Session!TypeOK, Session!CallRecord
  <2> HIDE DEF k
  <2>4. Fits(k)
    BY <1>0, <1>3, <2>2 DEF Fits, Session!SweepTokens
  <2>5. call[c].pc = "sweep" /\ UNCHANGED <<Session!rows, Session!history>>
    BY <1>3 DEF Session!SweepTokens
  <2>6. users' \in [Users -> Session!UserRow] /\ spent' \subseteq Calls \X Session!Codes
    BY <1>0, <2>5 DEF Session!TypeOK
  <2> QED BY <2>2, <2>3, <2>4, <2>5, <2>6, MoveKeepsInv DEF Session!Running
<1>4. CASE Session!Exchange(c)
  <2>1. PICK pc \in {"upsert", "done"} : call' = [call EXCEPT ![c].pc = pc]
    BY <1>4 DEF Session!Exchange
  <2>2. /\ call[c].pc = "exchange" /\ UNCHANGED <<users, sessions, tokens, resets, states, uses, beside>>
        /\ call[c].op = "oidc" /\ call[c].of \in Calls
    BY <1>0, <1>4 DEF Session!Exchange, Fits
  <2>3. spent' \subseteq Calls \X Session!Codes
    <3>1. \/ UNCHANGED spent
          \/ \E n \in Session!Codes : spent' = spent \union {<<call[c].of, n>>}
      BY <1>4 DEF Session!Exchange
    <3>2. \A n \in Session!Codes : <<call[c].of, n>> \in Calls \X Session!Codes
      BY <2>2
    <3> QED BY <1>0, <3>1, <3>2 DEF Session!TypeOK
  <2> QED BY <1>1, <2>1, <2>2, <2>3 DEF Session!Running
<1>5. CASE Session!UpsertUser(c)
  <2>1. PICK u \in Users :
          /\ users' = [users EXCEPT ![u].admitted = TRUE]
          /\ call' = [call EXCEPT ![c].pc = "mark", ![c].user = u, ![c].password = users[u].password]
    BY <1>5 DEF Session!UpsertUser
  <2> DEFINE k == [call[c] EXCEPT !.pc = "mark", !.user = u, !.password = users[u].password]
  <2>2. /\ k \in Session!CallRecord /\ k.pc = "mark" /\ k.op = call[c].op /\ k.of = call[c].of
        /\ k.user = u /\ k.password = users[u].password
    BY <1>0 DEF Session!CallRecord
  <2>3. call' = [call EXCEPT ![c] = k]
    BY <1>0, <2>1 DEF Session!TypeOK, Session!CallRecord
  <2> HIDE DEF k
  <2>4. Fits(k)
    BY <1>0, <1>5, <2>2 DEF Fits, Session!UpsertUser
  <2>5. /\ call[c].pc = "upsert" /\ UNCHANGED <<sessions, tokens, resets, states, spent, uses, beside>>
    BY <1>5 DEF Session!UpsertUser
  <2>6. users' \in [Users -> Session!UserRow] /\ \A v \in Users : users'[v].password = users[v].password
    BY <1>0, <2>1 DEF Session!TypeOK, Session!UserRow
  <2>7. spent' \subseteq Calls \X Session!Codes
    BY <1>0, <2>5 DEF Session!TypeOK
  <2> QED BY <2>2, <2>3, <2>4, <2>5, <2>6, <2>7, MoveKeepsInv DEF Session!Running
<1>6. CASE Session!Die(c)
  BY <1>0, <1>1, <1>6 DEF Session!Die, Session!TypeOK
<1> QED BY <1>2, <1>3, <1>4, <1>5, <1>6

\* The calls that go on and open, use or close a row.
LEMMA WritesKeepInv ==
    ASSUME PartsAssumption, SessionInv, NEW c \in Calls,
           \/ Session!OpenSession(c) \/ Session!Close(c) \/ Session!RotateSecret(c)
           \/ Session!InsertReset(c) \/ Session!MarkState(c)
    PROVE  SessionInv'
<1> USE DEF Session!At, Session!Goto, Session!User, Session!rows, Session!history
<1>0. /\ Session!TypeOK /\ call[c] \in Session!CallRecord /\ Fits(call[c])
      /\ \A u \in Users : users[u] \in Session!UserRow
      /\ \A a \in uses : a.call = c => call[c].pc \in {"close", "done", "dead"}
      /\ None \notin Calls
  BY DEF SessionInv, OnceInv, CallsInv, Session!TypeOK, Used, PartsAssumption, Session!NoneAssumption
<1>a. PICK op, o : op = call[c].op /\ o = call[c].of
  OBVIOUS
<1>1. ASSUME NEW pc \in {"done", "close", "issue"},
             call' = [call EXCEPT ![c].pc = pc], Session!Running(c), beside' = beside,
             Fits([call[c] EXCEPT !.pc = pc]), pc = "issue" => op = "oidc",
             \A s \in sessions' : s \in sessions \/ (s.id = c /\ op \in Origin("verify") /\ pc = "done"),
             \A r \in resets' : \/ \E q \in resets : q.id = r.id /\ (q.used => r.used)
                                \/ r.id = c /\ op = "request" /\ pc = "done",
             \A s \in states' : \E q \in states : q.id = s.id /\ (q.used => s.used),
             NEW used \in SUBSET {[call |-> c, of |-> o]}, uses' = uses \union used,
             used # {} => op \in Using /\ o # None,
             \A a \in uses' : a.call = c => pc \in {"close", "done"} /\ (pc = "done" => Closed(op, o)'),
             pc = "issue" => Closed(op, o)',
             sessions' \subseteq Session!SessionRow, resets' \subseteq Session!ResetRow,
             states' \subseteq Session!StateRow, users' \in [Users -> Session!UserRow],
             \A u \in Users : users'[u].password = users[u].password,
             UNCHANGED <<tokens, spent>>
      PROVE  SessionInv'
  <2>0. PICK k : k = [call[c] EXCEPT !.pc = pc]
    OBVIOUS
  <2>1. /\ k \in Session!CallRecord /\ k.pc = pc /\ k.op = op /\ k.of = o
        /\ k.op = call[c].op /\ k.of = call[c].of
        /\ k.user = call[c].user /\ k.password = call[c].password
    BY <1>0, <1>a, <2>0 DEF Session!CallRecord
  <2>2. call' = [call EXCEPT ![c] = k] /\ Fits(k)
    BY <1>1, <2>0
  <2>3. /\ call'[c] = k /\ \A d \in Calls : d # c => call'[d] = call[d]
        /\ call' \in [Calls -> Session!CallRecord]
    BY <1>1, <2>1, <2>2, MoveKeepsCalls DEF SessionInv, OnceInv
  <2>4. uses' \subseteq [call : Calls, of : Calls]
    <3>1. used \subseteq [call : Calls, of : Calls]
      BY <1>0, <1>1, <2>1 DEF Session!CallRecord
    <3> QED BY <1>0, <1>1, <3>1 DEF Session!TypeOK
  <2>5. Session!TypeOK'
    BY <1>0, <1>1, <2>3, <2>4 DEF Session!TypeOK
  <2>6. used \in SUBSET {[call |-> c, of |-> k.of]}
    BY <2>1
  <2>7. OnceInv'
    <3>1. /\ \A a \in uses' : a.call = c => k.pc \in {"close", "done", "dead"}
                                            /\ (k.pc = "done" => Closed(k.op, k.of)')
          /\ k.pc = "issue" /\ k.op = "oidc" => Closed(k.op, k.of)'
      BY <1>1, <2>1
    <3>2. OnceInv /\ beside' = beside /\ Session!Running(c)
      BY <1>1 DEF SessionInv
    <3>3. /\ used \in SUBSET {[call |-> c, of |-> k.of]} /\ uses' = uses \union used
          /\ used # {} => k.op \in Using /\ k.of # None
      BY <1>1, <2>1, <2>6
    <3>4. \A s \in sessions' : s \in sessions \/ (s.id = c /\ k.op \in Origin("verify") /\ k.pc = "done")
      BY <1>1, <2>1
    <3>5. \A r \in resets' : \/ \E q \in resets : q.id = r.id /\ (q.used => r.used)
                             \/ r.id = c /\ k.op = "request" /\ k.pc = "done"
      BY <1>1, <2>1
    <3>6. \A s \in states' : \E q \in states : q.id = s.id /\ (q.used => s.used)
      BY <1>1
    <3>7. GoesOn(c, k, used)
      BY <2>1, <2>2, <3>1, <3>2, <3>3, <3>4, <3>5, <3>6 DEF GoesOn
    <3> QED BY <2>1, <2>5, <3>2, <3>7, MoveKeepsOnce
  <2>8. ResetInv'
    BY <1>1, <2>1, <2>3, <2>7, KeepsReset DEF SessionInv, OnceInv
  <2> QED BY <2>7, <2>8 DEF SessionInv
<1>2. CASE Session!OpenSession(c)
  <2>1. /\ call[c].pc = "session" /\ call' = [call EXCEPT ![c].pc = "done"]
        /\ UNCHANGED <<users, tokens, resets, states, spent, uses, beside>>
    BY <1>2 DEF Session!OpenSession
  <2>2. PICK s : /\ sessions' = sessions \union {s} /\ s \in Session!SessionRow /\ s.id = c
    <3>1. PICK step \in {"otp", "mfa_reset"} :
             sessions' = sessions \union {[id |-> c, user |-> call[c].user, password |-> call[c].password,
                                          step |-> step]}
      BY <1>2 DEF Session!OpenSession
    <3>2. call[c].user \in Users /\ call[c].password \in Session!Versions
      BY <1>0, <2>1 DEF Fits
    <3>3. [id |-> c, user |-> call[c].user, password |-> call[c].password, step |-> step]
             \in Session!SessionRow
      BY <3>2 DEF Session!SessionRow
    <3> QED BY <3>1, <3>3
  <2>3. op \in Origin("verify")
    BY <1>0, <1>a, <2>1 DEF Fits, Origin
  <2>4. Fits([call[c] EXCEPT !.pc = "done"])
    BY <1>0 DEF Fits, Session!CallRecord
  <2>5. uses' = uses \union {} /\ {} \in SUBSET {[call |-> c, of |-> o]}
        /\ \A a \in uses' : a.call # c
    BY <1>0, <2>1
  <2>6. /\ \A s1 \in sessions' : s1 \in sessions \/ s1.id = c
        /\ \A r \in resets' : \E q \in resets : q.id = r.id /\ (q.used => r.used)
        /\ \A s1 \in states' : \E q \in states : q.id = s1.id /\ (q.used => s1.used)
    BY <2>1, <2>2
  <2>7. /\ sessions' \subseteq Session!SessionRow /\ resets' \subseteq Session!ResetRow
        /\ states' \subseteq Session!StateRow /\ users' \in [Users -> Session!UserRow]
        /\ \A u \in Users : users'[u].password = users[u].password
    BY <1>0, <2>1, <2>2 DEF Session!TypeOK
  <2>8. Session!Running(c)
    BY <2>1 DEF Session!Running
  <2> QED BY <1>1, <2>1, <2>3, <2>4, <2>5, <2>6, <2>7, <2>8
<1>3. CASE Session!Close(c)
  <2>1. /\ call[c].pc = "close" /\ call' = [call EXCEPT ![c].pc = "done"]
        /\ sessions' = {s \in sessions : s.id # o}
        /\ UNCHANGED <<users, tokens, resets, states, spent, uses, beside>>
    BY <1>3, <1>a DEF Session!Close
  <2>2. op \in {"verify", "mfaConfirm"} /\ Closed(op, o)'
    BY <1>0, <1>a, <2>1 DEF Fits, Closed
  <2>3. Fits([call[c] EXCEPT !.pc = "done"])
    BY <1>0 DEF Fits, Session!CallRecord
  <2>4. uses' = uses \union {} /\ {} \in SUBSET {[call |-> c, of |-> o]}
    BY <2>1
  <2>5. /\ \A s1 \in sessions' : s1 \in sessions
        /\ \A r \in resets' : \E q \in resets : q.id = r.id /\ (q.used => r.used)
        /\ \A s1 \in states' : \E q \in states : q.id = s1.id /\ (q.used => s1.used)
    BY <2>1
  <2>6. /\ sessions' \subseteq Session!SessionRow /\ resets' \subseteq Session!ResetRow
        /\ states' \subseteq Session!StateRow /\ users' \in [Users -> Session!UserRow]
        /\ \A u \in Users : users'[u].password = users[u].password
    BY <1>0, <2>1 DEF Session!TypeOK
  <2>7. Session!Running(c)
    BY <2>1 DEF Session!Running
  <2> QED BY <1>1, <2>1, <2>2, <2>3, <2>4, <2>5, <2>6, <2>7
<1>4. CASE Session!RotateSecret(c)
  <2> DEFINE used == {[call |-> c, of |-> o] : x \in {o} \ {None}}
  <2>1. /\ call[c].pc = "rotate" /\ call' = [call EXCEPT ![c].pc = "close"]
        /\ uses' = uses \union used
        /\ UNCHANGED <<sessions, tokens, resets, states, spent, beside>>
    BY <1>4, <1>a DEF Session!RotateSecret
  <2>2. call[c].user \in Users /\ op = "mfaConfirm"
    BY <1>0, <1>a, <2>1 DEF Fits
  <2>3. /\ users' \in [Users -> Session!UserRow]
        /\ \A u \in Users : users'[u].password = users[u].password
    BY <1>0, <1>4, <2>2 DEF Session!RotateSecret, Session!TypeOK, Session!UserRow, Session!Versions
  <2>4. Fits([call[c] EXCEPT !.pc = "close"])
    BY <1>0, <2>1 DEF Fits, Session!CallRecord
  <2>5. used \in SUBSET {[call |-> c, of |-> o]} /\ (used # {} => o # None)
    OBVIOUS
  <2>6. /\ \A s1 \in sessions' : s1 \in sessions
        /\ \A r \in resets' : \E q \in resets : q.id = r.id /\ (q.used => r.used)
        /\ \A s1 \in states' : \E q \in states : q.id = s1.id /\ (q.used => s1.used)
    BY <2>1
  <2>7. /\ sessions' \subseteq Session!SessionRow /\ resets' \subseteq Session!ResetRow
        /\ states' \subseteq Session!StateRow
    BY <1>0, <2>1 DEF Session!TypeOK
  <2>8. Session!Running(c) /\ op \in Using
    BY <2>1, <2>2 DEF Session!Running, Using
  <2> HIDE DEF used
  <2> QED BY <1>1, <2>1, <2>2, <2>3, <2>4, <2>5, <2>6, <2>7, <2>8
<1>5. CASE Session!InsertReset(c)
  <2>1. PICK n : /\ n = [id |-> c, user |-> call[c].user, used |-> FALSE]
                 /\ resets' = {r \in resets : r.id \in call[c].seen => r.used} \union {n}
    BY <1>5 DEF Session!InsertReset
  <2>2. /\ call[c].pc = "insert" /\ call' = [call EXCEPT ![c].pc = "done"]
        /\ UNCHANGED <<users, sessions, tokens, states, spent, uses, beside>>
    BY <1>5 DEF Session!InsertReset
  <2>3. call[c].user \in Users /\ op = "request"
    BY <1>0, <1>a, <2>2 DEF Fits
  <2>4. Fits([call[c] EXCEPT !.pc = "done"])
    BY <1>0 DEF Fits, Session!CallRecord
  <2>5. uses' = uses \union {} /\ {} \in SUBSET {[call |-> c, of |-> o]}
        /\ \A a \in uses' : a.call # c
    BY <1>0, <2>2
  <2>6. n \in Session!ResetRow /\ n.id = c
    BY <2>1, <2>3 DEF Session!ResetRow
  <2>7. /\ \A s1 \in sessions' : s1 \in sessions
        /\ \A r \in resets' : r \in resets \/ r.id = c
        /\ \A s1 \in states' : \E q \in states : q.id = s1.id /\ (q.used => s1.used)
    BY <2>1, <2>2, <2>6
  <2>8. /\ sessions' \subseteq Session!SessionRow /\ resets' \subseteq Session!ResetRow
        /\ states' \subseteq Session!StateRow /\ users' \in [Users -> Session!UserRow]
        /\ \A u \in Users : users'[u].password = users[u].password
    BY <1>0, <2>1, <2>2, <2>6 DEF Session!TypeOK
  <2>9. Session!Running(c)
    BY <2>2 DEF Session!Running
  <2>10. \A r \in resets' : \/ \E q \in resets : q.id = r.id /\ (q.used => r.used)
                            \/ r.id = c /\ op = "request" /\ "done" = "done"
    BY <2>3, <2>7
  <2> QED BY <1>1, <2>2, <2>3, <2>4, <2>5, <2>7, <2>8, <2>9, <2>10
<1>6. CASE Session!MarkState(c)
  <2>1. /\ call[c].pc = "mark" /\ call' = [call EXCEPT ![c].pc = "issue"]
        /\ states' = {[s EXCEPT !.used = @ \/ s.id = o] : s \in states}
        /\ UNCHANGED <<users, sessions, tokens, resets, spent, uses, beside>>
    BY <1>6, <1>a DEF Session!MarkState
  <2>2. op = "oidc"
    BY <1>0, <1>a, <2>1 DEF Fits
  <2>3. ASSUME NEW s \in states
        PROVE  LET n == [s EXCEPT !.used = @ \/ s.id = o]
               IN n \in Session!StateRow /\ n.id = s.id /\ (n.used <=> s.used \/ s.id = o)
    <3>1. s \in [id : Calls, used : BOOLEAN]
      BY <1>0 DEF Session!TypeOK, Session!StateRow
    <3>2. (s.used \/ s.id = o) \in BOOLEAN
      OBVIOUS
    <3> QED BY <3>1, <3>2 DEF Session!StateRow
  <2>4. \A s \in states' : /\ s \in Session!StateRow /\ (s.id = o => s.used)
                            /\ \E q \in states : q.id = s.id /\ (q.used => s.used)
    BY <2>1, <2>3
  <2>5. Closed(op, o)'
    BY <2>2, <2>4 DEF Closed
  <2>6. Fits([call[c] EXCEPT !.pc = "issue"])
    BY <1>0, <2>1 DEF Fits, Session!CallRecord
  <2>7. uses' = uses \union {} /\ {} \in SUBSET {[call |-> c, of |-> o]}
        /\ \A a \in uses' : a.call # c
    BY <1>0, <2>1
  <2>8. /\ \A s1 \in sessions' : s1 \in sessions
        /\ \A r \in resets' : \E q \in resets : q.id = r.id /\ (q.used => r.used)
    BY <2>1
  <2>9. /\ sessions' \subseteq Session!SessionRow /\ resets' \subseteq Session!ResetRow
        /\ states' \subseteq Session!StateRow /\ users' \in [Users -> Session!UserRow]
        /\ \A u \in Users : users'[u].password = users[u].password
    BY <1>0, <2>1, <2>4 DEF Session!TypeOK
  <2>10. Session!Running(c)
    BY <2>1 DEF Session!Running
  <2> QED BY <1>1, <2>1, <2>2, <2>4, <2>5, <2>6, <2>7, <2>8, <2>9, <2>10
<1> QED BY <1>2, <1>3, <1>4, <1>5, <1>6

\* A refresh token is issued.
LEMMA IssueKeepsInv ==
    ASSUME PartsAssumption, SessionInv, NEW c \in Calls, Session!Issue(c)
    PROVE  SessionInv'
<1> USE DEF Session!At, Session!Goto, Session!User
<1>0. /\ Session!TypeOK /\ call[c] \in Session!CallRecord /\ Fits(call[c])
      /\ call[c].pc = "issue" /\ Session!Running(c)
      /\ \A a \in uses : a.call # c
  BY DEF SessionInv, OnceInv, CallsInv, Session!TypeOK, Used, Session!Issue, Session!Running
<1>1. PICK op, o, k : /\ op = call[c].op /\ o = call[c].of
                      /\ k = [call[c] EXCEPT !.pc = IF call[c].op = "verify" THEN "close" ELSE "done"]
  OBVIOUS
<1>2. /\ k \in Session!CallRecord /\ k.pc = (IF op = "verify" THEN "close" ELSE "done")
      /\ k.op = op /\ k.of = o /\ k.op = call[c].op /\ k.of = call[c].of
      /\ k.user = call[c].user /\ k.password = call[c].password
  BY <1>0, <1>1 DEF Session!CallRecord
<1>3. /\ op \in {"login", "verify", "oidc"} /\ (op = "login" <=> o = None) /\ o \in Calls \union {None}
      /\ call[c].user \in Users /\ call[c].password \in Session!Versions
  BY <1>0, <1>1 DEF Fits, Session!CallRecord, PartsAssumption, Session!NoneAssumption
<1>4. Fits(k)
  BY <1>0, <1>2, <1>3 DEF Fits
<1>5. call' = [call EXCEPT ![c] = k]
  BY <1>1 DEF Session!Issue
<1>6. /\ call'[c] = k /\ \A d \in Calls : d # c => call'[d] = call[d]
      /\ call' \in [Calls -> Session!CallRecord]
  BY <1>0, <1>2, <1>4, <1>5, MoveKeepsCalls DEF SessionInv, OnceInv, Session!Issue
<1>7. PICK n : /\ n = [id |-> c, user |-> call[c].user, revoked |-> FALSE, of |-> o,
                       password |-> call[c].password, under |-> users[call[c].user].password]
               /\ tokens' = tokens \union {n}
  BY <1>1 DEF Session!Issue
<1>8. /\ n \in Session!TokenRow /\ n.id = c /\ n.user = call[c].user /\ n.of = o
      /\ n.password = call[c].password /\ n.under = users[n.user].password
  BY <1>0, <1>3, <1>7 DEF Session!TypeOK, Session!TokenRow, Session!UserRow
<1>9. PICK used : /\ used = {[call |-> c, of |-> o] : x \in {o} \ {None}}
                  /\ uses' = uses \union used
  BY <1>1 DEF Session!Issue
<1>10. UNCHANGED <<users, sessions, resets, states, spent, beside>>
  BY DEF Session!Issue
<1>11. used \in SUBSET {[call |-> c, of |-> o]} /\ (used # {} => o # None /\ op # "login")
  BY <1>3, <1>9
<1>12. uses' \subseteq [call : Calls, of : Calls]
  BY <1>0, <1>3, <1>9, <1>11 DEF Session!TypeOK
<1>13. Session!TypeOK'
  BY <1>0, <1>6, <1>7, <1>8, <1>10, <1>12 DEF Session!TypeOK
<1>14. op = "oidc" => Closed(op, o)
  BY <1>0, <1>1 DEF SessionInv, OnceInv, Used
<1>15. Closed(op, o) => Closed(op, o)'
  BY <1>10 DEF Closed
<1>16. OnceInv'
  <2>1. \A a \in uses' : a.call = c => k.pc \in {"close", "done", "dead"}
                                       /\ (k.pc = "done" => Closed(k.op, k.of)')
    BY <1>0, <1>2, <1>3, <1>9, <1>11, <1>14, <1>15
  <2>2. /\ \A s \in sessions' : s \in sessions
        /\ \A r \in resets' : \E q \in resets : q.id = r.id /\ (q.used => r.used)
        /\ \A s \in states' : \E q \in states : q.id = s.id /\ (q.used => s.used)
    BY <1>10
  <2>3. used \in SUBSET {[call |-> c, of |-> k.of]} /\ (used # {} => k.op \in Using /\ k.of # None)
    BY <1>2, <1>3, <1>11 DEF Using
  <2>4. k.pc # "issue"
    BY <1>2
  <2>5. /\ uses' = uses \union used /\ beside' = beside /\ ~(k.pc = "issue" /\ k.op = "oidc")
        /\ k.op = call[c].op /\ k.of = call[c].of
    BY <1>2, <1>9, <1>10, <2>4
  <2>6. OnceInv
    BY DEF SessionInv
  <2> HIDE DEF Session!At, Session!Goto, Session!User
  <2>7. Session!Running(c) /\ Fits(k)
    BY <1>0, <1>4
  <2>8. GoesOn(c, k, used)
    BY <1>5, <2>1, <2>2, <2>3, <2>5, <2>7 DEF GoesOn
  <2> QED BY <1>2, <1>13, <2>6, <2>8, MoveKeepsOnce
<1>17. Checked' /\ Swept'
  <2>1. Checked'
    BY <1>2, <1>6, <1>10 DEF SessionInv, ResetInv, Checked, Current
  <2>2. ASSUME NEW d \in Calls, NEW t \in tokens', call'[d].pc = "commit",
               t.user = call'[d].user, t.id \notin call'[d].seen
        PROVE  {t.id, d} \in beside'
    <3>1. d # c /\ call'[d] = call[d] /\ Session!Running(d)
      BY <1>2, <1>6, <2>2 DEF Session!Running
    <3>2. CASE t \in tokens
      BY <1>10, <2>2, <3>1, <3>2 DEF SessionInv, ResetInv, Swept
    <3>3. CASE t = n
      BY <1>0, <1>8, <1>10, <3>1, <3>3 DEF SessionInv, OnceInv, CallsInv, Beside
    <3> QED BY <1>7, <3>2, <3>3
  <2> QED BY <2>1, <2>2 DEF Swept
<1>18. Session!ResetSignsOut'
  <2> SUFFICES ASSUME NEW t \in tokens', ~t.revoked, t.password # users[t.user].password
               PROVE  \/ {t.id, users[t.user].password} \in beside
                      \/ t.under = users[t.user].password /\ t.of # None
    BY <1>10 DEF Session!ResetSignsOut
  <2>1. CASE t \in tokens
    BY <2>1 DEF SessionInv, ResetInv, Session!ResetSignsOut
  <2>2. CASE t = n
    <3>1. CASE o = None
      BY <1>0, <1>1, <1>3, <1>8, <2>2, <3>1 DEF SessionInv, ResetInv, Checked, Current
    <3>2. CASE o # None
      BY <1>8, <2>2, <3>2
    <3> QED BY <3>1, <3>2
  <2> QED BY <1>7, <2>1, <2>2
<1> QED BY <1>16, <1>17, <1>18 DEF SessionInv, ResetInv, OnceInv

\* A new password is committed, and what is signed in under the old one is revoked.
LEMMA CommitKeepsInv ==
    ASSUME PartsAssumption, SessionInv, NEW c \in Calls, Session!CommitReset(c)
    PROVE  SessionInv'
<1> USE DEF Session!At, Session!Goto, Session!User
<1>0. /\ Session!TypeOK /\ call[c] \in Session!CallRecord /\ Fits(call[c])
      /\ call[c].pc = "commit" /\ Session!Running(c)
  BY DEF SessionInv, OnceInv, CallsInv, Session!TypeOK, Session!CommitReset, Session!Running
<1>1. PICK o, seen, u, k : /\ o = call[c].of /\ seen = call[c].seen /\ u = call[c].user
                           /\ k = [call[c] EXCEPT !.pc = "done"]
  OBVIOUS
<1>2. /\ k \in Session!CallRecord /\ k.pc = "done"
      /\ k.op = call[c].op /\ k.of = call[c].of /\ k.op = "reset" /\ k.of = o
      /\ o \in Calls /\ u \in Users /\ o # None
  BY <1>0, <1>1 DEF Session!CallRecord, Fits, PartsAssumption, Session!NoneAssumption
<1>3. Fits(k)
  BY <1>0, <1>1, <1>2 DEF Fits, Session!CallRecord
<1>4. /\ call' = [call EXCEPT ![c] = k]
      /\ users' = [users EXCEPT ![u].password = c]
      /\ resets' = {[r EXCEPT !.used = @ \/ r.id = o] : r \in resets}
      /\ tokens' = {[t EXCEPT !.revoked = @ \/ t.id \in seen] : t \in tokens}
      /\ uses' = uses \union {[call |-> c, of |-> o]}
      /\ UNCHANGED <<sessions, states, spent, beside>>
  BY <1>1 DEF Session!CommitReset
<1>5. /\ call'[c] = k /\ \A d \in Calls : d # c => call'[d] = call[d]
      /\ call' \in [Calls -> Session!CallRecord]
  BY <1>0, <1>2, <1>3, <1>4, MoveKeepsCalls DEF SessionInv, OnceInv
<1>6. /\ users' \in [Users -> Session!UserRow] /\ users'[u].password = c
      /\ \A v \in Users : v # u => users'[v] = users[v]
  BY <1>0, <1>2, <1>4 DEF Session!TypeOK, Session!UserRow, Session!Versions
<1>7. \A r \in resets' : /\ r \in Session!ResetRow /\ (r.id = o => r.used)
                         /\ \E q \in resets : q.id = r.id /\ (q.used => r.used)
  <2>1. ASSUME NEW q \in resets
        PROVE  LET r == [q EXCEPT !.used = @ \/ q.id = o]
               IN r \in Session!ResetRow /\ r.id = q.id /\ (r.used <=> q.used \/ q.id = o)
    <3>1. q \in [id : Calls, user : Users, used : BOOLEAN]
      BY <1>0 DEF Session!TypeOK, Session!ResetRow
    <3>2. (q.used \/ q.id = o) \in BOOLEAN
      OBVIOUS
    <3> QED BY <3>1, <3>2 DEF Session!ResetRow
  <2> QED BY <1>4, <2>1
<1>8. \A t \in tokens' : /\ t \in Session!TokenRow
                         /\ \E q \in tokens :
                               /\ t.id = q.id /\ t.user = q.user /\ t.password = q.password
                               /\ t.under = q.under /\ t.of = q.of
                               /\ (t.revoked <=> q.revoked \/ q.id \in seen)
  <2>1. ASSUME NEW q \in tokens
        PROVE  LET t == [q EXCEPT !.revoked = @ \/ q.id \in seen]
               IN /\ t \in Session!TokenRow /\ t.id = q.id /\ t.user = q.user /\ t.of = q.of
                  /\ t.password = q.password /\ t.under = q.under
                  /\ (t.revoked <=> q.revoked \/ q.id \in seen)
    <3>1. q \in Session!TokenRow
      BY <1>0 DEF Session!TypeOK
    <3>2. (q.revoked \/ q.id \in seen) \in BOOLEAN
      OBVIOUS
    <3> QED BY <3>1, <3>2 DEF Session!TokenRow
  <2> SUFFICES ASSUME NEW t \in tokens'
               PROVE  /\ t \in Session!TokenRow
                      /\ \E q \in tokens :
                            /\ t.id = q.id /\ t.user = q.user /\ t.password = q.password
                            /\ t.under = q.under /\ t.of = q.of
                            /\ (t.revoked <=> q.revoked \/ q.id \in seen)
    OBVIOUS
  <2>2. PICK q \in tokens : t = [q EXCEPT !.revoked = @ \/ q.id \in seen]
    BY <1>4
  <2> QED BY <2>1, <2>2
<1>9. Session!TypeOK'
  <2>1. uses' \subseteq [call : Calls, of : Calls]
    BY <1>0, <1>2, <1>4 DEF Session!TypeOK
  <2> QED BY <1>0, <1>4, <1>5, <1>6, <1>7, <1>8, <2>1 DEF Session!TypeOK
<1>10. OnceInv'
  <2>1. Closed(k.op, k.of)'
    BY <1>2, <1>7 DEF Closed
  <2>2. /\ \A s \in sessions' : s \in sessions
        /\ \A s \in states' : \E q \in states : q.id = s.id /\ (q.used => s.used)
    BY <1>4
  <2>3. {[call |-> c, of |-> o]} \in SUBSET {[call |-> c, of |-> k.of]} /\ k.op \in Using
    BY <1>2 DEF Using
  <2>4. PICK used : used = {[call |-> c, of |-> o]}
    OBVIOUS
  <2>5. /\ used \in SUBSET {[call |-> c, of |-> k.of]} /\ uses' = uses \union used
        /\ k.op \in Using /\ k.of # None
    BY <1>0, <1>2, <1>4, <2>3, <2>4
  <2>6. /\ Session!Running(c) /\ Fits(k) /\ call' = [call EXCEPT ![c] = k] /\ beside' = beside
        /\ k.op = call[c].op /\ k.of = call[c].of
    BY <1>0, <1>2, <1>3, <1>4
  <2>7. \A r \in resets' : \E q \in resets : q.id = r.id /\ (q.used => r.used)
    BY <1>7
  <2>8. \A a \in uses' : a.call = c => k.pc \in {"close", "done", "dead"}
                                       /\ (k.pc = "done" => Closed(k.op, k.of)')
    BY <1>2, <2>1
  <2>9. ~(k.pc = "issue" /\ k.op = "oidc")
    BY <1>2
  <2>10. GoesOn(c, k, used)
    BY <2>2, <2>5, <2>6, <2>7, <2>8, <2>9 DEF GoesOn
  <2>11. OnceInv
    BY DEF SessionInv
  <2> QED BY <1>2, <1>3, <1>9, <2>10, <2>11, MoveKeepsOnce
<1>11. Checked'
  <2> SUFFICES ASSUME NEW d \in Calls, call'[d].pc = "issue", call'[d].op = "login"
               PROVE  LET v == call'[d].user
                      IN call'[d].password = users'[v].password \/ {d, users'[v].password} \in beside'
    BY DEF Checked, Current
  <2>1. d # c /\ call'[d] = call[d] /\ Session!Running(d) /\ call[d].user \in Users
    BY <1>2, <1>5 DEF Session!Running, SessionInv, OnceInv, CallsInv, Fits
  <2>2. CASE call[d].user = u
    BY <1>0, <1>4, <1>6, <2>1, <2>2 DEF SessionInv, OnceInv, CallsInv, Beside
  <2>3. CASE call[d].user # u
    <3>1. Checked
      BY DEF SessionInv, ResetInv
    <3>2. \/ call[d].password = users[call[d].user].password
          \/ {d, users[call[d].user].password} \in beside
      BY <2>1, <3>1 DEF Checked, Current
    <3>3. users'[call[d].user].password = users[call[d].user].password
      BY <1>6, <2>1, <2>3
    <3>4. beside' = beside
      BY <1>4
    <3> QED BY <2>1, <3>2, <3>3, <3>4
  <2> QED BY <2>2, <2>3
<1>12. Swept'
  <2> SUFFICES ASSUME NEW d \in Calls, NEW t \in tokens', call'[d].pc = "commit",
                      t.user = call'[d].user, t.id \notin call'[d].seen
               PROVE  {t.id, d} \in beside'
    BY DEF Swept
  <2>1. call'[d] = call[d]
    BY <1>2, <1>5
  <2>2. PICK q \in tokens : q.id = t.id /\ q.user = t.user
    BY <1>8
  <2>3. {q.id, d} \in beside
    BY <2>1, <2>2 DEF SessionInv, ResetInv, Swept
  <2> QED BY <1>4, <2>2, <2>3
<1>13. Session!ResetSignsOut'
  <2> SUFFICES ASSUME NEW t \in tokens', ~t.revoked, t.password # users'[t.user].password
               PROVE  \/ {t.id, users'[t.user].password} \in beside'
                      \/ t.under = users'[t.user].password /\ t.of # None
    BY DEF Session!ResetSignsOut
  <2>1. PICK q \in tokens : /\ t.id = q.id /\ t.user = q.user /\ t.password = q.password
                            /\ t.under = q.under /\ t.of = q.of /\ ~q.revoked /\ q.id \notin seen
    BY <1>8
  <2>2. q.user \in Users
    BY <1>0 DEF Session!TypeOK, Session!TokenRow
  <2>3. CASE q.user = u
    <3>1. {q.id, c} \in beside
      BY <1>0, <1>1, <2>1, <2>3 DEF SessionInv, ResetInv, Swept
    <3> QED BY <1>4, <1>6, <2>1, <2>3, <3>1
  <2>4. CASE q.user # u
    BY <1>4, <1>6, <2>1, <2>2, <2>4 DEF SessionInv, ResetInv, Session!ResetSignsOut
  <2> QED BY <2>3, <2>4
<1> QED BY <1>10, <1>11, <1>12, <1>13 DEF SessionInv, ResetInv, OnceInv

\* Calls of one step, and time.
LEMMA OneStepKeepsInv ==
    ASSUME PartsAssumption, SessionInv,
           (\E c \in Calls : Session!Authorize(c) \/ Session!Logout(c)) \/ Session!Expire
    PROVE  SessionInv'
<1> USE DEF Session!At, Session!rows, Session!history
<1>0. /\ Session!TypeOK /\ None \notin Calls
      /\ \A u \in Users : users[u].password \in Session!Versions
  BY DEF SessionInv, OnceInv, CallsInv, Session!TypeOK, Session!UserRow, PartsAssumption,
         Session!NoneAssumption
<1>1. ASSUME NEW c \in Calls, Session!Authorize(c) PROVE SessionInv'
  <2>1. PICK k : k = [Session!NewCall EXCEPT !.op = "authorize", !.pc = "done", !.user = None,
                          !.of = None, !.password = None]
    OBVIOUS
  <2>2. /\ k.op = "authorize" /\ k.pc = "done" /\ k.of = None /\ k \in Session!CallRecord
    BY <2>1 DEF Session!NewCall, Session!CallRecord
  <2>3. Session!Begin(c, k) /\ states' = states \union {[id |-> c, used |-> FALSE]}
        /\ UNCHANGED <<users, sessions, tokens, resets, spent, uses>>
    BY <1>1, <2>1 DEF Session!Authorize, Session!Start
  <2>4. Fits(k)
    BY <2>2 DEF Fits
  <2>5. /\ call'[c] = k /\ \A d \in Calls : d # c => call'[d] = call[d]
        /\ call' \in [Calls -> Session!CallRecord]
        /\ beside \subseteq beside' /\ beside' \subseteq SUBSET Calls
    BY <2>2, <2>3, <2>4, BeginKeepsCalls DEF SessionInv, OnceInv
  <2>6. [id |-> c, used |-> FALSE] \in Session!StateRow
    BY DEF Session!StateRow
  <2>7. Session!TypeOK'
    BY <1>0, <2>3, <2>5, <2>6 DEF Session!TypeOK
  <2>8. OnceInv'
    BY <2>2, <2>3, <2>4, <2>7, BeginKeepsOnce DEF SessionInv, Using
  <2>9. ResetInv'
    BY <2>2, <2>3, <2>5, <2>8, KeepsReset DEF SessionInv, OnceInv
  <2> QED BY <2>8, <2>9 DEF SessionInv
<1>2. ASSUME NEW c \in Calls, Session!Logout(c) PROVE SessionInv'
  <2>1. PICK t \in tokens : /\ Session!Start(c, "logout", t.user, None, "done")
                            /\ tokens' = (tokens \ {t}) \union {[t EXCEPT !.revoked = TRUE]}
                            /\ UNCHANGED <<users, sessions, resets, states, spent, uses>>
    BY <1>2 DEF Session!Logout
  <2>2. PICK k : k = [Session!NewCall EXCEPT !.op = "logout", !.pc = "done", !.user = t.user,
                          !.of = None, !.password = IF t.user = None THEN None ELSE users[t.user].password]
    OBVIOUS
  <2>3. t \in Session!TokenRow /\ t.user \in Users
    BY <1>0 DEF Session!TypeOK, Session!TokenRow
  <2>4. /\ k.op = "logout" /\ k.pc = "done" /\ k.of = None /\ k \in Session!CallRecord
    BY <1>0, <2>2, <2>3 DEF Session!NewCall, Session!CallRecord
  <2>5. Session!Begin(c, k)
    BY <2>1, <2>2 DEF Session!Start
  <2>6. Fits(k)
    BY <2>4 DEF Fits
  <2>7. /\ call'[c] = k /\ \A d \in Calls : d # c => call'[d] = call[d]
        /\ call' \in [Calls -> Session!CallRecord]
        /\ beside \subseteq beside' /\ beside' \subseteq SUBSET Calls
    BY <2>4, <2>5, <2>6, BeginKeepsCalls DEF SessionInv, OnceInv
  <2>8. PICK n : n = [t EXCEPT !.revoked = TRUE]
    OBVIOUS
  <2>9. /\ n \in Session!TokenRow /\ n.revoked
        /\ n.id = t.id /\ n.user = t.user /\ n.password = t.password /\ n.under = t.under /\ n.of = t.of
    BY <2>3, <2>8 DEF Session!TokenRow
  <2>10. /\ tokens' \subseteq Session!TokenRow
         /\ \A x \in tokens' : \E q \in tokens :
               /\ x.id = q.id /\ x.user = q.user /\ x.password = q.password
               /\ x.under = q.under /\ x.of = q.of /\ (q.revoked => x.revoked)
    BY <1>0, <2>1, <2>8, <2>9 DEF Session!TypeOK
  <2>11. Session!TypeOK'
    BY <1>0, <2>1, <2>7, <2>10 DEF Session!TypeOK
  <2>12. OnceInv'
    BY <2>1, <2>4, <2>5, <2>6, <2>11, BeginKeepsOnce DEF SessionInv, Using
  <2>13. ResetInv'
    BY <2>1, <2>4, <2>7, <2>10, <2>12, KeepsReset DEF SessionInv, OnceInv
  <2> QED BY <2>12, <2>13 DEF SessionInv
<1>3. ASSUME Session!Expire PROVE SessionInv'
  <2>1. /\ sessions' \subseteq sessions /\ resets' \subseteq resets /\ states' \subseteq states
        /\ UNCHANGED <<users, tokens, spent, call, uses, beside>>
    BY <1>3 DEF Session!Expire
  <2>2. CallsInv'
    BY <2>1 DEF SessionInv, OnceInv, CallsInv, Session!TypeOK, Beside, Session!Running
  <2>3. Made'
    BY <2>1 DEF SessionInv, OnceInv, Made, MadeBy
  <2>4. Used' /\ Overlaps' /\ Session!UsedOnce'
    BY <2>1 DEF SessionInv, OnceInv, Used, Closed, Overlaps, Session!UsedOnce, Session!Running
  <2>5. ResetInv'
    BY <2>1, <2>2 DEF SessionInv, ResetInv, Checked, Swept, Current, Session!ResetSignsOut
  <2> QED BY <2>2, <2>3, <2>4, <2>5 DEF SessionInv, OnceInv
<1> QED BY <1>1, <1>2, <1>3

LEMMA SessionStepKeepsInv ==
    ASSUME PartsAssumption, SessionInv, [Session!Next]_Session!vars
    PROVE  SessionInv'
<1>1. CASE UNCHANGED Session!vars
  <2>1. UNCHANGED <<users, sessions, tokens, resets, states, spent, call, uses, beside>>
    BY <1>1 DEF Session!vars
  <2>2. CallsInv'
    BY <2>1 DEF SessionInv, OnceInv, CallsInv, Session!TypeOK, Beside, Session!Running
  <2>3. Made'
    BY <2>1 DEF SessionInv, OnceInv, Made, MadeBy, Session!At
  <2>4. Used'
    BY <2>1 DEF SessionInv, OnceInv, Used, Closed, Session!At
  <2>5. Overlaps' /\ Session!UsedOnce'
    BY <2>1 DEF SessionInv, OnceInv, Overlaps, Session!UsedOnce, Session!Running, Session!At
  <2>6. Checked' /\ Swept' /\ Session!ResetSignsOut'
    BY <2>1 DEF SessionInv, ResetInv, Checked, Current, Swept, Session!ResetSignsOut, Session!At
  <2> QED BY <2>2, <2>3, <2>4, <2>5, <2>6 DEF SessionInv, OnceInv, ResetInv
<1>2. CASE Session!Next
  BY <1>2, BeginsKeepInv, MovesKeepInv, WritesKeepInv, IssueKeepsInv, CommitKeepsInv, OneStepKeepsInv
     DEF Session!Next, Session!Password, Session!Mfa, Session!Reset, Session!Oidc
<1> QED BY <1>1, <1>2

\* Signing in moves as SignIn says, or not at all.
LEMMA SessionMoves == Spec => Session!Spec
<1>1. Init => Session!Init
  BY DEF Init
<1>2. [Next]_vars => [Session!Next]_Session!vars
  BY DEF Next, SessionStep, TenantStep, ProviderStep, vars, sessionVars, Session!vars
<1> QED BY <1>1, <1>2, PTL DEF Spec, Session!Spec

LEMMA SessionInvHolds == Spec => []SessionInv
<1>1. Session!Init => SessionInv
  BY PartsAssumption, SessionInit DEF SessionInv
<1>2. SessionInv /\ [Session!Next]_Session!vars => SessionInv'
  BY PartsAssumption, SessionStepKeepsInv
<1> QED BY <1>1, <1>2, SessionMoves, PTL DEF Session!Spec

\* An MFA session, a reset token or a login state serves two calls only if they ran at the same
\* time, or one died before it closed it (main.py 6194-6487; enterprise_identity.py 741-760).
THEOREM UsedOnceHolds == Spec => []UsedOnce
<1>1. SessionInv => UsedOnce
  BY DEF SessionInv, OnceInv, UsedOnce
<1> QED BY <1>1, SessionInvHolds, PTL

\* A refresh token that is good although its sign-in checked another password than the user's
\* was issued beside the reset, or through an MFA session from before it (main.py 6213-6240).
THEOREM ResetSignsOutHolds == Spec => []ResetSignsOut
<1>1. SessionInv => ResetSignsOut
  BY DEF SessionInv, ResetInv, ResetSignsOut
<1> QED BY <1>1, SessionInvHolds, PTL

(***************************************************************************)
(* Onboarding.                                                             *)
(***************************************************************************)

\* Onboarding moves as Onboarding says, or not at all.
LEMMA TenantMoves == Spec => Tenant!Spec
<1>1. Init => Tenant!Init
  BY DEF Init
<1>2. [Next]_vars => [Tenant!Next]_Tenant!vars
  BY DEF Next, SessionStep, TenantStep, ProviderStep, vars, tenantVars, Tenant!vars
<1> QED BY <1>1, <1>2, PTL DEF Spec, Tenant!Spec

\* A registration becomes one whole tenant with its user and its policies, for any number of
\* calls that verify it at once (main.py 5873-5937).
THEOREM WholenessHolds == Spec => []TenantIsWhole
<1>1. Tenant!Spec => []Tenant!TenantIsWhole
  BY PartsAssumption, Tenant!TenantIsWholeHolds DEF PartsAssumption
<1>2. Tenant!TenantIsWhole <=> TenantIsWhole
  BY DEF TenantIsWhole
<1> QED BY <1>1, <1>2, TenantMoves, PTL

(***************************************************************************)
(* The keys of an identity provider.                                       *)
(***************************************************************************)

Published(k) == k \in Provider!Keys /\ k[2] <= key[k[1]]

\* A key that was published was so until some time up to now, the key of the day still is.
KeysInv == \A k \in Provider!Keys :
    /\ Published(k) => known[k] \in 0..now
    /\ k[2] = key[k[1]] => known[k] = now

\* A row of the cache was refreshed when its key was published.
RowInv == cache # None /\ cache.keys # Provider!NoKeys =>
    /\ Published(cache.keys) /\ known[cache.keys] >= cache.refreshed
    /\ cache.refreshed <= now /\ cache.expires = cache.refreshed + FreshTime

\* A callback looks for a key that was published; what it has fetched still is, for time stands still.
LookupInv == \A c \in Callbacks :
    /\ lookup[c].pc \in {"token", "cache", "fetch", "store", "failed", "stale"} => lookup[c].site \in Sites
    /\ lookup[c].pc \in {"cache", "fetch", "store", "failed", "stale"} => Published(lookup[c].key)
    /\ lookup[c].pc = "store" => Published(lookup[c].got) /\ known[lookup[c].got] = now
    /\ lookup[c].pc = "stale" => cache # None
    /\ lookup[c].ok => lookup[c].pc = "decided" /\ Published(lookup[c].key)

ProviderInv == Provider!TypeOK /\ KeysInv /\ RowInv /\ LookupInv /\ Provider!WithdrawnKeysEnd

\* A key's name is its site and its number.
LEMMA KeyNames ==
    /\ \A k \in Provider!Keys : k[1] \in Sites /\ k[2] \in 1..MaxKey[k[1]] /\ k = <<k[1], k[2]>>
    /\ \A s \in Sites, n \in Nat : n \in 1..MaxKey[s] =>
          <<s, n>> \in Provider!Keys /\ <<s, n>>[1] = s /\ <<s, n>>[2] = n
<1>1. ASSUME NEW k \in Provider!Keys
      PROVE  k[1] \in Sites /\ k[2] \in 1..MaxKey[k[1]] /\ k = <<k[1], k[2]>>
  <2>1. PICK s \in Sites : k \in {s} \X (1..MaxKey[s])
    BY DEF Provider!Keys
  <2> QED BY <2>1
<1>2. ASSUME NEW s \in Sites, NEW n \in Nat, n \in 1..MaxKey[s]
      PROVE  <<s, n>> \in Provider!Keys /\ <<s, n>>[1] = s /\ <<s, n>>[2] = n
  <2>1. <<s, n>> \in {s} \X (1..MaxKey[s])
    BY <1>2
  <2> QED BY <2>1 DEF Provider!Keys
<1> QED BY <1>1, <1>2

\* What was published once stays published, and is known no less long.
Grows == \A k \in Provider!Keys :
    Published(k) => /\ k[2] <= key'[k[1]]
                    /\ known'[k] \in Int /\ known'[k] >= known[k]

\* A row that is not too old shows its key was published not too long ago.
LEMMA RowIsGood ==
    ASSUME PartsAssumption, ProviderInv, cache # None, cache.keys # Provider!NoKeys,
           cache.expires > now \/ cache.refreshed > now - StaleTime
    PROVE  Published(cache.keys) /\ now - known[cache.keys] <= StaleTime
<1>1. /\ Published(cache.keys) /\ known[cache.keys] >= cache.refreshed
      /\ cache.refreshed <= now /\ cache.expires = cache.refreshed + FreshTime
  BY DEF ProviderInv, RowInv
<1>2. known[cache.keys] \in 0..now
  BY <1>1 DEF ProviderInv, KeysInv, Published
<1>3. cache.refreshed \in Nat /\ now \in Nat /\ FreshTime \in Nat /\ StaleTime \in Nat /\ FreshTime <= StaleTime
  BY DEF ProviderInv, Provider!TypeOK, Provider!CacheRow, PartsAssumption, Provider!ClockAssumption
<1> QED BY <1>1, <1>2, <1>3

\* A match with keys that are good enough decides as it should.
LEMMA MatchKeepsInv ==
    ASSUME PartsAssumption, ProviderInv, NEW c \in Callbacks, NEW keys,
           lookup[c].pc \in {"cache", "store", "stale"},
           Published(keys), now - known[keys] <= StaleTime,
           Provider!Match(c, keys), UNCHANGED <<provider, key, up, now, known>>
    PROVE  /\ lookup' \in [Callbacks -> Provider!Lookup]
           /\ (\A d \in Callbacks : d # c => lookup'[d] = lookup[d])
           /\ lookup'[c].pc \in {"fetch", "decided"}
           /\ lookup'[c].pc = "fetch" => lookup'[c].site \in Sites /\ Published(lookup'[c].key) /\ ~lookup'[c].ok
           /\ lookup'[c].ok => /\ lookup'[c].pc = "decided" /\ Published(lookup'[c].key)
                               /\ lookup'[c].at - known[lookup'[c].key] <= StaleTime
<1>0. /\ lookup \in [Callbacks -> Provider!Lookup] /\ lookup[c] \in Provider!Lookup
      /\ lookup[c].site \in Sites /\ Published(lookup[c].key) /\ ~lookup[c].ok /\ now \in 0..MaxTime
      /\ lookup[c].key \in Provider!Keys
  BY DEF ProviderInv, Provider!TypeOK, LookupInv, Published
<1>1. CASE keys = lookup[c].key
  <2>1. PICK k : k = [Provider!NoLookup EXCEPT !.pc = "decided", !.ok = TRUE, !.at = now, !.key = lookup[c].key]
    OBVIOUS
  <2>2. /\ k \in Provider!Lookup /\ k.pc = "decided" /\ k.ok /\ k.at = now /\ k.key = keys
    BY <1>0, <1>1, <2>1 DEF Provider!NoLookup, Provider!Lookup
  <2>3. lookup' = [lookup EXCEPT ![c] = k]
    BY <1>1, <2>1 DEF Provider!Match, Provider!Decide
  <2> QED BY <1>0, <2>2, <2>3
<1>2. CASE keys # lookup[c].key /\ lookup[c].again
  <2>1. PICK k : k = [Provider!NoLookup EXCEPT !.pc = "decided", !.ok = FALSE, !.at = now, !.key = lookup[c].key]
    OBVIOUS
  <2>2. /\ k \in Provider!Lookup /\ k.pc = "decided" /\ ~k.ok
    BY <1>0, <2>1 DEF Provider!NoLookup, Provider!Lookup
  <2>3. lookup' = [lookup EXCEPT ![c] = k]
    BY <1>2, <2>1 DEF Provider!Match, Provider!Decide
  <2> QED BY <1>0, <2>2, <2>3
<1>3. CASE keys # lookup[c].key /\ ~lookup[c].again
  <2>1. PICK k : k = [lookup[c] EXCEPT !.pc = "fetch", !.again = TRUE]
    OBVIOUS
  <2>2. /\ k \in Provider!Lookup /\ k.pc = "fetch" /\ k.site = lookup[c].site /\ k.key = lookup[c].key /\ ~k.ok
    BY <1>0, <2>1 DEF Provider!Lookup
  <2>3. lookup' = [lookup EXCEPT ![c] = k]
    BY <1>0, <1>3, <2>1 DEF Provider!Match
  <2> QED BY <1>0, <2>2, <2>3
<1> QED BY <1>1, <1>2, <1>3

\* A callback goes on: keys and time stand still.
LEMMA CallbackKeepsInv ==
    ASSUME PartsAssumption, ProviderInv, NEW c \in Callbacks,
           UNCHANGED <<key, now, known>>, Provider!TypeOK',
           \A d \in Callbacks : d # c => lookup'[d] = lookup[d],
           LET l == lookup'[c]
           IN /\ l.pc \in {"token", "cache", "fetch", "store", "failed", "stale"} => l.site \in Sites
              /\ l.pc \in {"cache", "fetch", "store", "failed", "stale"} => Published(l.key)
              /\ l.pc = "store" => Published(l.got) /\ known[l.got] = now
              /\ l.pc = "stale" => cache' # None
              /\ l.ok => /\ l.pc = "decided" /\ Published(l.key)
                         /\ l.at - known[l.key] <= StaleTime,
           cache # None => cache' # None,
           RowInv'
    PROVE  ProviderInv'
<1>1. KeysInv'
  BY DEF ProviderInv, KeysInv, Published
<1>2. LookupInv'
  BY DEF ProviderInv, LookupInv, Published
<1>3. Provider!WithdrawnKeysEnd'
  BY DEF ProviderInv, Provider!WithdrawnKeysEnd
<1> QED BY <1>1, <1>2, <1>3 DEF ProviderInv

LEMMA LookupsKeepInv ==
    ASSUME PartsAssumption, ProviderInv, NEW c \in Callbacks, Provider!Callback(c)
    PROVE  ProviderInv'
<1> USE DEF Provider!At
<1>0. /\ Provider!TypeOK /\ lookup[c] \in Provider!Lookup /\ now \in 0..MaxTime /\ 0 \in 0..MaxTime
  BY DEF ProviderInv, Provider!TypeOK, PartsAssumption, Provider!ClockAssumption
<1>1. CASE Provider!LoadProvider(c)
  <2>1. PICK k : k = [Provider!NoLookup EXCEPT !.pc = "token", !.site = provider.site]
    OBVIOUS
  <2>2. provider.site \in Sites
    BY <1>0 DEF Provider!TypeOK, Provider!ProviderRow
  <2>3. k \in Provider!Lookup /\ k.pc = "token" /\ k.site \in Sites /\ ~k.ok
    BY <1>0, <2>1, <2>2 DEF Provider!NoLookup, Provider!Lookup
  <2>4. lookup' = [lookup EXCEPT ![c] = k] /\ UNCHANGED <<provider, key, up, cache, now, known>>
    BY <1>1, <2>1 DEF Provider!LoadProvider
  <2>5. Provider!TypeOK'
    BY <1>0, <2>3, <2>4 DEF Provider!TypeOK
  <2>6. lookup'[c] = k /\ \A d \in Callbacks : d # c => lookup'[d] = lookup[d]
    BY <1>0, <2>4 DEF Provider!TypeOK
  <2>7. RowInv'
    BY <2>4 DEF ProviderInv, RowInv, Published
  <2> QED BY <2>3, <2>4, <2>5, <2>6, <2>7, CallbackKeepsInv
<1>2. CASE Provider!ReceiveToken(c)
  <2>1. PICK n \in 1..key[lookup[c].site] :
           lookup' = [lookup EXCEPT ![c].pc = "cache", ![c].key = <<lookup[c].site, n>>]
    BY <1>2 DEF Provider!ReceiveToken
  <2>2. PICK k : k = [lookup[c] EXCEPT !.pc = "cache", !.key = <<lookup[c].site, n>>]
    OBVIOUS
  <2>3. /\ lookup[c].site \in Sites /\ ~lookup[c].ok /\ UNCHANGED <<provider, key, up, cache, now, known>>
    BY <1>2 DEF ProviderInv, LookupInv, Provider!ReceiveToken
  <2>4. key[lookup[c].site] \in Nat /\ key[lookup[c].site] <= MaxKey[lookup[c].site] /\ MaxKey[lookup[c].site] \in Nat
    BY <1>0, <2>3 DEF Provider!TypeOK, PartsAssumption, Provider!ClockAssumption
  <2>5. Published(<<lookup[c].site, n>>)
    BY <2>3, <2>4, KeyNames DEF Published
  <2>6. k \in Provider!Lookup /\ k.pc = "cache" /\ k.site \in Sites /\ ~k.ok /\ k.key = <<lookup[c].site, n>>
    BY <1>0, <2>2, <2>3, <2>5 DEF Published, Provider!Lookup
  <2>7. lookup' = [lookup EXCEPT ![c] = k]
    BY <1>0, <2>1, <2>2
  <2>8. Provider!TypeOK'
    BY <1>0, <2>3, <2>6, <2>7 DEF Provider!TypeOK
  <2>9. lookup'[c] = k /\ \A d \in Callbacks : d # c => lookup'[d] = lookup[d]
    BY <1>0, <2>7 DEF Provider!TypeOK
  <2>10. RowInv'
    BY <2>3 DEF ProviderInv, RowInv, Published
  <2> QED BY <2>3, <2>5, <2>6, <2>8, <2>9, <2>10, CallbackKeepsInv
<1>3. CASE Provider!NoToken(c)
  <2>1. PICK k : k = [Provider!NoLookup EXCEPT !.pc = "done"]
    OBVIOUS
  <2>2. k \in Provider!Lookup /\ k.pc = "done" /\ ~k.ok
    BY <1>0, <2>1 DEF Provider!NoLookup, Provider!Lookup
  <2>3. lookup' = [lookup EXCEPT ![c] = k] /\ UNCHANGED <<provider, key, up, cache, now, known>>
    BY <1>3, <2>1 DEF Provider!NoToken
  <2>4. Provider!TypeOK'
    BY <1>0, <2>2, <2>3 DEF Provider!TypeOK
  <2>5. lookup'[c] = k /\ \A d \in Callbacks : d # c => lookup'[d] = lookup[d]
    BY <1>0, <2>3 DEF Provider!TypeOK
  <2>6. RowInv'
    BY <2>3 DEF ProviderInv, RowInv, Published
  <2> QED BY <2>2, <2>3, <2>4, <2>5, <2>6, CallbackKeepsInv
<1>4. CASE Provider!LoadCached(c)
  <2>0. UNCHANGED <<provider, key, up, cache, now, known>> /\ lookup[c].pc = "cache"
    BY <1>4 DEF Provider!LoadCached
  <2>1. RowInv'
    BY <2>0 DEF ProviderInv, RowInv, Published
  <2>2. CASE cache # None /\ cache.keys # Provider!NoKeys /\ cache.expires > now
    <3>1. Published(cache.keys) /\ now - known[cache.keys] <= StaleTime
      BY <2>2, RowIsGood
    <3>2. Provider!Match(c, cache.keys)
      BY <1>4, <2>2 DEF Provider!LoadCached
    <3>3. /\ lookup' \in [Callbacks -> Provider!Lookup]
          /\ (\A d \in Callbacks : d # c => lookup'[d] = lookup[d])
          /\ lookup'[c].pc \in {"fetch", "decided"}
          /\ lookup'[c].pc = "fetch" => lookup'[c].site \in Sites /\ Published(lookup'[c].key) /\ ~lookup'[c].ok
          /\ lookup'[c].ok => /\ lookup'[c].pc = "decided" /\ Published(lookup'[c].key)
                              /\ lookup'[c].at - known[lookup'[c].key] <= StaleTime
      BY <2>0, <3>1, <3>2, MatchKeepsInv
    <3>4. Provider!TypeOK'
      BY <1>0, <2>0, <3>3 DEF Provider!TypeOK
    <3> QED BY <2>0, <2>1, <3>3, <3>4, CallbackKeepsInv
  <2>3. CASE ~(cache # None /\ cache.keys # Provider!NoKeys /\ cache.expires > now)
    <3>1. PICK k : k = [lookup[c] EXCEPT !.pc = "fetch"]
      OBVIOUS
    <3>2. /\ lookup[c].site \in Sites /\ Published(lookup[c].key) /\ ~lookup[c].ok
      BY <2>0 DEF ProviderInv, LookupInv
    <3>3. k \in Provider!Lookup /\ k.pc = "fetch" /\ k.site \in Sites /\ Published(k.key) /\ ~k.ok
      BY <1>0, <3>1, <3>2 DEF Provider!Lookup
    <3>4. lookup' = [lookup EXCEPT ![c] = k]
      BY <1>0, <1>4, <2>3, <3>1 DEF Provider!LoadCached
    <3>5. Provider!TypeOK'
      BY <1>0, <2>0, <3>3, <3>4 DEF Provider!TypeOK
    <3>6. lookup'[c] = k /\ \A d \in Callbacks : d # c => lookup'[d] = lookup[d]
      BY <1>0, <3>4 DEF Provider!TypeOK
    <3> QED BY <2>0, <2>1, <3>3, <3>5, <3>6, CallbackKeepsInv
  <2> QED BY <2>2, <2>3
<1>5. CASE Provider!Fetch(c)
  <2>0. /\ UNCHANGED <<provider, key, up, cache, now, known>> /\ lookup[c].pc = "fetch"
        /\ lookup[c].site \in Sites /\ Published(lookup[c].key) /\ ~lookup[c].ok
    BY <1>5 DEF Provider!Fetch, ProviderInv, LookupInv
  <2>1. RowInv'
    BY <2>0 DEF ProviderInv, RowInv, Published
  <2>2. PICK s, g : s = lookup[c].site /\ g = <<s, key[s]>>
    OBVIOUS
  <2>3. Published(g) /\ known[g] = now
    <3>1. s \in Sites /\ key[s] \in Nat /\ key[s] \in 1..MaxKey[s]
      BY <1>0, <2>0, <2>2 DEF Provider!TypeOK
    <3>2. g \in Provider!Keys /\ g[1] = s /\ g[2] = key[s]
      BY <2>2, <3>1, KeyNames
    <3> QED BY <3>1, <3>2 DEF ProviderInv, KeysInv, Published
  <2>4. PICK k : k = IF s \in up THEN [lookup[c] EXCEPT !.pc = "store", !.got = g]
                     ELSE [lookup[c] EXCEPT !.pc = "failed"]
    OBVIOUS
  <2>5. /\ k \in Provider!Lookup /\ k.pc \in {"store", "failed"} /\ k.site = s /\ k.key = lookup[c].key
        /\ ~k.ok /\ (k.pc = "store" => k.got = g)
    BY <1>0, <2>0, <2>2, <2>3, <2>4 DEF Published, Provider!Lookup
  <2>6. lookup' = [lookup EXCEPT ![c] = k]
    BY <1>0, <1>5, <2>2, <2>4 DEF Provider!Fetch
  <2>7. Provider!TypeOK'
    BY <1>0, <2>0, <2>5, <2>6 DEF Provider!TypeOK
  <2>8. lookup'[c] = k /\ \A d \in Callbacks : d # c => lookup'[d] = lookup[d]
    BY <1>0, <2>6 DEF Provider!TypeOK
  <2> QED BY <2>0, <2>1, <2>2, <2>3, <2>5, <2>7, <2>8, CallbackKeepsInv
<1>6. CASE Provider!StoreKeys(c)
  <2>0. /\ UNCHANGED <<provider, key, up, now, known>> /\ lookup[c].pc = "store"
        /\ Published(lookup[c].got) /\ known[lookup[c].got] = now
        /\ Provider!Match(c, lookup[c].got)
    BY <1>6 DEF Provider!StoreKeys, ProviderInv, LookupInv
  <2>1. /\ now \in Nat /\ MaxTime \in Nat /\ FreshTime \in Nat /\ StaleTime \in Nat
        /\ None \notin Provider!CacheRow
    BY <1>0 DEF PartsAssumption, Provider!ClockAssumption
  <2>2. PICK r : r = [keys |-> lookup[c].got, refreshed |-> now, expires |-> now + FreshTime]
    OBVIOUS
  <2>3. r \in Provider!CacheRow /\ r.keys = lookup[c].got /\ r.refreshed = now /\ r.expires = now + FreshTime
    BY <1>0, <2>0, <2>1, <2>2 DEF Provider!CacheRow, Published
  <2>4. cache' = r /\ cache' # None
    BY <1>6, <2>1, <2>2, <2>3 DEF Provider!StoreKeys
  <2>5. RowInv'
    BY <2>0, <2>1, <2>3, <2>4 DEF RowInv, Published
  <2>6. now - known[lookup[c].got] <= StaleTime
    BY <2>0, <2>1
  <2>7. /\ lookup' \in [Callbacks -> Provider!Lookup]
        /\ (\A d \in Callbacks : d # c => lookup'[d] = lookup[d])
        /\ lookup'[c].pc \in {"fetch", "decided"}
        /\ lookup'[c].pc = "fetch" => lookup'[c].site \in Sites /\ Published(lookup'[c].key) /\ ~lookup'[c].ok
        /\ lookup'[c].ok => /\ lookup'[c].pc = "decided" /\ Published(lookup'[c].key)
                            /\ lookup'[c].at - known[lookup'[c].key] <= StaleTime
    BY <2>0, <2>6, MatchKeepsInv
  <2>8. Provider!TypeOK'
    BY <1>0, <2>0, <2>3, <2>4, <2>7 DEF Provider!TypeOK
  <2> QED BY <2>0, <2>4, <2>5, <2>7, <2>8, CallbackKeepsInv
<1>7. CASE Provider!StoreFailure(c)
  <2>0. /\ UNCHANGED <<provider, key, up, now, known>> /\ lookup[c].pc = "failed"
        /\ lookup[c].site \in Sites /\ Published(lookup[c].key) /\ ~lookup[c].ok
    BY <1>7 DEF Provider!StoreFailure, ProviderInv, LookupInv
  <2>1. /\ now \in Nat /\ MaxTime \in Nat /\ FreshTime \in Nat /\ None \notin Provider!CacheRow
    BY <1>0 DEF PartsAssumption, Provider!ClockAssumption
  <2>2. PICK r : r = [keys |-> Provider!NoKeys, refreshed |-> now, expires |-> now]
    OBVIOUS
  <2>3. r \in Provider!CacheRow /\ r.keys = Provider!NoKeys
    BY <1>0, <2>1, <2>2 DEF Provider!CacheRow
  <2>4. cache' = IF cache = None THEN r ELSE cache
    BY <1>7, <2>2 DEF Provider!StoreFailure
  <2>5. cache' # None /\ cache' \in Provider!CacheRow
    BY <1>0, <2>1, <2>3, <2>4 DEF Provider!TypeOK
  <2>6. RowInv'
    BY <2>0, <2>3, <2>4 DEF ProviderInv, RowInv, Published
  <2>7. PICK k : k = [lookup[c] EXCEPT !.pc = "stale"]
    OBVIOUS
  <2>8. k \in Provider!Lookup /\ k.pc = "stale" /\ k.site \in Sites /\ Published(k.key) /\ ~k.ok
    BY <1>0, <2>0, <2>7 DEF Provider!Lookup
  <2>9. lookup' = [lookup EXCEPT ![c] = k]
    BY <1>0, <1>7, <2>7 DEF Provider!StoreFailure
  <2>10. Provider!TypeOK'
    BY <1>0, <2>0, <2>5, <2>8, <2>9 DEF Provider!TypeOK
  <2>11. lookup'[c] = k /\ \A d \in Callbacks : d # c => lookup'[d] = lookup[d]
    BY <1>0, <2>9 DEF Provider!TypeOK
  <2> QED BY <2>0, <2>5, <2>6, <2>8, <2>10, <2>11, CallbackKeepsInv
<1>8. CASE Provider!LoadStale(c)
  <2>0. UNCHANGED <<provider, key, up, cache, now, known>> /\ lookup[c].pc = "stale" /\ cache # None
    BY <1>8 DEF Provider!LoadStale, ProviderInv, LookupInv
  <2>1. RowInv'
    BY <2>0 DEF ProviderInv, RowInv, Published
  <2>2. CASE cache.keys # Provider!NoKeys /\ cache.refreshed > now - StaleTime
    <3>1. Published(cache.keys) /\ now - known[cache.keys] <= StaleTime
      BY <2>0, <2>2, RowIsGood
    <3>2. Provider!Match(c, cache.keys)
      BY <1>8, <2>2 DEF Provider!LoadStale
    <3>3. /\ lookup' \in [Callbacks -> Provider!Lookup]
          /\ (\A d \in Callbacks : d # c => lookup'[d] = lookup[d])
          /\ lookup'[c].pc \in {"fetch", "decided"}
          /\ lookup'[c].pc = "fetch" => lookup'[c].site \in Sites /\ Published(lookup'[c].key) /\ ~lookup'[c].ok
          /\ lookup'[c].ok => /\ lookup'[c].pc = "decided" /\ Published(lookup'[c].key)
                              /\ lookup'[c].at - known[lookup'[c].key] <= StaleTime
      BY <2>0, <3>1, <3>2, MatchKeepsInv
    <3>4. Provider!TypeOK'
      BY <1>0, <2>0, <3>3 DEF Provider!TypeOK
    <3> QED BY <2>0, <2>1, <3>3, <3>4, CallbackKeepsInv
  <2>3. CASE ~(cache.keys # Provider!NoKeys /\ cache.refreshed > now - StaleTime)
    <3>1. PICK k : k = [Provider!NoLookup EXCEPT !.pc = "decided", !.ok = FALSE, !.at = now, !.key = lookup[c].key]
      OBVIOUS
    <3>2. k \in Provider!Lookup /\ k.pc = "decided" /\ ~k.ok
      BY <1>0, <3>1 DEF Provider!NoLookup, Provider!Lookup
    <3>3. lookup' = [lookup EXCEPT ![c] = k]
      BY <1>8, <2>3, <3>1 DEF Provider!LoadStale, Provider!Decide
    <3>4. Provider!TypeOK'
      BY <1>0, <2>0, <3>2, <3>3 DEF Provider!TypeOK
    <3>5. lookup'[c] = k /\ \A d \in Callbacks : d # c => lookup'[d] = lookup[d]
      BY <1>0, <3>3 DEF Provider!TypeOK
    <3> QED BY <2>0, <2>1, <3>2, <3>4, <3>5, CallbackKeepsInv
  <2> QED BY <2>2, <2>3
<1> QED BY <1>1, <1>2, <1>3, <1>4, <1>5, <1>6, <1>7, <1>8 DEF Provider!Callback

\* The provider's row changes, and its keys; time passes when no callback is on its way.
LEMMA WorldKeepsInv ==
    ASSUME PartsAssumption, ProviderInv, Provider!TypeOK', KeysInv', Grows,
           UNCHANGED <<cache, lookup>>, now' \in Nat, now' >= now,
           \A c \in Callbacks : lookup[c].pc = "store" =>
              now' = now /\ (Published(lookup[c].got) => known'[lookup[c].got] = known[lookup[c].got])
    PROVE  ProviderInv'
<1>0. /\ now \in Nat /\ \A k \in Provider!Keys : Published(k) => known[k] \in Int /\ Published(k)'
      /\ cache # None => cache.refreshed \in Int
      /\ StaleTime \in Int /\ \A c \in Callbacks : lookup[c].at \in Int
  BY DEF ProviderInv, KeysInv, Published, Grows, Provider!TypeOK, Provider!CacheRow, Provider!Lookup,
         PartsAssumption, Provider!ClockAssumption
<1>1. RowInv'
  BY <1>0 DEF ProviderInv, RowInv, Grows, Published
<1>2. LookupInv'
  BY <1>0 DEF ProviderInv, LookupInv, Grows, Published
<1>3. Provider!WithdrawnKeysEnd'
  <2> SUFFICES ASSUME NEW c \in Callbacks, lookup[c].ok
               PROVE  lookup[c].at - known'[lookup[c].key] <= StaleTime
    BY DEF Provider!WithdrawnKeysEnd
  <2>1. Published(lookup[c].key) /\ lookup[c].key \in Provider!Keys
    BY DEF ProviderInv, LookupInv, Published
  <2>2. /\ known'[lookup[c].key] \in Int /\ known[lookup[c].key] \in Int
        /\ known'[lookup[c].key] >= known[lookup[c].key]
    BY <1>0, <2>1 DEF Grows
  <2>3. lookup[c].at - known[lookup[c].key] <= StaleTime
    BY DEF ProviderInv, Provider!WithdrawnKeysEnd
  <2> QED BY <1>0, <2>2, <2>3
<1> QED BY <1>1, <1>2, <1>3 DEF ProviderInv

LEMMA ProviderStepKeepsInv ==
    ASSUME PartsAssumption, ProviderInv, [Provider!Next]_Provider!vars
    PROVE  ProviderInv'
<1>0. /\ Provider!TypeOK /\ now \in Nat /\ now \in 0..MaxTime /\ MaxTime \in Nat
      /\ \A k \in Provider!Keys : Published(k) => known[k] \in Int
  BY DEF ProviderInv, Provider!TypeOK, KeysInv, PartsAssumption, Provider!ClockAssumption
<1>1. CASE UNCHANGED Provider!vars
  BY <1>1 DEF Provider!vars, ProviderInv, Provider!TypeOK, KeysInv, RowInv, LookupInv, Published,
              Provider!WithdrawnKeysEnd
<1>2. ASSUME NEW c \in Callbacks, Provider!Callback(c) PROVE ProviderInv'
  BY <1>2, LookupsKeepInv
<1>3. CASE Provider!UpsertProvider \/ Provider!SetProviderEnabled
  <2>1. UNCHANGED <<key, up, cache, now, lookup, known>>
    BY <1>3 DEF Provider!UpsertProvider, Provider!SetProviderEnabled
  <2>2. provider' \in Provider!ProviderRow
    <3>1. provider \in [site : Sites, enabled : BOOLEAN]
      BY <1>0 DEF Provider!TypeOK, Provider!ProviderRow
    <3>2. CASE Provider!UpsertProvider
      BY <3>2 DEF Provider!UpsertProvider, Provider!ProviderRow
    <3>3. CASE Provider!SetProviderEnabled
      <4>1. PICK e \in BOOLEAN : e = ~provider.enabled
        OBVIOUS
      <4>2. provider' = [provider EXCEPT !.enabled = e]
        BY <3>3, <4>1 DEF Provider!SetProviderEnabled
      <4> QED BY <3>1, <4>2 DEF Provider!ProviderRow
    <3> QED BY <1>3, <3>2, <3>3
  <2> QED BY <2>1, <2>2 DEF ProviderInv, Provider!TypeOK, KeysInv, RowInv, LookupInv, Published,
                            Provider!WithdrawnKeysEnd
<1>4. ASSUME NEW s \in Sites, Provider!RotateKey(s) PROVE ProviderInv'
  <2>1. PICK n, new : n = key[s] + 1 /\ new = <<s, n>>
    OBVIOUS
  <2>2. /\ key' = [key EXCEPT ![s] = n] /\ known' = [known EXCEPT ![new] = now]
        /\ UNCHANGED <<provider, up, cache, now, lookup>>
    BY <1>4, <2>1 DEF Provider!RotateKey
  <2>3. /\ key[s] \in Nat /\ key[s] \in 1..MaxKey[s] /\ n \in Nat /\ n \in 1..MaxKey[s] /\ key[s] < n
    BY <1>0, <1>4, <2>1 DEF Provider!TypeOK, Provider!RotateKey, PartsAssumption, Provider!ClockAssumption
  <2>4. new \in Provider!Keys /\ new[1] = s /\ new[2] = n /\ ~Published(new)
    BY <2>1, <2>3, KeyNames DEF Published
  <2>5. /\ key' \in [Sites -> Nat] /\ key'[s] = n /\ \A r \in Sites : r # s => key'[r] = key[r]
        /\ known' \in [Provider!Keys -> 0..MaxTime \union {None}]
        /\ known'[new] = now /\ \A k \in Provider!Keys : k # new => known'[k] = known[k]
    BY <1>0, <2>2, <2>3, <2>4 DEF Provider!TypeOK
  <2>6. Provider!TypeOK'
    BY <1>0, <2>2, <2>3, <2>5 DEF Provider!TypeOK
  <2>7. ASSUME NEW k \in Provider!Keys, k # new
        PROVE  /\ k[1] \in Sites /\ k[2] \in Nat /\ key[k[1]] \in Nat
               /\ k[2] <= key'[k[1]] => k[2] <= key[k[1]]
               /\ k[2] <= key[k[1]] => k[2] <= key'[k[1]]
               /\ k[2] = key'[k[1]] => k[2] = key[k[1]]
    <3>1. /\ k[1] \in Sites /\ k[2] \in 1..MaxKey[k[1]] /\ MaxKey[k[1]] \in Nat /\ k = <<k[1], k[2]>>
          /\ key[k[1]] \in Nat
      BY <1>0, KeyNames DEF PartsAssumption, Provider!ClockAssumption, Provider!TypeOK
    <3>2. CASE k[1] # s
      BY <2>5, <3>1, <3>2
    <3>3. CASE k[1] = s
      <4>1. k[2] # n
        BY <2>1, <2>7, <3>1, <3>3
      <4> QED BY <2>1, <2>3, <2>5, <3>1, <3>3, <4>1
    <3> QED BY <3>2, <3>3
  <2>8. KeysInv'
    BY <1>0, <2>2, <2>4, <2>5, <2>7 DEF ProviderInv, KeysInv, Published
  <2>9. Grows
    BY <1>0, <2>4, <2>5, <2>7 DEF Grows, Published
  <2>10. \A k \in Provider!Keys : Published(k) => known'[k] = known[k]
    BY <2>4, <2>5
  <2>11. \A c \in Callbacks : lookup[c].pc = "store" =>
            now' = now /\ (Published(lookup[c].got) => known'[lookup[c].got] = known[lookup[c].got])
    BY <2>2, <2>10 DEF Published
  <2> QED BY <1>0, <2>2, <2>6, <2>8, <2>9, <2>11, WorldKeepsInv
<1>5. ASSUME NEW s \in Sites, Provider!Outage(s) PROVE ProviderInv'
  <2>1. up' \subseteq Sites /\ UNCHANGED <<provider, key, cache, now, lookup, known>>
    BY <1>0, <1>5 DEF Provider!Outage, Provider!TypeOK
  <2> QED BY <2>1 DEF ProviderInv, Provider!TypeOK, KeysInv, RowInv, LookupInv, Published,
                      Provider!WithdrawnKeysEnd
<1>6. CASE Provider!Tick
  <2>1. /\ now' = now + 1 /\ now < MaxTime /\ UNCHANGED <<provider, key, up, cache, lookup>>
        /\ known' = [k \in Provider!Keys |-> IF k[2] = key[k[1]] THEN now + 1 ELSE known[k]]
        /\ \A c \in Callbacks : lookup[c].pc # "store"
    BY <1>6 DEF Provider!Tick, Provider!InFlight
  <2>2. now' \in Nat /\ now' \in 0..MaxTime /\ now' >= now
    BY <1>0, <2>1
  <2>3. known' \in [Provider!Keys -> 0..MaxTime \union {None}]
    BY <1>0, <2>1, <2>2 DEF Provider!TypeOK
  <2>4. Provider!TypeOK'
    BY <1>0, <2>1, <2>2, <2>3 DEF Provider!TypeOK
  <2>5. \A k \in Provider!Keys : Published(k) => known[k] \in 0..now
    BY DEF ProviderInv, KeysInv
  <2>6. KeysInv'
    BY <1>0, <2>1, <2>2, <2>5 DEF KeysInv, Published
  <2>7. Grows
    BY <1>0, <2>1, <2>2, <2>5 DEF Grows, Published
  <2> QED BY <1>0, <2>1, <2>2, <2>4, <2>6, <2>7, WorldKeepsInv
<1> QED BY <1>1, <1>2, <1>3, <1>4, <1>5, <1>6 DEF Provider!Next

LEMMA ProviderInit == ASSUME PartsAssumption, Provider!Init PROVE ProviderInv
<1>0. /\ \A s \in Sites : MaxKey[s] \in Nat /\ MaxKey[s] >= 1
      /\ MaxTime \in Nat /\ 0 \in 0..MaxTime /\ Sites # {}
  BY DEF PartsAssumption, Provider!ClockAssumption, Sites
<1>1. (CHOOSE s \in Sites : TRUE) \in Sites
  BY <1>0
<1>2. provider \in Provider!ProviderRow
  BY <1>1 DEF Provider!Init, Provider!ProviderRow
<1>3. /\ key \in [Sites -> Nat] /\ (\A s \in Sites : key[s] = 1) /\ up \subseteq Sites
      /\ cache = None /\ now = 0 /\ lookup = [c \in Callbacks |-> Provider!NoLookup]
      /\ known = [k \in Provider!Keys |-> IF k[2] = 1 THEN 0 ELSE None]
  BY DEF Provider!Init
<1>4. Provider!NoLookup \in Provider!Lookup /\ Provider!NoLookup.pc = "idle" /\ ~Provider!NoLookup.ok
  BY <1>0 DEF Provider!NoLookup, Provider!Lookup
<1>5. Provider!TypeOK
  BY <1>0, <1>2, <1>3, <1>4 DEF Provider!TypeOK
<1>6. KeysInv
  <2>1. \A k \in Provider!Keys : k[1] \in Sites /\ k[2] \in 1..MaxKey[k[1]]
    BY KeyNames
  <2>2. \A k \in Provider!Keys : k[2] <= key[k[1]] => k[2] = 1
    BY <1>0, <1>3, <2>1
  <2> QED BY <1>3, <2>1, <2>2 DEF KeysInv, Published
<1>7. RowInv /\ LookupInv /\ Provider!WithdrawnKeysEnd
  BY <1>3, <1>4 DEF RowInv, LookupInv, Provider!WithdrawnKeysEnd
<1> QED BY <1>5, <1>6, <1>7 DEF ProviderInv

\* The keys move as ProviderKeys says, or not at all.
LEMMA ProviderMoves == Spec => Provider!Spec
<1>1. Init => Provider!Init
  BY DEF Init
<1>2. [Next]_vars => [Provider!Next]_Provider!vars
  BY DEF Next, SessionStep, TenantStep, ProviderStep, vars, providerVars, Provider!vars
<1> QED BY <1>1, <1>2, PTL DEF Spec, Provider!Spec

LEMMA ProviderInvHolds == Spec => []ProviderInv
<1>1. Provider!Init => ProviderInv
  BY PartsAssumption, ProviderInit
<1>2. ProviderInv /\ [Provider!Next]_Provider!vars => ProviderInv'
  BY PartsAssumption, ProviderStepKeepsInv
<1> QED BY <1>1, <1>2, ProviderMoves, PTL DEF Provider!Spec

\* No callback accepts a token of a key its site has not published for the time a row of the
\* cache may be stale, however callbacks, outages and new keys follow each other, where a row is
\* fresh for no longer than that (enterprise_identity.py 449-531).
THEOREM WithdrawalHolds == Spec => []WithdrawnKeysEnd
<1>1. ProviderInv => WithdrawnKeysEnd
  BY DEF ProviderInv, WithdrawnKeysEnd
<1> QED BY <1>1, ProviderInvHolds, PTL

\* Each part's variables keep their types, the calls' values by what they do among them.
THEOREM TypesHold == Spec => []Typed
<1>1. SessionInv => Session!TypeOK
  BY DEF SessionInv, OnceInv, CallsInv
<1>2. Spec => []Tenant!TypeOK
  <2>1. Tenant!Spec => []Tenant!TypeOK
    BY PartsAssumption, Tenant!TypesHold DEF PartsAssumption
  <2> QED BY <2>1, TenantMoves, PTL
<1>3. Spec => []Provider!TypeOK
  <2>1. ProviderInv => Provider!TypeOK
    BY DEF ProviderInv
  <2> QED BY <2>1, ProviderInvHolds, PTL
<1>4. Session!TypeOK /\ Tenant!TypeOK /\ Provider!TypeOK => Typed
  BY DEF Typed
<1> QED BY <1>1, <1>2, <1>3, <1>4, SessionInvHolds, PTL
=============================================================================
