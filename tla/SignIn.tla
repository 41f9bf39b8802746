------------------------------- MODULE SignIn -------------------------------
(***************************************************************************)
(* Signing in and what is handed out on the way: MFA sessions, refresh     *)
(* tokens, password reset tokens and OIDC login states (main.py, the       *)
(* /auth endpoints; services/enterprise_identity.py).                      *)
(*                                                                         *)
(* Every call is a thread that makes one request; what it does between two *)
(* commits is one step. A row is named after the call that made it. The    *)
(* transactions are PostgreSQL's read committed ones: a statement sees     *)
(* what is committed when it starts, and an UPDATE of a user's row waits   *)
(* for another's. A row past its time is never read again: Expire takes it *)
(* away. Calls that are refused at once change nothing and are left out.   *)
(* The database role passes over row level security, as that of the        *)
(* default DATABASE_URL does; TenantIsolation is about the other kind.     *)
(***************************************************************************)
EXTENDS Integers, FiniteSets

CONSTANTS
    Users,
    Calls,
    SoftMail,  \* mail may fail softly: the local set-up of soft_fail_email_delivery_for_local
    Original,  \* the password and the TOTP secret a user begins with
    None

VARIABLES
    users,     \* tenant_users: the password, the TOTP secret, mfa_enabled, and whether
               \* the user is admitted: active, with verified e-mail and domain
    sessions,  \* auth_mfa_sessions
    tokens,    \* auth_refresh_tokens
    resets,    \* auth_password_reset_tokens
    states,    \* oidc_login_states
    spent,     \* the authorization codes the identity provider has exchanged
    call,      \* where each call is
    uses,      \* history: which call used which session, reset token or state
    beside     \* history: the pairs of calls that ran at the same time

vars == <<users, sessions, tokens, resets, states, spent, call, uses, beside>>
rows == <<users, sessions, tokens, resets, states, spent>>
history == <<uses, beside>>

NoneAssumption == None \notin Calls \union Users

Versions == Calls \union {Original}
Codes == {1, 2}

\* database/migrations.py: the columns of the tables that matter here.
UserRow == [password : Versions, totp : Versions \union {None}, mfa : BOOLEAN, admitted : BOOLEAN]
SessionRow == [id : Calls, user : Users, password : Versions, step : {"otp", "mfa_reset"}]
TokenRow == [id : Calls, user : Users, revoked : BOOLEAN, of : Calls \union {None},
             password : Versions,  \* history: the password the sign-in has checked
             under : Versions]     \* history: the password when the token was issued
ResetRow == [id : Calls, user : Users, used : BOOLEAN]
StateRow == [id : Calls, used : BOOLEAN]

CallRecord == [op : {"none", "login", "verify", "mfaRequest", "mfaConfirm", "request", "reset",
                     "authorize", "oidc", "refresh", "logout"},
               pc : {"new", "session", "code", "issue", "close", "rotate", "insert", "sweep", "commit",
                     "exchange", "upsert", "mark", "done", "dead"},
               user : Users \union {None}, password : Versions \union {None},
               of : Calls \union {None}, seen : SUBSET Calls]
NewCall == [op |-> "none", pc |-> "new", user |-> None, password |-> None, of |-> None, seen |-> {}]

Init == /\ users \in [Users -> {[password |-> Original, totp |-> s, mfa |-> m, admitted |-> a] :
                                  s \in {Original, None}, m \in BOOLEAN, a \in BOOLEAN}]
        /\ sessions = {} /\ tokens = {} /\ resets = {} /\ states = {} /\ spent = {}
        /\ call = [c \in Calls |-> NewCall]
        /\ uses = {} /\ beside = {}

-----------------------------------------------------------------------------
Running(c) == call[c].pc \notin {"new", "done", "dead"}

Begin(c, record) ==
    /\ call[c].pc = "new"
    /\ call' = [call EXCEPT ![c] = record]
    /\ beside' = beside \union {{c, d} : d \in {x \in Calls : Running(x)}}

\* Call c starts: it does op for user u, in the name of row r, and goes on at pc.
Start(c, op, u, r, pc) ==
    Begin(c, [NewCall EXCEPT !.op = op, !.pc = pc, !.user = u, !.of = r,
                 !.password = IF u = None THEN None ELSE users[u].password])

Goto(c, pc) == call' = [call EXCEPT ![c].pc = pc]
At(c, pc) == call[c].pc = pc
User(c) == call[c].user

\* The row locks a password reset holds between its UPDATEs and its commit.
Resetting == {c \in Calls : At(c, "commit")}
Locked(u) == \E c \in Resetting : User(c) = u
TokenLocked(r) == \E c \in Resetting : call[c].of = r

-----------------------------------------------------------------------------
(***************************************************************************)
(* Signing in with a password.                                             *)
(***************************************************************************)

\* auth_login reads the user, whose password it has been given.
Login(c, u) ==
    /\ users[u].admitted
    /\ users[u].mfa => users[u].totp # None
    /\ Start(c, "login", u, None, IF users[u].mfa THEN "session" ELSE "issue")
    /\ UNCHANGED <<rows, uses>>

\* store_auth_session, for a login or an MFA reset.
OpenSession(c) ==
    /\ At(c, "session")
    /\ sessions' = sessions \union
          {[id |-> c, user |-> User(c), password |-> call[c].password,
            step |-> IF call[c].op = "login" THEN "otp" ELSE "mfa_reset"]}
    /\ Goto(c, "done")
    /\ UNCHANGED <<users, tokens, resets, states, spent, history>>

\* load_auth_session: a live session whose step is the caller's.
Load(c, op, step, pc) ==
    \E s \in sessions :
        /\ s.step = step
        /\ Begin(c, [NewCall EXCEPT !.op = op, !.pc = pc, !.user = s.user, !.of = s.id,
                                    !.password = s.password])
        /\ UNCHANGED <<rows, uses>>

\* auth_verify_otp: the session, then the secret, against which the code is checked.
VerifyOtp(c) == Load(c, "verify", "otp", "code")
CheckCode(c) ==
    /\ At(c, "code")
    /\ \E right \in BOOLEAN :
          Goto(c, IF users[User(c)].totp # None /\ right THEN "issue" ELSE "done")
    /\ UNCHANGED <<rows, history>>

\* create_refresh_token_for_user.
Issue(c) ==
    /\ At(c, "issue")
    /\ tokens' = tokens \union {[id |-> c, user |-> User(c), revoked |-> FALSE, of |-> call[c].of,
                                 password |-> call[c].password, under |-> users[User(c)].password]}
    /\ uses' = uses \union {[call |-> c, of |-> call[c].of] : x \in {call[c].of} \ {None}}
    /\ Goto(c, IF call[c].op = "verify" THEN "close" ELSE "done")
    /\ UNCHANGED <<users, sessions, resets, states, spent, beside>>

\* A mutant: the session is left to expire.
CloseNot(c) ==
    /\ At(c, "close")
    /\ Goto(c, "done")
    /\ UNCHANGED <<rows, history>>
\* delete_auth_session, the last thing a session's user does.
Close(c) ==
    /\ At(c, "close")
    /\ sessions' = {s \in sessions : s.id # call[c].of}
    /\ Goto(c, "done")
    /\ UNCHANGED <<users, tokens, resets, states, spent, history>>

-----------------------------------------------------------------------------
(***************************************************************************)
(* A new TOTP secret.                                                      *)
(***************************************************************************)

\* auth_mfa_reset_request; the mail that follows may fail, and the session stays.
RequestMfaReset(c, u) ==
    /\ users[u].admitted
    /\ Start(c, "mfaRequest", u, None, "session")
    /\ UNCHANGED <<rows, uses>>

\* auth_mfa_reset_confirm, with the session or, where mail fails softly, the password.
ConfirmMfaReset(c) ==
    \/ Load(c, "mfaConfirm", "mfa_reset", "rotate")
    \/ \E u \in Users :
          /\ SoftMail /\ users[u].admitted
          /\ Start(c, "mfaConfirm", u, None, "rotate")
          /\ UNCHANGED <<rows, uses>>
RotateSecret(c) ==
    /\ At(c, "rotate") /\ ~Locked(User(c))
    /\ users' = [users EXCEPT ![User(c)].totp = c, ![User(c)].mfa = TRUE]
    /\ uses' = uses \union {[call |-> c, of |-> call[c].of] : x \in {call[c].of} \ {None}}
    /\ Goto(c, "close")
    /\ UNCHANGED <<sessions, tokens, resets, states, spent, beside>>

-----------------------------------------------------------------------------
(***************************************************************************)
(* A new password.                                                         *)
(***************************************************************************)

\* auth_password_reset_request: its DELETE sees the unused tokens of the user ...
RequestReset(c, u) ==
    /\ users[u].admitted
    /\ Begin(c, [NewCall EXCEPT !.op = "request", !.pc = "insert", !.user = u,
                    !.seen = {r.id : r \in {x \in resets : x.user = u /\ ~x.used}}])
    /\ UNCHANGED <<rows, uses>>
\* ... and its commit takes those away that are still unused, and adds a new one.
InsertReset(c) ==
    /\ At(c, "insert") /\ \A r \in call[c].seen : ~TokenLocked(r)
    /\ resets' = {r \in resets : r.id \in call[c].seen => r.used}
                    \union {[id |-> c, user |-> User(c), used |-> FALSE]}
    /\ Goto(c, "done")
    /\ UNCHANGED <<users, sessions, tokens, states, spent, history>>

\* auth_password_reset_confirm reads an unused token ...
ConfirmReset(c) ==
    \E r \in resets :
        /\ ~r.used /\ users[r.user].admitted
        /\ Start(c, "reset", r.user, r.id, "sweep")
        /\ UNCHANGED <<rows, uses>>
\* ... locks the user's row and sees the refresh tokens there are ...
SweepTokens(c) ==
    /\ At(c, "sweep") /\ ~Locked(User(c))
    /\ call' = [call EXCEPT ![c].pc = "commit",
                            ![c].seen = {t.id : t \in {x \in tokens : x.user = User(c)}}]
    /\ UNCHANGED <<rows, history>>
\* A mutant: the refresh tokens are left to expire.
CommitResetOnly(c) ==
    /\ At(c, "commit")
    /\ users' = [users EXCEPT ![User(c)].password = c]
    /\ resets' = {[r EXCEPT !.used = @ \/ r.id = call[c].of] : r \in resets}
    /\ uses' = uses \union {[call |-> c, of |-> call[c].of]}
    /\ Goto(c, "done")
    /\ UNCHANGED <<sessions, tokens, states, spent, beside>>
\* ... and commits the password, the token's use and the revocations.
CommitReset(c) ==
    /\ At(c, "commit")
    /\ users' = [users EXCEPT ![User(c)].password = c]
    /\ resets' = {[r EXCEPT !.used = @ \/ r.id = call[c].of] : r \in resets}
    /\ tokens' = {[t EXCEPT !.revoked = @ \/ t.id \in call[c].seen] : t \in tokens}
    /\ uses' = uses \union {[call |-> c, of |-> call[c].of]}
    /\ Goto(c, "done")
    /\ UNCHANGED <<sessions, states, spent, beside>>
-----------------------------------------------------------------------------
(***************************************************************************)
(* Signing in at the tenant's identity provider.                           *)
(***************************************************************************)

\* create_authorization_request.
Authorize(c) ==
    /\ Start(c, "authorize", None, None, "done")
    /\ states' = states \union {[id |-> c, used |-> FALSE]}
    /\ UNCHANGED <<users, sessions, tokens, resets, spent, uses>>

\* complete_oidc_callback: _load_state ...
LoadState(c) ==
    \E s \in states :
        /\ ~s.used
        /\ Start(c, "oidc", None, s.id, "exchange")
        /\ UNCHANGED <<rows, uses>>
\* ... the exchange of the code, which the provider does once, and the checks of what
\* it gives, any of which may end the call ...
Exchange(c) ==
    /\ At(c, "exchange")
    /\ \/ \E k \in Codes : /\ <<call[c].of, k>> \notin spent
                           /\ spent' = spent \union {<<call[c].of, k>>}
                           /\ Goto(c, "upsert") \/ Goto(c, "done")
       \/ Goto(c, "done") /\ UNCHANGED spent
    /\ UNCHANGED <<users, sessions, tokens, resets, states, history>>
\* ... upsert_oidc_user, for a user the tenant knows ...
UpsertUser(c) ==
    /\ At(c, "upsert")
    /\ \E u \in Users :
          /\ ~Locked(u)
          /\ users' = [users EXCEPT ![u].admitted = TRUE]
          /\ call' = [call EXCEPT ![c].pc = "mark", ![c].user = u, ![c].password = users[u].password]
    /\ UNCHANGED <<sessions, tokens, resets, states, spent, history>>
\* ... and _mark_state_used; the refresh token follows.
MarkState(c) ==
    /\ At(c, "mark")
    /\ states' = {[s EXCEPT !.used = @ \/ s.id = call[c].of] : s \in states}
    /\ Goto(c, "issue")
    /\ UNCHANGED <<users, sessions, tokens, resets, spent, history>>

-----------------------------------------------------------------------------
\* validate_refresh_token_record.
Good(t) == ~t.revoked /\ users[t.user].admitted

\* auth_refresh: a good refresh token gives an access token, and nothing is written.
Refresh(c) ==
    \E t \in tokens : /\ Good(t)
                      /\ Start(c, "refresh", t.user, t.of, "done")
                      /\ UNCHANGED <<rows, uses>>

\* auth_logout: revoke_authclaw_refresh_token.
Logout(c) ==
    \E t \in tokens :
        /\ Start(c, "logout", t.user, None, "done")
        /\ tokens' = (tokens \ {t}) \union {[t EXCEPT !.revoked = TRUE]}
        /\ UNCHANGED <<users, sessions, resets, states, spent, uses>>

\* The process is killed or a connection breaks: what is not committed is undone.
Die(c) ==
    /\ Running(c)
    /\ Goto(c, "dead")
    /\ UNCHANGED <<rows, history>>

\* Time goes by: 5 minutes for a session, 30 for a reset token, 10 for a state.
Expire ==
    /\ \/ \E s \in sessions : sessions' = sessions \ {s} /\ UNCHANGED <<resets, states>>
       \/ \E r \in resets : resets' = resets \ {r} /\ UNCHANGED <<sessions, states>>
       \/ \E s \in states : states' = states \ {s} /\ UNCHANGED <<sessions, resets>>
    /\ UNCHANGED <<users, tokens, spent, call, history>>

-----------------------------------------------------------------------------
Password(c) == OpenSession(c) \/ VerifyOtp(c) \/ CheckCode(c) \/ Issue(c) \/ Close(c)
Mfa(c) == ConfirmMfaReset(c) \/ RotateSecret(c)
Reset(c) == InsertReset(c) \/ ConfirmReset(c) \/ SweepTokens(c) \/ CommitReset(c)
Oidc(c) == Authorize(c) \/ LoadState(c) \/ Exchange(c) \/ UpsertUser(c) \/ MarkState(c)

Next == \/ \E c \in Calls : \/ \E u \in Users : Login(c, u) \/ RequestMfaReset(c, u) \/ RequestReset(c, u)
                            \/ Password(c) \/ Mfa(c) \/ Reset(c) \/ Oidc(c)
                            \/ Refresh(c) \/ Logout(c) \/ Die(c)
        \/ Expire

Spec == Init /\ [][Next]_vars

-----------------------------------------------------------------------------
TypeOK ==
    /\ users \in [Users -> UserRow]
    /\ sessions \subseteq SessionRow /\ tokens \subseteq TokenRow
    /\ resets \subseteq ResetRow /\ states \subseteq StateRow
    /\ spent \subseteq Calls \X Codes
    /\ uses \subseteq [call : Calls, of : Calls]
    /\ beside \subseteq SUBSET Calls
    /\ call \in [Calls -> CallRecord]

(***************************************************************************)
(* What may be used once is used once: an MFA session, a reset token or a  *)
(* login state serves two calls only when they ran at the same time, or    *)
(* when the first died before it could close it (main.py 6194-6246,        *)
(* 6249-6332, 6397-6487; enterprise_identity.py 741-760: each reads it in  *)
(* a transaction before the one that marks or deletes it).                 *)
(***************************************************************************)
UsedOnce ==
    \A a, b \in uses :
        a.of = b.of /\ a.call # b.call =>
            {a.call, b.call} \in beside \/ At(a.call, "dead") \/ At(b.call, "dead")

(***************************************************************************)
(* A password reset ends what was signed in before: a refresh token that   *)
(* is good although its sign-in checked another password was issued by a   *)
(* call that ran beside the reset, or after it, through a session opened   *)
(* before it, which the reset does not end (main.py 6213-6240).            *)
(***************************************************************************)
ResetSignsOut ==
    \A t \in tokens :
        LET current == users[t.user].password
        IN ~t.revoked /\ t.password # current =>
              {t.id, current} \in beside \/ (t.under = current /\ t.of # None)
=============================================================================
