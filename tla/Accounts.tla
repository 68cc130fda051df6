------------------------------ MODULE Accounts ------------------------------
(***************************************************************************)
(* The user server: registration, login, refresh-token rotation, logout    *)
(* and the change of a password, over the rows of user_sessions and one    *)
(* row of users, as the apiserver's auth proxy forwards them.              *)
(*                                                                         *)
(* One user name is enough: every statement of these handlers names the    *)
(* user id of the token or the name of the body, and rows of two users     *)
(* never meet.  Several devices of that user call the server, two calls    *)
(* of one device included, and a call is a few statements under READ       *)
(* COMMITTED: what a transaction wrote is seen by the others when it       *)
(* commits, SELECT ... FOR UPDATE and UPDATE wait for the holder of a row. *)
(* A step may end with a database error, and any answer may be lost.       *)
(***************************************************************************)
EXTENDS Naturals, FiniteSets

CONSTANTS
  Devices,       \* the devices (or browser tabs) of the user
  Calls,         \* requests that can be in flight at once
  MaxTokens,     \* bound: refresh tokens ever generated
  MaxVersions,   \* bound: passwords ever set
  MaxFaults,     \* bound: database errors and lost answers
  MaxExpired     \* bound: sessions whose term runs out

ASSUME AccountsAssumption ==
  /\ MaxTokens \in Nat /\ MaxVersions \in Nat \ {0} /\ MaxFaults \in Nat
  /\ MaxExpired \in Nat

Tokens == 1 .. MaxTokens
Nobody == 0                     \* no token; also no password: not registered

VARIABLES
  hash,       \* users.password_hash, as the number of passwords set so far
  rows,       \* user_sessions by token: state, replaced_by, the login it stems from,
              \* the password it was inserted under, whether amid a change of it
  held,       \* the refresh token a device keeps
  call,       \* the requests in flight
  made,       \* refresh tokens generated so far
  presented,  \* the refresh calls that have presented a token: 0, 1 or more
  faults      \* faults so far

vars == <<hash, rows, held, call, made, presented, faults>>

Absent == [state |-> "absent", by |-> Nobody, login |-> Nobody, expired |-> FALSE,
           under |-> Nobody, amid |-> FALSE]
Idle == [pc |-> "idle", op |-> "none", dev |-> Nobody,
         token |-> Nobody, new |-> Nobody, seen |-> {}]

LiveRows == {t \in Tokens : rows[t].state = "live"}
Login(t) == rows[t].login

\* The call whose transaction holds the row lock of a session, if any.
Holds(c, t) == call[c].pc \in {"locked", "sweeping"} /\ call[c].token = t
Unlocked(t) == \A c \in Calls : ~Holds(c, t)

Init ==
  /\ hash = Nobody
  /\ rows = [t \in Tokens |-> Absent]
  /\ held = [d \in Devices |-> Nobody]
  /\ call = [c \in Calls |-> Idle]
  /\ made = 0
  /\ presented = [t \in Tokens |-> 0]
  /\ faults = 0

\* The handler is over; its answer reaches the device, or does not.
Answer(c, keep) ==
  /\ call' = [call EXCEPT ![c] = Idle]
  /\ \/ /\ held' = [held EXCEPT ![call[c].dev] = keep]
        /\ UNCHANGED faults
     \/ /\ faults < MaxFaults
        /\ faults' = faults + 1
        /\ UNCHANGED held

\* A refusal leaves a device without a session; its user has to log in again.
Refuse(c) == Answer(c, Nobody)
\* An error of the database is a 500: the device keeps what it has.
Fail(c) ==
  /\ faults < MaxFaults
  /\ faults' = faults + 1
  /\ call' = [call EXCEPT ![c] = Idle]
  /\ UNCHANGED held

(***************************************************************************)
(* POST /auth/register and /auth/login                                     *)
(***************************************************************************)
\* generateTokenPair gives every token a random id.
NewToken == made + 1
CanSign == made < MaxTokens

\* The name is looked up, then the password is hashed (bcrypt takes its time).
StartRegister(c, d) ==
  /\ call[c].pc = "idle" /\ hash = Nobody /\ CanSign
  /\ made' = NewToken
  /\ call' = [call EXCEPT ![c] = [Idle EXCEPT !.pc = "hashed", !.op = "register",
                                  !.dev = d, !.new = NewToken]]
  /\ UNCHANGED <<hash, rows, held, presented, faults>>

\* The unique index on lower(username) refuses the second of two INSERTs; a
\* session is stored for the first, in a statement of its own.
NameIsFree == hash = Nobody
InsertUser(c) ==
  /\ call[c].pc = "hashed"
  /\ \/ /\ NameIsFree
        /\ hash' = 1
        /\ call' = [call EXCEPT ![c].pc = "checked"]
        /\ UNCHANGED <<held, faults>>
     \/ ~NameIsFree /\ Answer(c, held[call[c].dev]) /\ UNCHANGED hash
     \/ Fail(c) /\ UNCHANGED hash
  /\ UNCHANGED <<rows, made, presented>>

\* A login reads the hash and compares it with what the user typed.
StartLogin(c, d) ==
  /\ call[c].pc = "idle" /\ hash # Nobody /\ CanSign
  /\ made' = NewToken
  /\ call' = [call EXCEPT ![c] = [Idle EXCEPT !.pc = "checked", !.op = "login",
                                  !.dev = d, !.new = NewToken]]
  /\ UNCHANGED <<hash, rows, held, presented, faults>>

Row(login) ==
  [Absent EXCEPT !.state = "live", !.login = login, !.under = hash,
                 !.amid = \E c \in Calls : call[c].pc = "changing"]

\* issueAndStoreSession, createSession.
StoreSession(c) ==
  /\ call[c].pc = "checked"
  /\ \/ /\ rows' = [rows EXCEPT ![call[c].new] = Row(call[c].new)]
        /\ Answer(c, call[c].new)
     \/ Fail(c) /\ UNCHANGED rows
  /\ UNCHANGED <<hash, made, presented>>

(***************************************************************************)
(* POST /auth/refresh                                                      *)
(***************************************************************************)
\* The token is parsed (an expired one is refused there), the user looked up (an
\* error is answered as if there were none, and the device gives up its session)
\* and a pair generated.
StartRefresh(c, d) ==
  /\ call[c].pc = "idle" /\ held[d] # Nobody
  /\ presented' = [presented EXCEPT ![held[d]] = IF @ = 0 THEN 1 ELSE 2]
  /\ \/ /\ rows[held[d]].expired
        /\ held' = [held EXCEPT ![d] = Nobody]
        /\ UNCHANGED <<call, made, faults>>
     \/ /\ ~rows[held[d]].expired /\ faults < MaxFaults
        /\ faults' = faults + 1
        /\ held' = [held EXCEPT ![d] = Nobody]
        /\ UNCHANGED <<call, made>>
     \/ /\ ~rows[held[d]].expired /\ CanSign
        /\ made' = NewToken
        /\ call' = [call EXCEPT ![c] = [Idle EXCEPT !.pc = "rotate", !.op = "refresh",
                                        !.dev = d, !.token = held[d], !.new = NewToken]]
        /\ UNCHANGED <<held, faults>>
  /\ UNCHANGED <<hash, rows>>

\* rotateSession, SELECT ... FOR UPDATE: it waits for the holder of the row,
\* and what it does next depends on the row as it then is.
MayLockAny(t) == t \in Tokens                        \* mutant: no FOR UPDATE
MayLock(t) == Unlocked(t)
IsReusePlain(t) == rows[t].state = "revoked"         \* mutant: a logout is reuse
IsReuse(t) == rows[t].state = "revoked" /\ rows[t].by # Nobody
LockSession(c) ==
  LET t == call[c].token IN
  /\ call[c].pc = "rotate" /\ MayLock(t)
  /\ \/ /\ rows[t].state = "live" /\ ~rows[t].expired
        /\ call' = [call EXCEPT ![c].pc = "locked"]
        /\ UNCHANGED <<held, faults>>
     \/ /\ IsReuse(t)
        /\ call' = [call EXCEPT ![c].pc = "sweeping", ![c].seen = LiveRows]
        /\ UNCHANGED <<held, faults>>
     \/ /\ ~IsReuse(t) /\ (rows[t].state # "live" \/ rows[t].expired)
        /\ Refuse(c)
     \/ Fail(c)
  /\ UNCHANGED <<hash, rows, made, presented>>

\* The new row is inserted and the old one points at it, in one commit.
Rotate(c) ==
  LET t == call[c].token
      n == call[c].new IN
  /\ call[c].pc = "locked"
  /\ \/ /\ rows' = [rows EXCEPT
                      ![n] = Row(Login(t)),
                      ![t].state = "revoked",
                      ![t].by = IF rows[t].state = "live" THEN n ELSE @]
        /\ Answer(c, n)
     \/ Fail(c) /\ UNCHANGED rows                   \* deferred Rollback
  /\ UNCHANGED <<hash, made, presented>>

\* UPDATE ... WHERE revoked_at IS NULL: the rows live when the statement began,
\* each waited for and looked at again; a row inserted since is not among them.
EndSessions(seen) ==
  rows' = [t \in Tokens |-> IF t \in seen /\ rows[t].state = "live"
                            THEN [rows[t] EXCEPT !.state = "revoked"] ELSE rows[t]]

\* The token had been exchanged already: every session of the user is ended.
EndAllOnReuse(c) ==
  /\ call[c].pc = "sweeping"
  /\ \A t \in call[c].seen : \A o \in Calls \ {c} : ~Holds(o, t)
  /\ \/ EndSessions(call[c].seen) /\ Refuse(c)
     \/ Fail(c) /\ UNCHANGED rows
  /\ UNCHANGED <<hash, made, presented>>

(***************************************************************************)
(* POST /auth/logout and /auth/change-password                             *)
(***************************************************************************)
StartLogout(c, d) ==
  /\ call[c].pc = "idle" /\ held[d] # Nobody
  /\ call' = [call EXCEPT ![c] = [Idle EXCEPT !.pc = "logout", !.op = "logout",
                                  !.dev = d, !.token = held[d]]]
  /\ UNCHANGED <<hash, rows, held, made, presented, faults>>

\* revokeSessionByHash: one UPDATE; no live row is as good as one revoked.
RevokeSession(c) ==
  LET t == call[c].token IN
  /\ call[c].pc = "logout" /\ MayLock(t)
  /\ \/ EndSessions({t}) /\ Answer(c, Nobody)
     \/ Fail(c) /\ UNCHANGED rows
  /\ UNCHANGED <<hash, made, presented>>

\* The current password is compared, the new one hashed.
StartChange(c, d) ==
  /\ call[c].pc = "idle" /\ hash # Nobody
  /\ hash + Cardinality({o \in Calls : call[o].op = "change"}) < MaxVersions
  /\ call' = [call EXCEPT ![c] = [Idle EXCEPT !.pc = "compared", !.op = "change",
                                  !.dev = d]]
  /\ UNCHANGED <<hash, rows, held, made, presented, faults>>

\* The UPDATE of users locks that row; the UPDATE of the sessions then starts.
NoOtherChange(c) == \A o \in Calls \ {c} : call[o].pc # "changing"
UpdateUser(c) ==
  /\ call[c].pc = "compared" /\ NoOtherChange(c)
  /\ \/ /\ call' = [call EXCEPT ![c].pc = "changing", ![c].seen = LiveRows]
        /\ UNCHANGED <<held, faults>>
     \/ Fail(c)
  /\ UNCHANGED <<hash, rows, made, presented>>

\* mutant: the sessions are ended in a statement whose error is dropped
CommitChangeAlone(c) ==
  /\ call[c].pc = "changing"
  /\ hash' = hash + 1
  /\ Answer(c, held[call[c].dev])
  /\ UNCHANGED <<rows, made, presented>>
CommitChange(c) ==
  /\ call[c].pc = "changing" /\ \A t \in call[c].seen : MayLock(t)
  /\ \/ /\ hash' = hash + 1
        /\ EndSessions(call[c].seen)
        /\ Answer(c, held[call[c].dev])
     \/ Fail(c) /\ UNCHANGED <<hash, rows>>
  /\ UNCHANGED <<made, presented>>

\* refreshTokenTTL passes for a row (and for the token, which ends with it).
Expire(t) ==
  /\ rows[t].state # "absent" /\ ~rows[t].expired
  /\ Cardinality({u \in Tokens : rows[u].expired}) < MaxExpired
  /\ rows' = [rows EXCEPT ![t].expired = TRUE]
  /\ UNCHANGED <<hash, held, call, made, presented, faults>>

Next ==
  \/ \E c \in Calls :
       \/ InsertUser(c) \/ StoreSession(c) \/ LockSession(c) \/ Rotate(c)
       \/ EndAllOnReuse(c) \/ RevokeSession(c) \/ UpdateUser(c) \/ CommitChange(c)
       \/ \E d \in Devices :
            \/ StartRegister(c, d) \/ StartLogin(c, d) \/ StartRefresh(c, d)
            \/ StartLogout(c, d) \/ StartChange(c, d)
  \/ \E t \in Tokens : Expire(t)

Spec == Init /\ [][Next]_vars

-----------------------------------------------------------------------------
TypeOK ==
  /\ hash \in 0 .. MaxVersions
  /\ rows \in [Tokens -> [state : {"absent", "live", "revoked"}, by : Tokens \cup {Nobody},
                          login : Tokens \cup {Nobody}, expired : BOOLEAN,
                          under : 0 .. MaxVersions, amid : BOOLEAN]]
  /\ held \in [Devices -> Tokens \cup {Nobody}]
  /\ made \in 0 .. MaxTokens /\ faults \in 0 .. MaxFaults

\* A login has one live refresh token at a time, however many refreshes of it
\* race and whichever of their answers are lost (rotateSession's row lock).
OneLivePerLogin ==
  \A t, u \in LiveRows : Login(t) = Login(u) => t = u

\* A change of the password ends every session there was before it: one that is
\* still live was inserted while the change was being written (its UPDATE does
\* not see a row another transaction has yet to commit), or after it.
ChangeEndsSessions ==
  \A t \in LiveRows : rows[t].under = hash \/ rows[t].amid

\* A session ends only for something that was done to it: it was exchanged,
\* logged out, ended by a change of the password, or a token of the user that
\* had been exchanged was presented for a refresh a second time.  A logout of
\* one device never costs another one its session.
SessionsEndForAReason ==
  [][\A t \in Tokens :
       (rows[t].state = "live" /\ rows'[t].state = "revoked") =>
         \/ rows'[t].by # Nobody
         \/ \E c \in Calls : call[c].op = "logout" /\ call[c].token = t
         \/ hash' # hash
         \/ \E u \in Tokens : presented[u] > 1 /\ rows[u].by # Nobody]_vars

=============================================================================
