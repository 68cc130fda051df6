--------------------------- MODULE AccountsProofs ---------------------------
(***************************************************************************)
(* What Accounts keeps for any devices, calls and bounds: a login has one  *)
(* live refresh token, a change of the password ends the sessions there    *)
(* were, and a session ends only for something that was done to it.        *)
(*                                                                         *)
(* A rotation holds the lock of the row it exchanges until it commits, and *)
(* nobody revokes a locked row (Locked); the rows a login may share its    *)
(* name with are those of a token stored earlier (Rooted), and a new token *)
(* is in one call's hands only (Fresh).  A change in progress has seen     *)
(* every live row but those inserted since (Sweeps).                       *)
(***************************************************************************)
EXTENDS Accounts, TLAPS

Places == {"idle", "hashed", "checked", "rotate", "locked", "sweeping", "logout",
           "compared", "changing"}
Operations == {"none", "register", "login", "refresh", "logout", "change"}
CallType == [pc : Places, op : Operations, dev : Devices \cup {Nobody},
             token : Tokens \cup {Nobody}, new : Tokens \cup {Nobody}, seen : SUBSET Tokens]
RowType == [state : {"absent", "live", "revoked"}, by : Tokens \cup {Nobody},
            login : Tokens \cup {Nobody}, expired : BOOLEAN, under : Nat, amid : BOOLEAN]

Types ==
    /\ hash \in Nat
    /\ rows \in [Tokens -> RowType]
    /\ held \in [Devices -> Tokens \cup {Nobody}]
    /\ call \in [Calls -> CallType]
    /\ made \in 0 .. MaxTokens

(* A token that is being issued is in one call's hands, and is no row yet. *)
Fresh ==
    /\ \A t \in Tokens : t > made => rows[t].state = "absent"
    /\ \A c \in Calls :
          /\ call[c].pc \in {"hashed", "checked", "rotate", "locked", "sweeping"} => call[c].new \in Tokens
          /\ call[c].new \in Tokens => call[c].new <= made /\ rows[call[c].new].state = "absent"
    /\ \A c, o \in Calls : call[c].new \in Tokens /\ call[c].new = call[o].new => c = o

(* A session stems from a token that was stored.                           *)
Rooted ==
    \A t \in Tokens : rows[t].state # "absent" =>
        Login(t) \in Tokens /\ rows[Login(t)].state # "absent"

(* A row is locked by one call, and the one that a rotation has locked     *)
(* stays live.                                                             *)
Locked ==
    /\ \A c \in Calls : call[c].pc \in {"rotate", "locked"} => call[c].token \in Tokens
    /\ \A c \in Calls : call[c].pc = "locked" => rows[call[c].token].state = "live"
    /\ \A c, o \in Calls, t \in Tokens : Holds(c, t) /\ Holds(o, t) => c = o

(* A change in progress will end every live row, or the row knows of it.   *)
Sweeps ==
    \A c \in Calls : call[c].pc = "changing" =>
        \A t \in LiveRows : t \in call[c].seen \/ rows[t].amid

(* Before the registration there is nothing.                               *)
Registered ==
    hash = Nobody =>
        /\ \A t \in Tokens : rows[t].state = "absent"
        /\ \A c \in Calls : call[c].pc \in {"idle", "hashed"}
        /\ \A d \in Devices : held[d] = Nobody

AccountsInv ==
    /\ Types /\ Fresh /\ Rooted /\ Locked /\ Sweeps /\ Registered
    /\ OneLivePerLogin /\ ChangeEndsSessions

LEMMA IdleType == Idle \in CallType /\ Idle.pc = "idle" /\ Idle.new \notin Tokens
<1>1. Nobody \notin Tokens
  BY AccountsAssumption DEF Tokens, Nobody
<1>2. Idle \in CallType
  BY DEF Idle, CallType, Places, Operations
<1>3. Idle.pc = "idle" /\ Idle.new = Nobody
  BY DEF Idle
<1> QED
  BY <1>1, <1>2, <1>3

LEMMA InitInv == Init => AccountsInv
<1> SUFFICES ASSUME Init PROVE AccountsInv
  OBVIOUS
<1> USE DEF Init
<1>1. Absent \in RowType /\ Absent.state = "absent"
  BY DEF Absent, RowType, Tokens, Nobody
<1>2. Types
  BY <1>1, IdleType, AccountsAssumption DEF Types, Nobody
<1>3. \A t \in Tokens : rows[t].state = "absent"
  BY <1>1
<1>4. Fresh /\ Rooted /\ Locked
  BY <1>3, IdleType DEF Fresh, Rooted, Locked, Holds
<1>5. Sweeps /\ Registered /\ OneLivePerLogin /\ ChangeEndsSessions
  BY <1>3, IdleType DEF Sweeps, Registered, OneLivePerLogin, ChangeEndsSessions, LiveRows, Nobody
<1> QED
  BY <1>2, <1>4, <1>5 DEF AccountsInv

(* A call that ends, or moves without touching a row.  The token it issues *)
(* is new, the row it locks is free, and a change that begins has seen     *)
(* every live row.                                                         *)
LEMMA CallMoves ==
    ASSUME AccountsInv, NEW c \in Calls, NEW l \in CallType,
           call' = [call EXCEPT ![c] = l], UNCHANGED rows, hash' \in Nat, Registered',
           hash' = hash \/ (hash = Nobody /\ \A t \in Tokens : rows[t].state = "absent"),
           held' \in [Devices -> Tokens \cup {Nobody}],
           made' \in 0 .. MaxTokens, made' >= made,
           l.new = call[c].new \/ (l.new = made + 1 /\ made' = made + 1) \/ l.new = Nobody,
           l.pc \in {"hashed", "checked", "rotate", "locked", "sweeping"} => l.new \in Tokens,
           l.pc \in {"rotate", "locked"} => l.token \in Tokens,
           l.pc = "locked" => rows[l.token].state = "live",
           l.pc \in {"locked", "sweeping"} => Unlocked(l.token),
           l.pc = "changing" => l.seen = LiveRows
    PROVE  AccountsInv'
<1>1. /\ call' \in [Calls -> CallType] /\ call'[c] = l
      /\ \A o \in Calls : o # c => call'[o] = call[o]
  BY DEF AccountsInv, Types
<1>2. Types'
  BY <1>1 DEF AccountsInv, Types
<1>3. Fresh'
  <2>1. made \in Nat /\ made' \in Nat /\ Nobody \notin Tokens /\ \A t \in Tokens : t \in Nat
    BY AccountsAssumption DEF AccountsInv, Types, Tokens, Nobody
  <2>2. \A t \in Tokens : t > made' => rows'[t].state = "absent"
    BY <2>1 DEF AccountsInv, Fresh
  <2>3. \A o \in Calls : call[o].new \in Tokens => call[o].new <= made /\ rows[call[o].new].state = "absent"
    BY DEF AccountsInv, Fresh
  <2>4. l.new \in Tokens => l.new <= made' /\ rows'[l.new].state = "absent"
    BY <2>1, <2>3 DEF AccountsInv, Fresh
  <2>5. \A o \in Calls :
          /\ call'[o].pc \in {"hashed", "checked", "rotate", "locked", "sweeping"} => call'[o].new \in Tokens
          /\ call'[o].new \in Tokens => call'[o].new <= made' /\ rows'[call'[o].new].state = "absent"
    BY <1>1, <2>1, <2>3, <2>4 DEF AccountsInv, Fresh
  <2>6. \A o \in Calls : o # c /\ l.new \in Tokens => call[o].new # l.new
    BY <2>1, <2>3 DEF AccountsInv, Fresh
  <2>7. \A a, o \in Calls : call'[a].new \in Tokens /\ call'[a].new = call'[o].new => a = o
    BY <1>1, <2>6 DEF AccountsInv, Fresh
  <2> QED
    BY <2>2, <2>5, <2>7 DEF Fresh
<1>4. Rooted' /\ OneLivePerLogin' /\ ChangeEndsSessions'
  BY DEF AccountsInv, Rooted, OneLivePerLogin, ChangeEndsSessions, LiveRows, Login
<1>5. Locked'
  BY <1>1 DEF AccountsInv, Locked, Holds, Unlocked
<1>6. Sweeps'
  BY <1>1 DEF AccountsInv, Sweeps, LiveRows
<1> QED
  BY <1>2, <1>3, <1>4, <1>5, <1>6 DEF AccountsInv

(* The handler is over, whatever its answer and wherever that ends up.     *)
LEMMA Over ==
    ASSUME AccountsInv, NEW c \in Calls, NEW keep \in Tokens \cup {Nobody},
           Answer(c, keep) \/ Fail(c)
    PROVE  /\ call' = [call EXCEPT ![c] = Idle]
           /\ held' \in [Devices -> Tokens \cup {Nobody}]
BY DEF Answer, Fail, AccountsInv, Types

(* A call that ends without a row being touched, once there is a user.     *)
LEMMA OverInv ==
    ASSUME AccountsInv, NEW c \in Calls, NEW keep \in Tokens \cup {Nobody},
           Answer(c, keep) \/ Fail(c), hash # Nobody, UNCHANGED <<hash, rows, made>>
    PROVE  AccountsInv'
<1>1. /\ call' = [call EXCEPT ![c] = Idle]
      /\ held' \in [Devices -> Tokens \cup {Nobody}]
  BY Over
<1>2. hash' \in Nat /\ Registered' /\ made' \in 0 .. MaxTokens /\ made' >= made
  BY DEF AccountsInv, Types, Registered
<1>3. Idle.new = Nobody /\ Idle.pc = "idle" /\ Idle \in CallType
  BY IdleType DEF Idle
<1> QED
  BY <1>1, <1>2, <1>3, CallMoves

(* Rows are ended by a call whose statement waited for their locks.        *)
LEMMA EndsInv ==
    ASSUME AccountsInv, NEW c \in Calls, NEW seen \in SUBSET Tokens,
           NEW keep \in Tokens \cup {Nobody}, EndSessions(seen), Answer(c, keep),
           hash # Nobody, made' = made,
           \A t \in seen : \A o \in Calls \ {c} : ~Holds(o, t),
           \/ hash' = hash
           \/ /\ hash' = hash + 1 /\ call[c].pc = "changing" /\ seen = call[c].seen
    PROVE  AccountsInv'
<1>1. /\ call' \in [Calls -> CallType] /\ call'[c] = Idle
      /\ \A o \in Calls : o # c => call'[o] = call[o]
      /\ held' \in [Devices -> Tokens \cup {Nobody}]
  BY Over, IdleType DEF AccountsInv, Types
<1>2. rows \in [Tokens -> RowType] /\ hash \in Nat /\ hash' \in Nat \ {Nobody}
  BY DEF AccountsInv, Types, Nobody
<1>3. /\ rows' \in [Tokens -> RowType]
      /\ \A t \in Tokens :
            /\ rows'[t].login = rows[t].login /\ rows'[t].under = rows[t].under
            /\ rows'[t].amid = rows[t].amid
            /\ rows'[t].state = IF t \in seen /\ rows[t].state = "live" THEN "revoked"
                                ELSE rows[t].state
  BY <1>2 DEF EndSessions, RowType
<1>4. \A t \in Tokens : (t \in LiveRows)' <=> t \in LiveRows /\ t \notin seen
  BY <1>3 DEF LiveRows
<1>5. Types' /\ Registered'
  BY <1>1, <1>2, <1>3 DEF AccountsInv, Types, Registered
<1>6. Fresh'
  BY <1>1, <1>3, IdleType DEF AccountsInv, Fresh
<1>7. Rooted'
  BY <1>3 DEF AccountsInv, Rooted, Login
<1>8. Locked'
  <2>1. \A o \in Calls : call'[o].pc = "locked" => o # c /\ call[o].pc = "locked"
                        /\ Holds(o, call[o].token) /\ call[o].token \in Tokens
    BY <1>1, IdleType DEF AccountsInv, Locked, Holds
  <2>2. \A o \in Calls : call'[o].pc = "locked" => rows'[call'[o].token].state = "live"
    BY <1>1, <1>3, <2>1 DEF AccountsInv, Locked
  <2> QED
    BY <1>1, <2>2, IdleType DEF AccountsInv, Locked, Holds
<1>9. Sweeps'
  BY <1>1, <1>3, <1>4, IdleType DEF AccountsInv, Sweeps, LiveRows
<1>10. OneLivePerLogin'
  BY <1>3, <1>4 DEF AccountsInv, OneLivePerLogin, Login, LiveRows
<1>11. ChangeEndsSessions'
  BY <1>3, <1>4 DEF AccountsInv, ChangeEndsSessions, Sweeps, LiveRows
<1> QED
  BY <1>5, <1>6, <1>7, <1>8, <1>9, <1>10, <1>11 DEF AccountsInv

(* A row is inserted under a new token: at a login, or in place of the row *)
(* the call has locked.                                                    *)
LEMMA StoresInv ==
    ASSUME AccountsInv, NEW c \in Calls, NEW login \in Tokens, NEW by,
           call[c].new \in Tokens, Answer(c, call[c].new), UNCHANGED <<hash, made>>,
           hash # Nobody,
           \/ /\ login = call[c].new
              /\ rows' = [rows EXCEPT ![call[c].new] = Row(login)]
           \/ /\ call[c].pc = "locked" /\ login = Login(call[c].token)
              /\ rows' = [rows EXCEPT ![call[c].new] = Row(login),
                                      ![call[c].token].state = "revoked",
                                      ![call[c].token].by = call[c].new]
    PROVE  AccountsInv'
<1> DEFINE n == call[c].new
           u == call[c].token
<1>1. /\ call' \in [Calls -> CallType] /\ call'[c] = Idle
      /\ \A o \in Calls : o # c => call'[o] = call[o]
      /\ held' \in [Devices -> Tokens \cup {Nobody}]
  BY Over, IdleType DEF AccountsInv, Types
<1>2. rows \in [Tokens -> RowType] /\ hash \in Nat /\ rows[n].state = "absent"
  BY DEF AccountsInv, Types, Fresh
<1>3. /\ Row(login) \in RowType /\ Row(login).state = "live" /\ Row(login).login = login
      /\ Row(login).under = hash
      /\ (\E o \in Calls : call[o].pc = "changing") => Row(login).amid
  BY <1>2 DEF Row, Absent, RowType, Nobody
<1> DEFINE gone == IF login = n /\ rows' = [rows EXCEPT ![n] = Row(login)] THEN {} ELSE {u}
<1>4. gone # {} => u \in Tokens /\ u # n /\ rows[u].state = "live" /\ call[c].pc = "locked"
                   /\ login = rows[u].login
  BY <1>2 DEF AccountsInv, Locked, Login
<1>5. /\ rows' \in [Tokens -> RowType] /\ rows'[n] = Row(login)
      /\ \A t \in Tokens : t # n =>
            /\ rows'[t].login = rows[t].login /\ rows'[t].under = rows[t].under
            /\ rows'[t].amid = rows[t].amid
            /\ rows'[t].state = IF t \in gone THEN "revoked" ELSE rows[t].state
  BY <1>2, <1>3, <1>4 DEF RowType
<1> HIDE DEF gone
<1>6. \A t \in Tokens : (t \in LiveRows)' <=> t = n \/ (t \in LiveRows /\ t \notin gone)
  BY <1>2, <1>3, <1>4, <1>5 DEF LiveRows
<1>7. Types' /\ Registered'
  BY <1>1, <1>2, <1>5 DEF AccountsInv, Types, Registered
<1>8. Fresh'
  <2>1. \A o \in Calls : o # c /\ call[o].new \in Tokens => call[o].new # n
    BY DEF AccountsInv, Fresh
  <2>2. \A t \in Tokens : t > made => t # n
    BY AccountsAssumption DEF AccountsInv, Fresh, Types, Tokens
  <2>3. gone # {} => \A o \in Calls : call[o].new # u \/ call[o].new \notin Tokens
    BY <1>4 DEF AccountsInv, Fresh
  <2>4. gone \subseteq {u}
    BY DEF gone
  <2>5. \A t \in Tokens : t # n /\ rows[t].state = "absent" => rows'[t].state = "absent"
    BY <1>4, <1>5, <2>4
  <2> QED
    BY <1>1, <2>1, <2>2, <2>5, IdleType DEF AccountsInv, Fresh
<1>9. Rooted'
  <2>1. \A t \in Tokens : rows[t].state # "absent" => rows'[t].state # "absent"
    BY <1>2, <1>5
  <2>2. rows'[login].state # "absent"
    <3>1. CASE gone = {}
      BY <1>3, <1>5, <3>1 DEF gone
    <3>2. CASE gone # {}
      BY <1>4, <2>1, <3>2 DEF AccountsInv, Rooted, Login
    <3> QED
      BY <3>1, <3>2
  <2> QED
    BY <1>3, <1>5, <2>1, <2>2 DEF AccountsInv, Rooted, Login
<1>10. Locked'
  <2>1. \A o \in Calls : o # c /\ call[o].pc = "locked" => call[o].token \notin gone /\ call[o].token # n
                        /\ call[o].token \in Tokens
    BY <1>2, <1>4 DEF AccountsInv, Locked, Holds, gone
  <2>2. \A o \in Calls : call'[o].pc = "locked" => rows'[call'[o].token].state = "live"
    BY <1>1, <1>5, <2>1, IdleType DEF AccountsInv, Locked
  <2> QED
    BY <1>1, <2>2, IdleType DEF AccountsInv, Locked, Holds
<1>11. Sweeps'
  BY <1>1, <1>3, <1>5, <1>6, IdleType DEF AccountsInv, Sweeps, LiveRows
<1>12. OneLivePerLogin'
  <2>1. \A t \in LiveRows : t \notin gone => Login(t) # login
    <3>1. CASE gone = {}
      BY <1>2, <3>1 DEF gone, AccountsInv, Rooted, LiveRows, Login
    <3>2. CASE gone # {}
      BY <1>4, <3>2 DEF gone, AccountsInv, OneLivePerLogin, LiveRows, Login
    <3> QED
      BY <3>1, <3>2
  <2> QED
    BY <1>3, <1>5, <1>6, <2>1 DEF AccountsInv, OneLivePerLogin, Login, LiveRows
<1>13. ChangeEndsSessions'
  BY <1>3, <1>5, <1>6 DEF AccountsInv, ChangeEndsSessions, LiveRows
<1> QED
  BY <1>7, <1>8, <1>9, <1>10, <1>11, <1>12, <1>13 DEF AccountsInv


(* Requests that begin.                                                    *)
LEMMA StartInv ==
    ASSUME AccountsInv, NEW c \in Calls, NEW d \in Devices,
           \/ StartRegister(c, d) \/ StartLogin(c, d) \/ StartRefresh(c, d)
           \/ StartLogout(c, d) \/ StartChange(c, d)
    PROVE  AccountsInv'
<1>1. /\ CanSign => made + 1 \in Tokens
      /\ held[d] \in Tokens \cup {Nobody} /\ Nobody \notin Tokens
      /\ hash \in Nat /\ held \in [Devices -> Tokens \cup {Nobody}]
  BY AccountsAssumption DEF AccountsInv, Types, CanSign, Tokens, Nobody
<1>2. made \in Nat
  BY AccountsAssumption DEF AccountsInv, Types
<1>3. ASSUME NEW l \in CallType, call' = [call EXCEPT ![c] = l], UNCHANGED <<hash, rows, held>>,
             Registered', l.pc \in {"hashed", "checked", "rotate", "logout", "compared"},
             \/ l.new = made + 1 /\ made' = made + 1 /\ CanSign
             \/ l.new = Nobody /\ made' = made /\ l.pc \in {"logout", "compared"},
             l.pc = "rotate" => l.token \in Tokens
      PROVE  AccountsInv'
  <2>1. made' \in 0 .. MaxTokens /\ made' >= made
    BY <1>2, <1>3, AccountsAssumption DEF CanSign, AccountsInv, Types
  <2>2. l.pc \in {"hashed", "checked", "rotate", "locked", "sweeping"} => l.new \in Tokens
    BY <1>1, <1>3
  <2> QED
    BY <1>1, <1>3, <2>1, <2>2, CallMoves
<1>4. CASE StartRegister(c, d)
  <2> DEFINE l == [Idle EXCEPT !.pc = "hashed", !.op = "register", !.dev = d, !.new = NewToken]
  <2>1. l \in CallType /\ l.pc = "hashed" /\ l.new = made + 1
    BY <1>1, <1>2, <1>4 DEF StartRegister, Idle, CallType, Places, Operations, NewToken
  <2>2. call' = [call EXCEPT ![c] = l]
    BY <1>4 DEF StartRegister
  <2> HIDE DEF l
  <2>3. Registered'
    BY <1>4, <2>1, <2>2 DEF StartRegister, AccountsInv, Registered, Types
  <2> QED
    BY <1>1, <1>3, <1>4, <2>1, <2>2, <2>3 DEF StartRegister, NewToken
<1>5. CASE StartLogin(c, d)
  <2> DEFINE l == [Idle EXCEPT !.pc = "checked", !.op = "login", !.dev = d, !.new = NewToken]
  <2>1. l \in CallType /\ l.pc = "checked" /\ l.new = made + 1
    BY <1>1, <1>2, <1>5 DEF StartLogin, Idle, CallType, Places, Operations, NewToken
  <2>2. call' = [call EXCEPT ![c] = l]
    BY <1>5 DEF StartLogin
  <2> HIDE DEF l
  <2>3. Registered'
    BY <1>5 DEF StartLogin, Registered
  <2> QED
    BY <1>1, <1>3, <1>5, <2>1, <2>2, <2>3 DEF StartLogin, NewToken
<1>6. CASE StartRefresh(c, d)
  <2>0. hash # Nobody /\ held[d] \in Tokens /\ UNCHANGED <<hash, rows>> /\ Registered'
    BY <1>1, <1>6 DEF StartRefresh, AccountsInv, Registered
  <2>1. CASE call' = call /\ made' = made /\ held' = [held EXCEPT ![d] = Nobody]
    <3>1. Types'
      BY <2>0, <2>1 DEF AccountsInv, Types
    <3> QED
      BY <2>0, <2>1, <3>1 DEF AccountsInv, Fresh, Rooted, Locked, Holds, Sweeps, OneLivePerLogin,
         ChangeEndsSessions, LiveRows, Login
  <2> DEFINE l == [Idle EXCEPT !.pc = "rotate", !.op = "refresh", !.dev = d, !.token = held[d],
                               !.new = NewToken]
  <2>2. CASE CanSign /\ made' = NewToken /\ held' = held /\ call' = [call EXCEPT ![c] = l]
    <3>1. l \in CallType /\ l.pc = "rotate" /\ l.new = made + 1 /\ l.token = held[d]
      BY <1>1, <1>2, <2>2 DEF Idle, CallType, Places, Operations, NewToken
    <3> HIDE DEF l
    <3> QED
      BY <1>1, <1>3, <2>0, <2>2, <3>1 DEF NewToken
  <2> QED
    BY <1>6, <2>1, <2>2 DEF StartRefresh
<1>7. CASE StartLogout(c, d)
  <2> DEFINE l == [Idle EXCEPT !.pc = "logout", !.op = "logout", !.dev = d, !.token = held[d]]
  <2>1. l \in CallType /\ l.pc = "logout" /\ l.new = Nobody
    BY <1>1, <1>2, <1>7 DEF StartLogout, Idle, CallType, Places, Operations, NewToken
  <2>2. call' = [call EXCEPT ![c] = l]
    BY <1>7 DEF StartLogout
  <2> HIDE DEF l
  <2>3. Registered'
    BY <1>7 DEF StartLogout, AccountsInv, Registered
  <2> QED
    BY <1>1, <1>3, <1>7, <2>1, <2>2, <2>3 DEF StartLogout, NewToken
<1>8. CASE StartChange(c, d)
  <2> DEFINE l == [Idle EXCEPT !.pc = "compared", !.op = "change", !.dev = d]
  <2>1. l \in CallType /\ l.pc = "compared" /\ l.new = Nobody
    BY <1>1, <1>2, <1>8 DEF StartChange, Idle, CallType, Places, Operations, NewToken
  <2>2. call' = [call EXCEPT ![c] = l]
    BY <1>8 DEF StartChange
  <2> HIDE DEF l
  <2>3. Registered'
    BY <1>8 DEF StartChange, Registered
  <2> QED
    BY <1>1, <1>3, <1>8, <2>1, <2>2, <2>3 DEF StartChange, NewToken
<1> QED
  BY <1>4, <1>5, <1>6, <1>7, <1>8

(* Registration, login, and what a rotation finds under the lock.          *)
LEMMA CallInv ==
    ASSUME AccountsInv, NEW c \in Calls, InsertUser(c) \/ StoreSession(c) \/ LockSession(c) \/ Rotate(c)
    PROVE  AccountsInv'
<1>1. /\ call \in [Calls -> CallType] /\ call[c] \in CallType /\ Nobody \notin Tokens
      /\ hash \in Nat /\ made \in 0 .. MaxTokens /\ made >= made /\ held \in [Devices -> Tokens \cup {Nobody}]
      /\ LiveRows \subseteq Tokens
  BY AccountsAssumption DEF AccountsInv, Types, Tokens, Nobody, LiveRows
<1>2. call[c].pc \in {"hashed", "checked", "rotate", "locked", "sweeping"} => call[c].new \in Tokens
  BY DEF AccountsInv, Fresh
<1>3. call[c].pc \in {"checked", "rotate", "locked"} => hash # Nobody
  BY DEF AccountsInv, Registered
<1>4. CASE InsertUser(c)
  <2>1. CASE NameIsFree /\ hash' = 1 /\ call' = [call EXCEPT ![c].pc = "checked"] /\ UNCHANGED held
    <3> DEFINE l == [call[c] EXCEPT !.pc = "checked"]
    <3>1. /\ l \in CallType /\ l.pc = "checked" /\ l.new = call[c].new
          /\ call' = [call EXCEPT ![c] = l]
      BY <1>1, <2>1 DEF CallType, Places
    <3>2. hash = Nobody /\ \A t \in Tokens : rows[t].state = "absent"
      BY <2>1 DEF NameIsFree, AccountsInv, Registered
    <3>3. hash' \in Nat /\ Registered'
      BY <2>1 DEF Registered, Nobody
    <3> HIDE DEF l
    <3> QED
      BY <1>1, <1>2, <1>4, <2>1, <3>1, <3>2, <3>3, CallMoves DEF InsertUser
  <2>2. CASE ~NameIsFree /\ Answer(c, held[call[c].dev]) /\ UNCHANGED hash
    <3>1. call' = [call EXCEPT ![c] = Idle] /\ held' \in [Devices -> Tokens \cup {Nobody}]
      BY <1>1, <2>2 DEF Answer
    <3>2. Idle.new = Nobody /\ Idle.pc = "idle" /\ Idle \in CallType
      BY IdleType DEF Idle
    <3>3. Registered'
      BY <2>2 DEF NameIsFree, Registered
    <3> QED
      BY <1>1, <1>4, <2>2, <3>1, <3>2, <3>3, CallMoves DEF InsertUser
  <2>3. CASE Fail(c) /\ UNCHANGED hash
    <3>1. call' = [call EXCEPT ![c] = Idle] /\ held' = held
      BY <2>3 DEF Fail
    <3>2. Idle.new = Nobody /\ Idle.pc = "idle" /\ Idle \in CallType
      BY IdleType DEF Idle
    <3>3. Registered'
      BY <1>1, <1>4, <2>3, <3>1, <3>2 DEF InsertUser, AccountsInv, Registered
    <3> QED
      BY <1>1, <1>4, <2>3, <3>1, <3>2, <3>3, CallMoves DEF InsertUser
  <2> QED
    BY <1>4, <2>1, <2>2, <2>3 DEF InsertUser
<1>5. CASE StoreSession(c)
  <2>1. CASE Fail(c) /\ UNCHANGED rows
    BY <1>1, <1>3, <1>5, <2>1, OverInv DEF StoreSession
  <2>2. CASE rows' = [rows EXCEPT ![call[c].new] = Row(call[c].new)] /\ Answer(c, call[c].new)
    BY <1>2, <1>3, <1>5, <2>2, StoresInv DEF StoreSession
  <2> QED
    BY <1>5, <2>1, <2>2 DEF StoreSession
<1>6. CASE LockSession(c)
  <2> DEFINE t == call[c].token
  <2>0. call[c].pc = "rotate" /\ UNCHANGED <<hash, rows, made>> /\ t \in Tokens /\ hash # Nobody
        /\ Registered' /\ Unlocked(t)
    BY <1>3, <1>6 DEF LockSession, MayLock, AccountsInv, Locked, Registered
  <2>1. CASE /\ rows[t].state = "live" /\ call' = [call EXCEPT ![c].pc = "locked"] /\ UNCHANGED held
    <3> DEFINE l == [call[c] EXCEPT !.pc = "locked"]
    <3>1. /\ l \in CallType /\ l.pc = "locked" /\ l.new = call[c].new /\ l.token = t
          /\ call' = [call EXCEPT ![c] = l]
      BY <1>1, <2>1 DEF CallType, Places
    <3> HIDE DEF l
    <3> QED
      BY <1>1, <1>2, <2>0, <2>1, <3>1, CallMoves
  <2>2. CASE call' = [call EXCEPT ![c].pc = "sweeping", ![c].seen = LiveRows] /\ UNCHANGED held
    <3> DEFINE l == [call[c] EXCEPT !.pc = "sweeping", !.seen = LiveRows]
    <3>1. /\ l \in CallType /\ l.pc = "sweeping" /\ l.new = call[c].new /\ l.token = t
          /\ call' = [call EXCEPT ![c] = l]
      BY <1>1, <2>2 DEF CallType, Places
    <3> HIDE DEF l
    <3> QED
      BY <1>1, <1>2, <2>0, <2>2, <3>1, CallMoves
  <2>3. CASE Refuse(c) \/ Fail(c)
    BY <1>1, <2>0, <2>3, OverInv DEF Refuse
  <2> QED
    BY <1>6, <2>1, <2>2, <2>3 DEF LockSession
<1>7. CASE Rotate(c)
  <2>1. CASE Fail(c) /\ UNCHANGED rows
    BY <1>1, <1>3, <1>7, <2>1, OverInv DEF Rotate
  <2>2. CASE ~(Fail(c) /\ UNCHANGED rows)
    <3> DEFINE t == call[c].token
               n == call[c].new
    <3>1. t \in Tokens /\ rows[t].state = "live" /\ n \in Tokens /\ hash # Nobody
      BY <1>2, <1>3, <1>7 DEF Rotate, AccountsInv, Locked
    <3>2. Login(t) \in Tokens
      BY <3>1 DEF AccountsInv, Rooted
    <3>3. /\ call[c].pc = "locked" /\ UNCHANGED <<hash, made>> /\ Answer(c, n)
          /\ rows' = [rows EXCEPT ![n] = Row(Login(t)), ![t].state = "revoked",
                                  ![t].by = IF rows[t].state = "live" THEN n ELSE @]
      BY <1>7, <2>2 DEF Rotate
    <3>4. rows' = [rows EXCEPT ![n] = Row(Login(t)), ![t].state = "revoked", ![t].by = n]
      BY <3>1, <3>3
    <3> QED
      BY <3>1, <3>2, <3>3, <3>4, StoresInv
  <2> QED
    BY <2>1, <2>2
<1> QED
  BY <1>4, <1>5, <1>6, <1>7

(* Sessions are ended by a reuse, a logout, a change of the password.      *)
LEMMA EndingInv ==
    ASSUME AccountsInv, NEW c \in Calls,
           EndAllOnReuse(c) \/ RevokeSession(c) \/ UpdateUser(c) \/ CommitChange(c)
    PROVE  AccountsInv'
<1>1. /\ call \in [Calls -> CallType] /\ call[c] \in CallType /\ Nobody \notin Tokens
      /\ hash \in Nat /\ made \in 0 .. MaxTokens /\ made >= made
      /\ held \in [Devices -> Tokens \cup {Nobody}]
      /\ LiveRows \in SUBSET Tokens /\ call[c].seen \in SUBSET Tokens
  BY AccountsAssumption DEF AccountsInv, Types, Tokens, Nobody, LiveRows, CallType
<1>2. hash # Nobody /\ made' = made
  BY DEF EndAllOnReuse, RevokeSession, UpdateUser, CommitChange, AccountsInv, Registered
<1>3. CASE EndAllOnReuse(c)
  <2>1. CASE Fail(c) /\ UNCHANGED rows
    BY <1>1, <1>2, <1>3, <2>1, OverInv DEF EndAllOnReuse
  <2>2. CASE EndSessions(call[c].seen) /\ Answer(c, Nobody)
    BY <1>1, <1>2, <1>3, <2>2, EndsInv DEF EndAllOnReuse
  <2> QED
    BY <1>3, <2>1, <2>2 DEF EndAllOnReuse, Refuse
<1>4. CASE RevokeSession(c)
  <2>1. CASE Fail(c) /\ UNCHANGED rows
    BY <1>1, <1>2, <1>4, <2>1, OverInv DEF RevokeSession
  <2>2. CASE EndSessions({call[c].token}) /\ Answer(c, Nobody)
    <3> DEFINE seen == {call[c].token} \cap Tokens
    <3>1. EndSessions(seen)
      BY <2>2 DEF EndSessions
    <3>2. \A t \in seen : \A o \in Calls \ {c} : ~Holds(o, t)
      BY <1>4 DEF RevokeSession, MayLock, Unlocked
    <3>3. seen \in SUBSET Tokens /\ hash' = hash
      BY <1>4 DEF RevokeSession
    <3> HIDE DEF seen
    <3> QED
      BY <1>1, <1>2, <2>2, <3>1, <3>2, <3>3, EndsInv
  <2> QED
    BY <1>4, <2>1, <2>2 DEF RevokeSession
<1>5. CASE UpdateUser(c)
  <2>1. CASE Fail(c)
    BY <1>1, <1>2, <1>5, <2>1, OverInv DEF UpdateUser
  <2>2. CASE call' = [call EXCEPT ![c].pc = "changing", ![c].seen = LiveRows] /\ UNCHANGED held
    <3> DEFINE l == [call[c] EXCEPT !.pc = "changing", !.seen = LiveRows]
    <3>1. /\ l \in CallType /\ l.pc = "changing" /\ l.new = call[c].new /\ l.seen = LiveRows
          /\ call' = [call EXCEPT ![c] = l]
      BY <1>1, <2>2 DEF CallType, Places
    <3>2. UNCHANGED <<hash, rows, made>> /\ Registered'
      BY <1>2, <1>5 DEF UpdateUser, Registered
    <3> HIDE DEF l
    <3> QED
      BY <1>1, <2>2, <3>1, <3>2, CallMoves
  <2> QED
    BY <1>5, <2>1, <2>2 DEF UpdateUser
<1>6. CASE CommitChange(c)
  <2>1. CASE Fail(c) /\ UNCHANGED <<hash, rows>>
    BY <1>1, <1>2, <1>6, <2>1, OverInv DEF CommitChange
  <2>2. CASE hash' = hash + 1 /\ EndSessions(call[c].seen) /\ Answer(c, held[call[c].dev])
    <3>1. \A t \in call[c].seen : \A o \in Calls \ {c} : ~Holds(o, t)
      BY <1>6 DEF CommitChange, MayLock, Unlocked
    <3>2. call[c].pc = "changing"
      BY <1>6 DEF CommitChange
    <3>3. call[c].dev \in Devices => held[call[c].dev] \in Tokens \cup {Nobody}
      BY <1>1
    <3>4. CASE call[c].dev \in Devices
      BY <1>1, <1>2, <2>2, <3>1, <3>2, <3>3, <3>4, EndsInv
    <3>5. CASE call[c].dev \notin Devices
      <4>1. Answer(c, Nobody)
        BY <1>1, <2>2, <3>5 DEF Answer
      <4> QED
        BY <1>1, <1>2, <2>2, <3>1, <3>2, <4>1, EndsInv
    <3> QED
      BY <3>4, <3>5
  <2> QED
    BY <1>6, <2>1, <2>2 DEF CommitChange
<1> QED
  BY <1>3, <1>4, <1>5, <1>6

LEMMA ExpireInv ==
    ASSUME AccountsInv, NEW t \in Tokens, Expire(t)
    PROVE  AccountsInv'
<1>1. /\ rows' \in [Tokens -> RowType]
      /\ \A u \in Tokens :
            /\ rows'[u].login = rows[u].login /\ rows'[u].under = rows[u].under
            /\ rows'[u].amid = rows[u].amid /\ rows'[u].state = rows[u].state
  BY DEF Expire, AccountsInv, Types, RowType
<1>2. UNCHANGED <<hash, held, call, made>> /\ LiveRows' = LiveRows
  BY <1>1 DEF Expire, LiveRows
<1>3. Types' /\ Registered' /\ Fresh' /\ Rooted'
  BY <1>1, <1>2 DEF AccountsInv, Types, Registered, Fresh, Rooted, Login
<1>4. Locked'
  BY <1>1, <1>2 DEF AccountsInv, Locked, Holds
<1>5. Sweeps' /\ OneLivePerLogin' /\ ChangeEndsSessions'
  BY <1>1, <1>2 DEF AccountsInv, Sweeps, OneLivePerLogin, ChangeEndsSessions, Login, LiveRows
<1> QED
  BY <1>3, <1>4, <1>5 DEF AccountsInv

(* The inductive invariant.                                                *)
THEOREM AccountsInvariant == Spec => []AccountsInv
<1>1. AccountsInv /\ [Next]_vars => AccountsInv'
  <2> SUFFICES ASSUME AccountsInv, [Next]_vars PROVE AccountsInv'
    OBVIOUS
  <2>1. CASE UNCHANGED vars
    BY <2>1 DEF vars, AccountsInv, Types, Fresh, Rooted, Locked, Holds, Sweeps, Registered,
       OneLivePerLogin, ChangeEndsSessions, LiveRows, Login
  <2>2. CASE Next
    BY <2>2, StartInv, CallInv, EndingInv, ExpireInv DEF Next
  <2> QED
    BY <2>1, <2>2
<1> QED
  BY <1>1, InitInv, PTL DEF Spec

(* However many refreshes of one login race, fail or lose their answers,   *)
(* one refresh token of it is live (rotateSession's row lock).             *)
THEOREM AccountsOneLive == Spec => []OneLivePerLogin
BY AccountsInvariant, PTL DEF AccountsInv

(* A change of the password leaves no session of before it, but one that   *)
(* was inserted while the change was being written.                        *)
THEOREM AccountsChangeEnds == Spec => []ChangeEndsSessions
BY AccountsInvariant, PTL DEF AccountsInv

(***************************************************************************)
(* Why a session ends                                                      *)
(***************************************************************************)
Presents(c) == call[c].pc \in {"rotate", "locked", "sweeping"}

(* A token that was exchanged has been presented, and if it is in the hands*)
(* of a call now, more than once; a call sweeps for such a token only.     *)
Presented ==
    /\ presented \in [Tokens -> 0 .. 2]
    /\ \A c \in Calls : call[c].pc = "logout" => call[c].op = "logout"
    /\ \A c \in Calls : Presents(c) => call[c].token \in Tokens /\ presented[call[c].token] > 0
    /\ \A c, o \in Calls :
          Presents(c) /\ Presents(o) /\ call[c].token = call[o].token /\ c # o =>
            presented[call[c].token] > 1
    /\ \A t \in Tokens : rows[t].by # Nobody => presented[t] > 0
    /\ \A c \in Calls : Presents(c) /\ rows[call[c].token].by # Nobody => presented[call[c].token] > 1
    /\ \A c \in Calls : call[c].pc = "sweeping" => rows[call[c].token].by # Nobody
    /\ \A t \in Tokens : rows[t].state = "absent" => rows[t].by = Nobody

(* What replaced a row, if anything, is not changed.                       *)
KeepsBy == \A t \in Tokens : /\ rows'[t].by = rows[t].by
                             /\ rows'[t].state = "absent" => rows[t].state = "absent"

(* A call that goes on with its token, or begins or ends without one.      *)
LEMMA PresentedKept ==
    ASSUME AccountsInv, Presented, NEW c \in Calls, NEW l \in CallType,
           call' = [call EXCEPT ![c] = l], presented' = presented,
           KeepsBy, l.pc = "logout" => l.op = "logout",
           l.pc \in {"rotate", "locked", "sweeping"} => Presents(c) /\ l.token = call[c].token,
           l.pc = "sweeping" => rows[l.token].by # Nobody
    PROVE  Presented'
<1>1. call'[c] = l /\ \A o \in Calls : o # c => call'[o] = call[o]
  BY DEF AccountsInv, Types
<1>2. \A o \in Calls : Presents(o)' => Presents(o) /\ call'[o].token = call[o].token
  BY <1>1 DEF Presents
<1>3. \A o \in Calls : Presents(o)' => call'[o].token \in Tokens /\ presented'[call'[o].token] > 0
  BY <1>2 DEF Presented
<1>8. \A o \in Calls : call'[o].pc = "logout" => call'[o].op = "logout"
  BY <1>1 DEF Presented
<1>4. \A a, o \in Calls : Presents(a)' /\ Presents(o)' /\ call'[a].token = call'[o].token /\ a # o =>
                            presented'[call'[a].token] > 1
  BY <1>2 DEF Presented
<1>5. \A t \in Tokens : /\ rows'[t].by # Nobody => presented'[t] > 0
                        /\ rows'[t].state = "absent" => rows'[t].by = Nobody
  BY DEF Presented, KeepsBy
<1>6. \A o \in Calls : Presents(o)' /\ rows'[call'[o].token].by # Nobody =>
                         presented'[call'[o].token] > 1
  BY <1>2 DEF Presented, KeepsBy
<1>7. \A o \in Calls : call'[o].pc = "sweeping" => rows'[call'[o].token].by # Nobody
  <2> SUFFICES ASSUME NEW o \in Calls, call'[o].pc = "sweeping"
               PROVE  rows'[call'[o].token].by # Nobody
    OBVIOUS
  <2>1. Presents(o)'
    BY DEF Presents
  <2>2. call'[o].token \in Tokens
    BY <1>2, <2>1 DEF Presented
  <2>3. rows[call'[o].token].by # Nobody
    BY <1>1 DEF Presented
  <2> QED
    BY <2>2, <2>3 DEF KeepsBy
<1>9. presented' \in [Tokens -> 0 .. 2]
  BY DEF Presented
<1> QED
  BY <1>3, <1>4, <1>5, <1>6, <1>7, <1>8, <1>9 DEF Presented

LEMMA PresentedStep ==
    ASSUME AccountsInv, Presented, Next
    PROVE  Presented'
<1>1. call \in [Calls -> CallType] /\ rows \in [Tokens -> RowType]
  BY DEF AccountsInv, Types
<1>2. Idle \in CallType /\ Idle.pc = "idle"
  BY IdleType
<1>3. ASSUME NEW c \in Calls, call' = [call EXCEPT ![c] = Idle], presented' = presented,
             KeepsBy
      PROVE  Presented'
  BY <1>2, <1>3, PresentedKept
<1>4. ASSUME NEW seen, EndSessions(seen)
      PROVE  KeepsBy
  BY <1>1, <1>4 DEF EndSessions, RowType, KeepsBy
<1>5. ASSUME NEW c \in Calls, NEW d \in Devices,
             StartRegister(c, d) \/ StartLogin(c, d) \/ StartLogout(c, d) \/ StartChange(c, d)
      PROVE  Presented'
  <2> DEFINE l == call'[c]
  <2>1. call' = [call EXCEPT ![c] = l]
    BY <1>1, <1>5 DEF StartRegister, StartLogin, StartLogout, StartChange
  <2>2. l.pc \in {"hashed", "checked", "logout", "compared"} /\ (l.pc = "logout" => l.op = "logout")
    BY <1>1, <1>5 DEF StartRegister, StartLogin, StartLogout, StartChange, Idle
  <2>3. l \in CallType
    BY <1>5, StartInv DEF AccountsInv, Types
  <2>4. KeepsBy /\ presented' = presented
    BY <1>5 DEF StartRegister, StartLogin, StartLogout, StartChange, KeepsBy
  <2> HIDE DEF l
  <2> QED
    BY <2>1, <2>2, <2>3, <2>4, PresentedKept
<1>6. ASSUME NEW c \in Calls, NEW d \in Devices, StartRefresh(c, d)
      PROVE  Presented'
  <2>1. held[d] \in Tokens /\ UNCHANGED rows
    BY <1>6 DEF StartRefresh, AccountsInv, Types
  <2>2. /\ presented' \in [Tokens -> 0 .. 2]
        /\ \A t \in Tokens : presented'[t] >= presented[t]
        /\ presented'[held[d]] > 0 /\ (presented[held[d]] > 0 => presented'[held[d]] > 1)
    BY <1>6, <2>1 DEF StartRefresh, Presented
  <2>3. CASE call' = call
    BY <2>1, <2>2, <2>3 DEF Presented, Presents
  <2>4. CASE call' # call
    <3> DEFINE l == call'[c]
    <3>1. l.pc = "rotate" /\ l.token = held[d]
      BY <1>1, <1>6, <2>4 DEF StartRefresh, Idle
    <3>2. call'[c] = l /\ \A o \in Calls : o # c => call'[o] = call[o]
      BY <1>1, <1>6, <2>4 DEF StartRefresh
    <3> HIDE DEF l
    <3>3. \A t \in Tokens : presented[t] \in 0 .. 2 /\ presented'[t] \in 0 .. 2
      BY <2>2 DEF Presented
    <3>4. \A o \in Calls : Presents(o)' => /\ call'[o].token \in Tokens
                                           /\ presented'[call'[o].token] > 0
                                           /\ o = c \/ (Presents(o) /\ call'[o].token = call[o].token)
      BY <2>1, <2>2, <3>1, <3>2, <3>3 DEF Presented, Presents
    <3>5. \A a, o \in Calls :
             Presents(a)' /\ Presents(o)' /\ call'[a].token = call'[o].token /\ a # o =>
               presented'[call'[a].token] > 1
      BY <2>1, <2>2, <3>1, <3>2, <3>3, <3>4 DEF Presented
    <3>6. \A o \in Calls : Presents(o)' /\ rows'[call'[o].token].by # Nobody =>
                              presented'[call'[o].token] > 1
      BY <2>1, <2>2, <3>1, <3>2, <3>3, <3>4 DEF Presented
    <3>7. /\ \A o \in Calls : call'[o].pc = "logout" => call'[o].op = "logout"
          /\ \A t \in Tokens : rows'[t].by # Nobody => presented'[t] > 0
          /\ \A o \in Calls : call'[o].pc = "sweeping" => rows'[call'[o].token].by # Nobody
          /\ \A t \in Tokens : rows'[t].state = "absent" => rows'[t].by = Nobody
      BY <2>1, <2>2, <3>1, <3>2, <3>3 DEF Presented
    <3> QED
      BY <2>2, <3>4, <3>5, <3>6, <3>7 DEF Presented
  <2> QED
    BY <2>3, <2>4
<1>7. ASSUME NEW c \in Calls, InsertUser(c)
      PROVE  Presented'
  <2>1. CASE call' = [call EXCEPT ![c] = Idle]
    BY <1>3, <1>7, <2>1 DEF InsertUser, KeepsBy
  <2>2. CASE call' = [call EXCEPT ![c].pc = "checked"]
    <3>1. [call[c] EXCEPT !.pc = "checked"] \in CallType
      BY <1>1 DEF CallType, Places
    <3> QED
      BY <1>1, <1>7, <2>2, <3>1, PresentedKept DEF InsertUser, CallType, KeepsBy
  <2> QED
    BY <1>7, <2>1, <2>2 DEF InsertUser, Answer, Fail
<1>8. ASSUME NEW c \in Calls, LockSession(c)
      PROVE  Presented'
  <2>0. call[c].pc = "rotate" /\ UNCHANGED <<rows, presented>> /\ Presents(c)
    BY <1>8 DEF LockSession, Presents
  <2>1. CASE call' = [call EXCEPT ![c] = Idle]
    BY <1>3, <2>0, <2>1 DEF KeepsBy
  <2>2. CASE call' = [call EXCEPT ![c].pc = "locked"]
    <3>1. [call[c] EXCEPT !.pc = "locked"] \in CallType
      BY <1>1 DEF CallType, Places
    <3> QED
      BY <1>1, <2>0, <2>2, <3>1, PresentedKept DEF CallType, KeepsBy
  <2>3. CASE IsReuse(call[c].token) /\ call' = [call EXCEPT ![c].pc = "sweeping", ![c].seen = LiveRows]
    <3>1. [call[c] EXCEPT !.pc = "sweeping", !.seen = LiveRows] \in CallType
      BY <1>1 DEF CallType, Places, LiveRows
    <3> QED
      BY <1>1, <2>0, <2>3, <3>1, PresentedKept DEF CallType, IsReuse, KeepsBy
  <2> QED
    BY <1>8, <2>1, <2>2, <2>3 DEF LockSession, Refuse, Answer, Fail
<1>9. ASSUME NEW c \in Calls, UpdateUser(c)
      PROVE  Presented'
  <2>1. CASE call' = [call EXCEPT ![c] = Idle]
    BY <1>3, <1>9, <2>1 DEF UpdateUser, KeepsBy
  <2>2. CASE call' = [call EXCEPT ![c].pc = "changing", ![c].seen = LiveRows]
    <3> DEFINE l == [call[c] EXCEPT !.pc = "changing", !.seen = LiveRows]
    <3>1. l \in CallType /\ l.pc = "changing"
      BY <1>1 DEF CallType, Places, LiveRows
    <3>2. call' = [call EXCEPT ![c] = l]
      BY <1>1, <2>2 DEF CallType
    <3>3. KeepsBy /\ presented' = presented
      BY <1>9 DEF UpdateUser, KeepsBy
    <3> HIDE DEF l
    <3> QED
      BY <3>1, <3>2, <3>3, PresentedKept
  <2> QED
    BY <1>9, <2>1, <2>2 DEF UpdateUser, Fail
<1>10. ASSUME NEW c \in Calls, EndAllOnReuse(c) \/ RevokeSession(c) \/ CommitChange(c)
      PROVE  Presented'
  <2>1. call' = [call EXCEPT ![c] = Idle] /\ presented' = presented
    BY <1>10 DEF EndAllOnReuse, RevokeSession, CommitChange, Refuse, Answer, Fail
  <2>2. UNCHANGED rows \/ EndSessions(call[c].seen) \/ EndSessions({call[c].token})
    BY <1>10 DEF EndAllOnReuse, RevokeSession, CommitChange
  <2>3. KeepsBy
    BY <1>4, <2>2 DEF KeepsBy
  <2> QED
    BY <1>3, <2>1, <2>3
<1>11. ASSUME NEW c \in Calls, StoreSession(c) \/ Rotate(c)
       PROVE  Presented'
  <2>1. call' = [call EXCEPT ![c] = Idle] /\ presented' = presented
    BY <1>11 DEF StoreSession, Rotate, Answer, Fail
  <2>2. CASE UNCHANGED rows
    BY <1>3, <2>1, <2>2 DEF KeepsBy
  <2>3. CASE rows' # rows
    <3>1. Row(call[c].new).by = Nobody /\ Row(Login(call[c].token)).by = Nobody
      BY DEF Row, Absent
    <3>2. \A t \in Tokens : rows'[t].by # rows[t].by =>
                             rows'[t].by = Nobody \/ (t = call[c].token /\ Presents(c))
      <4>0. call[c].new \in Tokens
        BY <1>11 DEF AccountsInv, Fresh, StoreSession, Rotate
      <4>1. CASE StoreSession(c)
        <5> DEFINE r == Row(call[c].new)
        <5>1. rows' = [rows EXCEPT ![call[c].new] = r]
          BY <2>3, <4>1 DEF StoreSession
        <5>2. r.by = Nobody
          BY <3>1
        <5> HIDE DEF r
        <5>3. \A t \in Tokens : rows'[t] = rows[t] \/ rows'[t] = r
          BY <1>1, <4>0, <5>1
        <5> QED
          BY <5>2, <5>3
      <4>2. CASE Rotate(c)
        BY <1>1, <2>3, <3>1, <4>2 DEF Rotate, RowType, Presents
      <4> QED
        BY <1>11, <4>1, <4>2
    <3>3. call'[c] = Idle /\ \A o \in Calls : o # c => call'[o] = call[o]
      BY <1>1, <2>1
    <3>4. \A o \in Calls : Presents(o)' => o # c /\ Presents(o)
      BY <1>2, <3>3 DEF Presents
    <3>5. \A t \in Tokens : rows'[t].by # Nobody => presented'[t] > 0
      BY <2>1, <3>2 DEF Presented
    <3>6. \A o \in Calls : Presents(o)' /\ rows'[call'[o].token].by # Nobody =>
                              presented'[call'[o].token] > 1
      BY <2>1, <3>2, <3>3, <3>4 DEF Presented
    <3>7. \A t \in Tokens : rows[t].by # Nobody => rows'[t].by # Nobody
      <4>1. call[c].new \in Tokens /\ rows[call[c].new].state = "absent"
        BY <1>11 DEF AccountsInv, Fresh, StoreSession, Rotate
      <4>2. rows[call[c].new].by = Nobody
        BY <4>1 DEF Presented
      <4>3. CASE StoreSession(c)
        BY <1>1, <2>3, <4>1, <4>2, <4>3 DEF StoreSession, RowType
      <4>4. CASE Rotate(c)
        BY <1>1, <2>3, <4>1, <4>2, <4>4 DEF Rotate, RowType, AccountsInv, Locked
      <4> QED
        BY <1>11, <4>3, <4>4
    <3>8. \A t \in Tokens : rows'[t].state = "absent" => rows'[t].by = Nobody
      <4>1. CASE StoreSession(c)
        BY <1>1, <2>3, <3>1, <4>1 DEF StoreSession, RowType, Presented
      <4>2. CASE Rotate(c)
        BY <1>1, <2>3, <3>1, <4>2 DEF Rotate, RowType, Presented
      <4> QED
        BY <1>11, <4>1, <4>2
    <3>9. /\ \A o \in Calls : call'[o].pc = "logout" => call'[o].op = "logout"
          /\ \A o \in Calls : call'[o].pc = "sweeping" => rows'[call'[o].token].by # Nobody
      <4>1. \A o \in Calls : call'[o].pc \in {"logout", "sweeping"} =>
                                 o # c /\ call'[o] = call[o]
        BY <1>2, <3>3
      <4>2. \A o \in Calls : call[o].pc = "sweeping" =>
                                 call[o].token \in Tokens /\ rows[call[o].token].by # Nobody
        BY DEF Presented, Presents
      <4>3. \A o \in Calls : call[o].pc = "logout" => call[o].op = "logout"
        BY DEF Presented
      <4> QED
        BY <3>7, <4>1, <4>2, <4>3
    <3>10. \A o \in Calls : Presents(o)' => call'[o].token \in Tokens /\ presented'[call'[o].token] > 0
      BY <2>1, <3>3, <3>4 DEF Presented
    <3>11. \A a, o \in Calls : Presents(a)' /\ Presents(o)' /\ call'[a].token = call'[o].token /\ a # o =>
                                  presented'[call'[a].token] > 1
      BY <2>1, <3>3, <3>4 DEF Presented
    <3>12. presented' \in [Tokens -> 0 .. 2]
      BY <2>1 DEF Presented
    <3> QED
      BY <3>5, <3>6, <3>8, <3>9, <3>10, <3>11, <3>12 DEF Presented
  <2> QED
    BY <2>2, <2>3
<1>12. ASSUME NEW t \in Tokens, Expire(t)
       PROVE  Presented'
  <2>1. \A u \in Tokens : rows'[u].by = rows[u].by /\ rows'[u].state = rows[u].state
    BY <1>1, <1>12 DEF Expire, RowType
  <2> QED
    BY <1>12, <2>1 DEF Expire, Presented, Presents
<1> QED
  BY <1>5, <1>6, <1>7, <1>8, <1>9, <1>10, <1>11, <1>12 DEF Next

\* Both invariants of the user server hold in every reachable state.
THEOREM AccountsPresented == Spec => [](AccountsInv /\ Presented)
<1>2. Init => Presented
  BY DEF Init, Presented, Presents, Idle, Absent, Nobody, Tokens
<1>3. AccountsInv /\ Presented /\ [Next]_vars => Presented'
  <2> SUFFICES ASSUME AccountsInv, Presented, [Next]_vars PROVE Presented'
    OBVIOUS
  <2>1. CASE UNCHANGED vars
    BY <2>1 DEF vars, Presented, Presents
  <2> QED
    BY <2>1, PresentedStep
<1> QED
  BY <1>2, <1>3, AccountsInvariant, PTL DEF Spec

\* A row that a statement ends was live, was named by the statement, and the
\* call that runs the statement has its reason.
LEMMA EndedForAReason ==
    ASSUME AccountsInv, Presented, Next, NEW t \in Tokens,
           rows[t].state = "live", rows'[t].state = "revoked"
    PROVE  \/ rows'[t].by # Nobody
           \/ \E c \in Calls : call[c].op = "logout" /\ call[c].token = t
           \/ hash' # hash
           \/ \E u \in Tokens : presented[u] > 1 /\ rows[u].by # Nobody
<1>1. call \in [Calls -> CallType] /\ rows \in [Tokens -> RowType] /\ hash \in Nat
  BY DEF AccountsInv, Types
<1>2. rows' # rows
  OBVIOUS
<1>3. ASSUME NEW c \in Calls, StoreSession(c)
      PROVE  FALSE
  <2>1. call[c].new \in Tokens /\ rows[call[c].new].state = "absent"
    BY <1>3 DEF AccountsInv, Fresh, StoreSession
  <2> DEFINE r == Row(call[c].new)
  <2>2. rows' = [rows EXCEPT ![call[c].new] = r]
    BY <1>2, <1>3 DEF StoreSession
  <2> HIDE DEF r
  <2>3. call[c].new # t
    BY <2>1
  <2> QED
    BY <1>1, <2>1, <2>2, <2>3
<1>4. ASSUME NEW c \in Calls, Rotate(c)
      PROVE  rows'[t].by # Nobody
  <2>1. call[c].new \in Tokens /\ rows[call[c].new].state = "absent"
    BY <1>4 DEF AccountsInv, Fresh, Rotate
  <2> DEFINE r == Row(Login(call[c].token))
  <2>2. rows' = [rows EXCEPT ![call[c].new] = r, ![call[c].token].state = "revoked",
                             ![call[c].token].by = IF rows[call[c].token].state = "live"
                                                   THEN call[c].new ELSE @]
    BY <1>2, <1>4 DEF Rotate
  <2>3. call[c].token \in Tokens /\ rows[call[c].token].state = "live"
    BY <1>4 DEF AccountsInv, Locked, Rotate
  <2> HIDE DEF r
  <2>4. call[c].new # t
    BY <2>1
  <2> QED
    BY <1>1, <2>1, <2>2, <2>3, <2>4 DEF RowType, Tokens, Nobody
<1>5. ASSUME NEW c \in Calls, EndAllOnReuse(c)
      PROVE  \E u \in Tokens : presented[u] > 1 /\ rows[u].by # Nobody
  BY <1>5 DEF EndAllOnReuse, Presented, Presents
<1>6. ASSUME NEW c \in Calls, RevokeSession(c)
      PROVE  call[c].op = "logout" /\ call[c].token = t
  BY <1>2, <1>6 DEF RevokeSession, EndSessions, Presented
<1>7. ASSUME NEW c \in Calls, CommitChange(c)
      PROVE  hash' # hash
  BY <1>1, <1>2, <1>7 DEF CommitChange
<1>8. ASSUME NEW u \in Tokens, Expire(u)
      PROVE  FALSE
  BY <1>1, <1>8 DEF Expire, RowType
<1> QED
  BY <1>2, <1>3, <1>4, <1>5, <1>6, <1>7, <1>8
     DEF Next, InsertUser, LockSession, UpdateUser, StartRegister, StartLogin, StartRefresh,
         StartLogout, StartChange

\* A session ends only because it was exchanged, logged out, ended by a change
\* of the password, or because an exchanged token of the user was presented a
\* second time (rotateSession, revokeSessionByHash, changePassword).
THEOREM AccountsEndsForAReason == Spec => SessionsEndForAReason
<1>1. AccountsInv /\ Presented /\ [Next]_vars =>
        [\A t \in Tokens :
           (rows[t].state = "live" /\ rows'[t].state = "revoked") =>
             \/ rows'[t].by # Nobody
             \/ \E c \in Calls : call[c].op = "logout" /\ call[c].token = t
             \/ hash' # hash
             \/ \E u \in Tokens : presented[u] > 1 /\ rows[u].by # Nobody]_vars
  BY EndedForAReason
<1> QED
  BY <1>1, AccountsPresented, PTL DEF Spec, SessionsEndForAReason

=============================================================================
