--------------------------- MODULE ServicesProofs ---------------------------
(***************************************************************************)
(* Theorems about the services around the response path, which share       *)
(* nothing: who may use the Console, how the installation is initialized,  *)
(* what the sensor's adapter ingests, and how the serial harness ends.     *)
(* For any users, keys, roles, models, events, threads and bounds.         *)
(***************************************************************************)
EXTENDS OnboardingService, ConsoleAccess, SuricataIngest, GuardedSerial,
        FiniteSetTheorems, WellFoundedInduction, TLAPS

-----------------------------------------------------------------------------
(* The Console's accounts, sessions and keys.                              *)

AccessSpec == AccessInit /\ [][AccessStep]_accessVars

-----------------------------------------------------------------------------
(* The inductive invariant.                                                *)

AccountRows == [exists : BOOLEAN, admin : BOOLEAN, enabled : BOOLEAN]

SessionRows ==
  {NoSession} \cup [open : {TRUE}, user : Users, born : Nat, seen : Nat]

KeyRows == {NoKeyRow} \cup [state : {"live", "revoked"}, until : Nat]

LoginRecords ==
  {NoLogin} \cup [step : {"enter", "refuse", "success"}, user : Users]

ChangeRecords ==
  {NoChange} \cup
  [kind : MemberKinds \cup {"setup"}, by : Users, on : Users, flag : BOOLEAN] \cup
  [kind : KeyKinds, by : Users \cup ApiKeys, on : ApiKeys, flag : BOOLEAN]

AccessTyped ==
  /\ accounts \in [Users -> AccountRows]
  /\ failures \in [Users -> Seq(Nat)]
  /\ sessions \in [Sids -> SessionRows]
  /\ apiKeys \in [ApiKeys -> KeyRows]
  /\ setupUsed \in BOOLEAN
  /\ logins \in [Logins -> LoginRecords]
  /\ changes \in [Changes -> ChangeRecords]
  /\ clock \in Nat
  /\ overtaken \in BOOLEAN

(* Nobody is enabled who has no account.                                   *)
EnabledExist == \A u \in Users : accounts[u].enabled => accounts[u].exists

(* Every login that is going to fail is accounted for already: with those  *)
(* at work the failures never exceed what they may come to.                *)
Refusing(u) == {t \in Logins : logins[t] # NoLogin /\ logins[t].step = "refuse"
                                                   /\ logins[t].user = u}

GuessesCounted ==
  \A u \in Users :
    Cardinality(Recent(u)) + Cardinality(Refusing(u)) <= Threshold - 1 + Cardinality(Logins)

AccessInvariant == AccessTyped /\ EnabledExist /\ AdminRemains /\ GuessesCounted
-----------------------------------------------------------------------------
(* What a row is made of.                                                  *)
LEMMA LoginAtWork ==
  ASSUME AccessTyped, NEW t \in Logins, logins[t].step \in {"enter", "refuse", "success"}
  PROVE  /\ logins[t] \in [step : {"enter", "refuse", "success"}, user : Users]
         /\ logins[t].user \in Users /\ logins[t] # NoLogin
<1>1. logins[t] \in LoginRecords
  BY DEF AccessTyped
<1>2. logins[t] # NoLogin
  BY DEF NoLogin
<1> QED
  BY <1>1, <1>2 DEF LoginRecords

(* An open session is the row of a user.                                   *)
LEMMA OpenSession ==
  ASSUME AccessTyped, NEW s \in Sids, sessions[s].open
  PROVE  /\ sessions[s] \in [open : {TRUE}, user : Users, born : Nat, seen : Nat]
         /\ sessions[s].user \in Users
<1>1. sessions[s] \in SessionRows
  BY DEF AccessTyped
<1>2. sessions[s] # NoSession
  BY DEF NoSession
<1> QED
  BY <1>1, <1>2 DEF SessionRows

(* What a handler is at work on.                                           *)
LEMMA AskedChange ==
  ASSUME AccessTyped, NEW r \in Changes
  PROVE  /\ changes[r].kind \in MemberKinds \cup {"setup"} =>
              /\ changes[r].by \in Users /\ changes[r].on \in Users
              /\ changes[r].flag \in BOOLEAN
         /\ changes[r].kind \in KeyKinds =>
              /\ changes[r].on \in ApiKeys /\ changes[r].flag \in BOOLEAN
              /\ changes[r].by \in Users \cup ApiKeys
<1> PICK c : c = changes[r]
  OBVIOUS
<1>1. c \in ChangeRecords
  BY DEF AccessTyped
<1>2. CASE c = NoChange
  BY <1>2 DEF NoChange, MemberKinds, KeyKinds
<1>3. CASE c \in [kind : MemberKinds \cup {"setup"}, by : Users, on : Users, flag : BOOLEAN]
  BY <1>3 DEF MemberKinds, KeyKinds
<1>4. CASE c \in [kind : KeyKinds, by : Users \cup ApiKeys, on : ApiKeys, flag : BOOLEAN]
  BY <1>4 DEF MemberKinds, KeyKinds
<1> QED
  BY <1>1, <1>2, <1>3, <1>4 DEF ChangeRecords

(* Requests that are begun are of these kinds.                             *)
LEMMA AsksTyped ==
  ASSUME NEW by \in Users \cup ApiKeys, NEW ask \in Asks(by),
         by \in Users \/ ask.kind \in KeyKinds
  PROVE  ask \in ChangeRecords
<1>1. MemberKinds \cap KeyKinds = {}
  BY DEF MemberKinds, KeyKinds
<1>2. CASE ask \in [kind : MemberKinds, by : {by}, on : Users, flag : BOOLEAN]
  BY <1>1, <1>2 DEF ChangeRecords
<1>3. CASE ask \in [kind : KeyKinds, by : {by}, on : ApiKeys, flag : BOOLEAN]
  BY <1>3 DEF ChangeRecords
<1> QED
  BY <1>2, <1>3 DEF Asks

(* Steps of a login.                                                       *)
LEMMA LoginTypes ==
  ASSUME AccessTyped, LoginStep
  PROVE  AccessTyped'
<1>1. PICK t \in Logins :
        \/ \E u \in Users, right \in BOOLEAN : BeginLogin(t, u, right)
        \/ RecordFailure(t)
        \/ \E s \in Sids : CreateSession(t, s)
        \/ RecordSuccess(t)
  BY DEF LoginStep
<1>2. /\ logins \in [Logins -> LoginRecords] /\ failures \in [Users -> Seq(Nat)]
      /\ sessions \in [Sids -> SessionRows] /\ clock \in Nat
      /\ NoLogin \in LoginRecords
  BY DEF AccessTyped, LoginRecords
<1>3. CASE \E u \in Users, right \in BOOLEAN : BeginLogin(t, u, right)
  <2>1. PICK u \in Users, step \in {"enter", "refuse"} :
          logins' = [logins EXCEPT ![t] = [step |-> step, user |-> u]]
    BY <1>3 DEF BeginLogin
  <2>2. [step |-> step, user |-> u] \in LoginRecords
    BY DEF LoginRecords
  <2>3. logins' \in [Logins -> LoginRecords]
    BY <1>2, <2>1, <2>2
  <2> QED
    BY <1>3, <2>3 DEF BeginLogin, AccessTyped
<1>4. CASE RecordFailure(t)
  <2> PICK u : u = logins[t].user
    OBVIOUS
  <2>1. u \in Users
    BY <1>4, LoginAtWork DEF RecordFailure
  <2>2. failures' = [failures EXCEPT ![u] = Append(failures[u], clock)]
    BY <1>4 DEF RecordFailure
  <2>3. Append(failures[u], clock) \in Seq(Nat)
    BY <1>2, <2>1
  <2>4. failures' \in [Users -> Seq(Nat)]
    BY <1>2, <2>2, <2>3
  <2>5. logins' \in [Logins -> LoginRecords]
    BY <1>2, <1>4 DEF RecordFailure
  <2> QED
    BY <1>4, <2>4, <2>5 DEF RecordFailure, AccessTyped
<1>5. CASE \E s \in Sids : CreateSession(t, s)
  <2>1. PICK s \in Sids : CreateSession(t, s)
    BY <1>5
  <2>2. logins[t] \in [step : {"enter", "refuse", "success"}, user : Users]
    BY <2>1, LoginAtWork DEF CreateSession
  <2> PICK row : row = [open |-> TRUE, user |-> logins[t].user, born |-> clock,
                        seen |-> clock]
    OBVIOUS
  <2>3. row \in SessionRows
    BY <1>2, <2>2 DEF SessionRows
  <2>4. sessions' \in [Sids -> SessionRows]
    BY <1>2, <2>1, <2>3 DEF CreateSession
  <2> PICK login : login = [logins[t] EXCEPT !.step = "success"]
    OBVIOUS
  <2>5. login \in LoginRecords
    BY <2>2 DEF LoginRecords
  <2>6. logins' \in [Logins -> LoginRecords]
    BY <1>2, <2>1, <2>5 DEF CreateSession
  <2> QED
    BY <2>1, <2>4, <2>6 DEF CreateSession, AccessTyped
<1>6. CASE RecordSuccess(t)
  <2>1. logins[t].user \in Users /\ <<>> \in Seq(Nat)
    BY <1>6, LoginAtWork DEF RecordSuccess
  <2>2. failures' \in [Users -> Seq(Nat)]
    BY <1>2, <1>6, <2>1 DEF RecordSuccess
  <2>3. logins' \in [Logins -> LoginRecords]
    BY <1>2, <1>6 DEF RecordSuccess
  <2> QED
    BY <1>6, <2>2, <2>3 DEF RecordSuccess, AccessTyped
<1> QED
  BY <1>1, <1>3, <1>4, <1>5, <1>6

(* Sessions that are used or dropped.                                      *)
LEMMA SessionTypes ==
  ASSUME AccessTyped, NEW s \in Sids, UseSession(s) \/ Logout(s)
  PROVE  AccessTyped'
<1>1. /\ sessions \in [Sids -> SessionRows] /\ clock \in Nat
      /\ NoSession \in SessionRows
  BY DEF AccessTyped, SessionRows
<1>2. ASSUME sessions' = [sessions EXCEPT ![s] = [sessions[s] EXCEPT !.seen = clock]],
             sessions[s].open
      PROVE  sessions' \in [Sids -> SessionRows]
  <2>1. ASSUME sessions[s].open PROVE [sessions[s] EXCEPT !.seen = clock] \in SessionRows
    BY <1>1, <2>1, OpenSession DEF SessionRows
  <2> QED
    BY <1>1, <1>2, <2>1
<1>3. sessions' = [sessions EXCEPT ![s] = NoSession] => sessions' \in [Sids -> SessionRows]
  BY <1>1
<1>4. CASE UseSession(s)
  <2>1. sessions' \in [Sids -> SessionRows]
    BY <1>2, <1>3, <1>4 DEF UseSession
  <2> QED
    BY <1>4, <2>1 DEF UseSession, AccessTyped
<1>5. CASE Logout(s)
  BY <1>3, <1>5 DEF Logout, AccessTyped
<1> QED
  BY <1>4, <1>5

(* A change that is done or refused frees its handler.                     *)
LEMMA FreedHandler ==
  ASSUME AccessTyped, NEW r \in Changes,
         changes' = [changes EXCEPT ![r] = NoChange]
  PROVE  changes' \in [Changes -> ChangeRecords]
BY DEF AccessTyped, ChangeRecords

(* Dropping the sessions of a user.                                        *)
LEMMA DroppedSessions ==
  ASSUME AccessTyped, NEW u
  PROVE  WithoutSessions(u) \in [Sids -> SessionRows]
BY DEF AccessTyped, SessionRows, WithoutSessions

(* A handler begins to work on a change.                                   *)
LEMMA BegunTypes ==
  ASSUME AccessTyped, NEW r \in Changes,
         \/ \E s \in Sids : sessions[s].open /\
              \E ask \in Asks(sessions[s].user) : BeginChange(r, s, ask)
         \/ \E k \in ApiKeys, ask \in UNION {Asks(k) : k \in ApiKeys} :
              BeginKeyChange(r, k, ask)
         \/ \E u \in Users : BeginSetup(r, u)
  PROVE  /\ AccessTyped'
         /\ UNCHANGED <<accounts, failures, apiKeys, setupUsed, logins, clock, overtaken>>
<1>1. /\ sessions \in [Sids -> SessionRows] /\ clock \in Nat
      /\ changes \in [Changes -> ChangeRecords]
  BY DEF AccessTyped
<1>2. CASE \E s \in Sids : sessions[s].open /\
             \E ask \in Asks(sessions[s].user) : BeginChange(r, s, ask)
  <2>1. PICK s \in Sids : sessions[s].open /\
             \E ask \in Asks(sessions[s].user) : BeginChange(r, s, ask)
    BY <1>2
  <2>2. PICK ask \in Asks(sessions[s].user) : BeginChange(r, s, ask)
    BY <2>1
  <2>3. sessions[s].user \in Users
    BY <2>1, OpenSession
  <2>4. changes' \in [Changes -> ChangeRecords]
    BY <1>1, <2>2, <2>3, AsksTyped DEF BeginChange
  <2> PICK row : row = [sessions[s] EXCEPT !.seen = clock]
    OBVIOUS
  <2>5. row \in SessionRows
    BY <1>1, <2>1, OpenSession DEF SessionRows
  <2>6. sessions' \in [Sids -> SessionRows]
    BY <1>1, <2>2, <2>5 DEF BeginChange
  <2> QED
    BY <2>2, <2>4, <2>6 DEF BeginChange, AccessTyped
<1>3. CASE \E k \in ApiKeys, ask \in UNION {Asks(k) : k \in ApiKeys} :
             BeginKeyChange(r, k, ask)
  <2>1. PICK k \in ApiKeys, ask \in UNION {Asks(l) : l \in ApiKeys} :
          BeginKeyChange(r, k, ask)
    BY <1>3
  <2>2. ask \in Asks(k) /\ ask.kind \in KeyKinds
    BY <2>1 DEF BeginKeyChange
  <2>3. changes' \in [Changes -> ChangeRecords]
    BY <1>1, <2>1, <2>2, AsksTyped DEF BeginKeyChange
  <2> QED
    BY <2>1, <2>3 DEF BeginKeyChange, AccessTyped
<1>4. CASE \E u \in Users : BeginSetup(r, u)
  <2>1. PICK u \in Users : BeginSetup(r, u)
    BY <1>4
  <2>2. [kind |-> "setup", by |-> u, on |-> u, flag |-> TRUE] \in ChangeRecords
    BY DEF ChangeRecords
  <2>3. changes' \in [Changes -> ChangeRecords]
    BY <1>1, <2>1, <2>2 DEF BeginSetup
  <2> QED
    BY <2>1, <2>3 DEF BeginSetup, AccessTyped
<1> QED
  BY <1>2, <1>3, <1>4

(* A change to the members, made for a handler that asked for it.          *)
Members(r) == CreateMember(r) \/ SetRole(r) \/ SetDisabled(r)

(* Changing a member writes one row, and an admin's own stays an admin's.  *)
LEMMA MemberChanges ==
  ASSUME AccessTyped, NEW r \in Changes, Members(r)
  PROVE  /\ changes[r].on \in Users /\ changes[r].by \in Users
         /\ \E row \in AccountRows :
              /\ accounts' = [accounts EXCEPT ![changes[r].on] = row]
              /\ row.exists
              /\ changes[r].on = changes[r].by /\ accounts[changes[r].by].exists
                   /\ IsAdmin(changes[r].by) => row.admin /\ row.enabled
<1> PICK c : c = changes[r]
  OBVIOUS
<1>1. /\ c.on \in Users /\ c.by \in Users /\ c.flag \in BOOLEAN
  BY AskedChange DEF Members, CreateMember, SetRole, SetDisabled, MemberKinds
<1> PICK old : old = accounts[c.on]
  OBVIOUS
<1>2. old \in AccountRows
  BY <1>1 DEF AccessTyped
<1>3. CASE CreateMember(r)
  <2>1. [exists |-> TRUE, admin |-> c.flag, enabled |-> TRUE] \in AccountRows
    BY <1>1 DEF AccountRows
  <2> QED
    BY <1>1, <1>3, <2>1 DEF CreateMember
<1>4. CASE SetRole(r)
  <2> PICK row : row = [old EXCEPT !.admin = c.flag]
    OBVIOUS
  <2>1. /\ row \in AccountRows /\ row.exists = old.exists /\ row.admin = c.flag
        /\ row.enabled = old.enabled
    BY <1>1, <1>2 DEF AccountRows
  <2>2. accounts' = [accounts EXCEPT ![c.on] = row] /\ old.exists /\ (c.on = c.by => c.flag)
    BY <1>4 DEF SetRole
  <2> QED
    BY <1>1, <2>1, <2>2 DEF IsAdmin
<1>5. CASE SetDisabled(r)
  <2> PICK enabled \in BOOLEAN : enabled = ~c.flag
    OBVIOUS
  <2> PICK row : row = [old EXCEPT !.enabled = enabled]
    OBVIOUS
  <2>1. /\ row \in AccountRows /\ row.exists = old.exists /\ row.admin = old.admin
        /\ row.enabled = enabled
    BY <1>1, <1>2 DEF AccountRows
  <2>2. /\ accounts' = [accounts EXCEPT ![c.on] = row] /\ old.exists
        /\ c.on = c.by => enabled
    BY <1>5 DEF SetDisabled
  <2> QED
    BY <1>1, <2>1, <2>2 DEF IsAdmin
<1> QED
  BY <1>3, <1>4, <1>5 DEF Members

(* What else such a change leaves alone, and what it tells of its right.   *)
LEMMA MemberTypes ==
  ASSUME AccessTyped, NEW r \in Changes, Members(r)
  PROVE  /\ AccessTyped' /\ UNCHANGED <<failures, logins, clock>>
         /\ overtaken' = (overtaken \/ ~Entitled(changes[r].by))
<1>1. /\ Done(r) /\ UNCHANGED <<failures, apiKeys, setupUsed, logins, clock>>
  BY DEF Members, CreateMember, SetRole, SetDisabled
<1>2. /\ changes' \in [Changes -> ChangeRecords]
      /\ overtaken' = (overtaken \/ ~Entitled(changes[r].by)) /\ overtaken' \in BOOLEAN
  BY <1>1, FreedHandler DEF Done
<1>3. sessions' \in [Sids -> SessionRows]
  <2>1. sessions' = sessions \/ sessions' = WithoutSessions(changes[r].on)
    BY DEF Members, CreateMember, SetRole, SetDisabled
  <2> QED
    BY <2>1, DroppedSessions DEF AccessTyped
<1>4. accounts' \in [Users -> AccountRows]
  BY MemberChanges DEF AccessTyped
<1> QED
  BY <1>1, <1>2, <1>3, <1>4 DEF AccessTyped

(* A change to the keys.                                                   *)
LEMMA KeyTypes ==
  ASSUME AccessTyped, NEW r \in Changes, CreateKey(r) \/ RevokeKey(r)
  PROVE  /\ AccessTyped' /\ UNCHANGED <<accounts, failures, logins, clock>>
         /\ overtaken => overtaken'
<1> PICK c : c = changes[r]
  OBVIOUS
<1>1. /\ Done(r) /\ UNCHANGED <<accounts, failures, sessions, setupUsed, logins, clock>>
  BY DEF CreateKey, RevokeKey
<1>2. /\ changes' \in [Changes -> ChangeRecords]
      /\ overtaken' = (overtaken \/ ~Entitled(c.by)) /\ overtaken' \in BOOLEAN
  BY <1>1, FreedHandler DEF Done
<1>3. c.on \in ApiKeys /\ c.flag \in BOOLEAN
  BY AskedChange DEF CreateKey, RevokeKey, KeyKinds
<1>4. apiKeys \in [ApiKeys -> KeyRows] /\ clock \in Nat
  BY DEF AccessTyped
<1>5. CASE CreateKey(r)
  <2> PICK until : until = IF c.flag THEN clock + KeyTime ELSE MaxClock + 1
    OBVIOUS
  <2>1. until \in Nat
    BY <1>4, AccessAssumption
  <2>2. [state |-> "live", until |-> until] \in KeyRows
    BY <2>1 DEF KeyRows
  <2>3. apiKeys' \in [ApiKeys -> KeyRows]
    BY <1>4, <1>5, <2>2 DEF CreateKey
  <2> QED
    BY <1>1, <1>2, <2>3 DEF AccessTyped
<1>6. CASE RevokeKey(r)
  <2>1. apiKeys[c.on] \in [state : {"live", "revoked"}, until : Nat]
    BY <1>3, <1>4, <1>6 DEF RevokeKey, KeyRows, NoKeyRow
  <2>2. [apiKeys[c.on] EXCEPT !.state = "revoked"] \in KeyRows
    BY <2>1 DEF KeyRows
  <2>3. apiKeys' \in [ApiKeys -> KeyRows]
    BY <1>4, <1>6, <2>2 DEF RevokeKey
  <2> QED
    BY <1>1, <1>2, <2>3 DEF AccessTyped
<1> QED
  BY <1>5, <1>6

(* A new administrator.                                                    *)
LEMMA NewAdminChanges ==
  ASSUME AccessTyped, NEW u \in Users, NewAdmin(u)
  PROVE  /\ accounts' \in [Users -> AccountRows]
         /\ accounts'[u].exists /\ accounts'[u].admin /\ accounts'[u].enabled
         /\ \A v \in Users : v # u => accounts'[v] = accounts[v]
<1>1. [exists |-> TRUE, admin |-> TRUE, enabled |-> TRUE] \in AccountRows
  BY DEF AccountRows
<1> QED
  BY <1>1 DEF NewAdmin, AccessTyped

(* The first administrators, and a Console that dies among them.           *)
LEMMA SetupTypes ==
  ASSUME AccessTyped,
         \/ \E r \in Changes : FinishSetup(r)
         \/ \E u \in Users : BootstrapAdmin(u)
         \/ ConsoleRestarts
  PROVE  /\ AccessTyped' /\ UNCHANGED <<failures, clock, overtaken>>
         /\ UNCHANGED logins \/ logins' = [t \in Logins |-> NoLogin]
         /\ UNCHANGED accounts \/ \E u \in Users : NewAdmin(u)
<1>1. /\ NoLogin \in LoginRecords /\ NoChange \in ChangeRecords
      /\ changes \in [Changes -> ChangeRecords]
  BY DEF LoginRecords, ChangeRecords, AccessTyped
<1>2. ASSUME NEW r \in Changes, FinishSetup(r)
      PROVE  /\ AccessTyped' /\ UNCHANGED <<failures, clock, overtaken, logins>>
             /\ \E u \in Users : NewAdmin(u)
  <2>1. changes[r].on \in Users
    BY <1>2, AskedChange DEF FinishSetup
  <2>2. accounts' \in [Users -> AccountRows] /\ NewAdmin(changes[r].on)
    BY <1>2, <2>1, NewAdminChanges DEF FinishSetup
  <2>3. changes' \in [Changes -> ChangeRecords]
    BY <1>2, FreedHandler DEF FinishSetup
  <2> QED
    BY <1>2, <2>1, <2>2, <2>3 DEF FinishSetup, AccessTyped
<1>3. ASSUME NEW u \in Users, BootstrapAdmin(u)
      PROVE  AccessTyped' /\ UNCHANGED <<failures, clock, overtaken, logins>> /\ NewAdmin(u)
  <2>1. accounts' \in [Users -> AccountRows] /\ NewAdmin(u)
    BY <1>3, NewAdminChanges DEF BootstrapAdmin
  <2>2. setupUsed' \in BOOLEAN
    BY <1>3 DEF BootstrapAdmin, AccessTyped
  <2> QED
    BY <1>3, <2>1, <2>2 DEF BootstrapAdmin, AccessTyped
<1>4. CASE ConsoleRestarts
  <2>1. /\ logins' \in [Logins -> LoginRecords] /\ changes' \in [Changes -> ChangeRecords]
        /\ logins' = [t \in Logins |-> NoLogin]
        /\ UNCHANGED <<failures, sessions, apiKeys, setupUsed, clock, overtaken>>
    BY <1>1, <1>4 DEF ConsoleRestarts
  <2>2. UNCHANGED accounts \/ \E u \in Users : NewAdmin(u)
    BY <1>4, AskedChange DEF ConsoleRestarts
  <2>3. accounts' \in [Users -> AccountRows]
    BY <2>2, NewAdminChanges DEF AccessTyped
  <2> QED
    BY <2>1, <2>2, <2>3 DEF AccessTyped
<1> QED
  BY <1>2, <1>3, <1>4

(* What a step does, by what it changes.                                   *)
LEMMA AccessMoves ==
  ASSUME AccessTyped, [AccessStep]_accessVars
  PROVE  /\ AccessTyped'
         /\ \/ UNCHANGED <<accounts, overtaken>>
            \/ UNCHANGED accounts /\ (overtaken => overtaken')
            \/ \E r \in Changes :
                 Members(r) /\ overtaken' = (overtaken \/ ~Entitled(changes[r].by))
            \/ UNCHANGED overtaken /\ \E u \in Users : NewAdmin(u)
         /\ \/ UNCHANGED <<failures, logins, clock>>
            \/ UNCHANGED <<failures, clock>> /\ logins' = [t \in Logins |-> NoLogin]
            \/ LoginStep
            \/ ClockTick
<1>1. CASE UNCHANGED accessVars
  BY <1>1 DEF accessVars, AccessTyped
<1>2. CASE LoginStep
  <2>1. UNCHANGED <<accounts, overtaken>>
    BY <1>2 DEF LoginStep, BeginLogin, RecordFailure, CreateSession, RecordSuccess
  <2> QED
    BY <1>2, <2>1, LoginTypes
<1>3. ASSUME NEW s \in Sids, UseSession(s) \/ Logout(s)
      PROVE  AccessTyped' /\ UNCHANGED <<accounts, overtaken, failures, logins, clock>>
  BY <1>3, SessionTypes DEF UseSession, Logout
<1>4. CASE ClockTick
  BY <1>4 DEF ClockTick, AccessTyped
<1>5. CASE ConsoleRestarts \/ \E u \in Users : BootstrapAdmin(u)
  BY <1>5, SetupTypes
<1>6. ASSUME NEW r \in Changes, RefuseChange(r)
      PROVE  AccessTyped' /\ UNCHANGED <<accounts, overtaken, failures, logins, clock>>
  BY <1>6, FreedHandler DEF RefuseChange, AccessTyped
<1>7. CASE ChangeStep
  <2>1. PICK r \in Changes :
          \/ \E s \in Sids : sessions[s].open /\
               \E ask \in Asks(sessions[s].user) : BeginChange(r, s, ask)
          \/ \E k \in ApiKeys, ask \in UNION {Asks(k) : k \in ApiKeys} :
               BeginKeyChange(r, k, ask)
          \/ CreateMember(r) \/ SetRole(r) \/ SetDisabled(r)
          \/ CreateKey(r) \/ RevokeKey(r) \/ RefuseChange(r)
          \/ \E u \in Users : BeginSetup(r, u)
          \/ FinishSetup(r)
    BY <1>7 DEF ChangeStep
  <2>2. CASE Members(r)
    BY <2>2, MemberTypes
  <2>3. CASE CreateKey(r) \/ RevokeKey(r)
    BY <2>3, KeyTypes
  <2>4. CASE FinishSetup(r)
    BY <2>4, SetupTypes
  <2>5. CASE RefuseChange(r)
    BY <2>5, <1>6
  <2>6. CASE \/ \E s \in Sids : sessions[s].open /\
                  \E ask \in Asks(sessions[s].user) : BeginChange(r, s, ask)
             \/ \E k \in ApiKeys, ask \in UNION {Asks(k) : k \in ApiKeys} :
                  BeginKeyChange(r, k, ask)
             \/ \E u \in Users : BeginSetup(r, u)
    BY <2>6, BegunTypes
  <2> QED
    BY <2>1, <2>2, <2>3, <2>4, <2>5, <2>6 DEF Members
<1> QED
  BY <1>1, <1>2, <1>3, <1>4, <1>5, <1>7 DEF AccessStep

-----------------------------------------------------------------------------
(* Somebody stays an administrator.                                        *)
LEMMA AdminKept ==
  ASSUME AccessTyped, EnabledExist, AdminRemains, [AccessStep]_accessVars
  PROVE  EnabledExist' /\ AdminRemains'
<1>1. /\ AccessTyped' /\ overtaken \in BOOLEAN
      /\ accounts \in [Users -> AccountRows]
  BY AccessMoves DEF AccessTyped
<1>2. ASSUME UNCHANGED accounts, overtaken => overtaken'
      PROVE  EnabledExist' /\ AdminRemains'
  BY <1>2 DEF EnabledExist, AdminRemains, NoUsers, IsAdmin
<1>3. ASSUME NEW r \in Changes, Members(r),
             overtaken' = (overtaken \/ ~Entitled(changes[r].by))
      PROVE  EnabledExist' /\ AdminRemains'
  <2> PICK by : by = changes[r].by
    OBVIOUS
  <2> PICK on : on = changes[r].on
    OBVIOUS
  <2>1. on \in Users /\ by \in Users
    BY <1>3, MemberChanges
  <2>2. PICK row \in AccountRows :
          /\ accounts' = [accounts EXCEPT ![on] = row]
          /\ row.exists
          /\ on = by /\ accounts[by].exists /\ IsAdmin(by) => row.admin /\ row.enabled
    BY <1>3, MemberChanges
  <2>3. EnabledExist'
    BY <1>1, <2>1, <2>2 DEF EnabledExist
  <2>4. ASSUME ~overtaken'
        PROVE  accounts'[by].enabled /\ accounts'[by].admin
    <3>1. IsAdmin(by)
      BY <1>3, <2>1, <2>4 DEF Entitled
    <3>2. accounts[by].exists
      BY <2>1, <3>1 DEF EnabledExist, IsAdmin
    <3> QED
      BY <1>1, <2>1, <2>2, <3>1, <3>2 DEF IsAdmin
  <2>5. AdminRemains'
    BY <2>1, <2>4 DEF AdminRemains, IsAdmin
  <2> QED
    BY <2>3, <2>5
<1>4. ASSUME NEW u \in Users, NewAdmin(u)
      PROVE  EnabledExist' /\ AdminRemains'
  <2>1. /\ accounts'[u].exists /\ accounts'[u].admin /\ accounts'[u].enabled
        /\ \A v \in Users : v # u => accounts'[v] = accounts[v]
    BY <1>4, NewAdminChanges
  <2> QED
    BY <2>1 DEF EnabledExist, AdminRemains, IsAdmin
<1> QED
  BY <1>2, <1>3, <1>4, AccessMoves

-----------------------------------------------------------------------------
(* The failures of a user that count, and the logins that are to fail.     *)
LEMMA GuessesFinite ==
  ASSUME AccessTyped, NEW u \in Users
  PROVE  /\ IsFiniteSet(Recent(u)) /\ Cardinality(Recent(u)) \in Nat
         /\ IsFiniteSet(Refusing(u)) /\ Cardinality(Refusing(u)) \in Nat
         /\ Cardinality(Refusing(u)) <= Cardinality(Logins)
         /\ Cardinality(Logins) \in Nat
<1>1. IsFiniteSet(Logins) /\ Refusing(u) \subseteq Logins
  BY AccessAssumption DEF Refusing
<1>2. failures[u] \in Seq(Nat)
  BY DEF AccessTyped
<1>3. DOMAIN failures[u] = 1..Len(failures[u]) /\ Len(failures[u]) \in Nat
  BY <1>2
<1>4. IsFiniteSet(1..Len(failures[u]))
  BY <1>3, FS_Interval
<1>5. IsFiniteSet(Recent(u))
  BY <1>3, <1>4, FS_Subset DEF Recent
<1> QED
  BY <1>1, <1>5, FS_Subset, FS_CardinalityType

(* Fewer failures count, and the same or no logins are at work.            *)
LEMMA GuessesShrink ==
  ASSUME AccessTyped, AccessTyped', GuessesCounted,
         \A u \in Users : Recent(u)' \subseteq Recent(u) /\ Refusing(u)' \subseteq Refusing(u)
  PROVE  GuessesCounted'
<1> SUFFICES ASSUME NEW u \in Users
             PROVE  Cardinality(Recent(u)') + Cardinality(Refusing(u)')
                      <= Threshold - 1 + Cardinality(Logins)
  BY DEF GuessesCounted
<1>1. /\ IsFiniteSet(Recent(u)) /\ Cardinality(Recent(u)) \in Nat
      /\ IsFiniteSet(Refusing(u)) /\ Cardinality(Refusing(u)) \in Nat
      /\ Cardinality(Logins) \in Nat
  BY GuessesFinite
<1>2. /\ Cardinality(Recent(u)') <= Cardinality(Recent(u)) /\ Cardinality(Recent(u)') \in Nat
      /\ Cardinality(Refusing(u)') <= Cardinality(Refusing(u))
      /\ Cardinality(Refusing(u)') \in Nat
  BY <1>1, FS_Subset, FS_CardinalityType
<1>3. Cardinality(Recent(u)) + Cardinality(Refusing(u)) <= Threshold - 1 + Cardinality(Logins)
  BY DEF GuessesCounted
<1> QED
  BY <1>1, <1>2, <1>3, AccessAssumption

(* A user whose failures stay below the threshold leaves room for all the  *)
(* logins there can be.                                                    *)
LEMMA RoomForAll ==
  ASSUME AccessTyped, NEW u \in Users, Cardinality(Recent(u)) <= Threshold - 1
  PROVE  Cardinality(Recent(u)) + Cardinality(Refusing(u)) <= Threshold - 1 + Cardinality(Logins)
BY GuessesFinite, AccessAssumption

(* One login more fails, and is no longer to fail.                         *)
LEMMA FailureCounted ==
  ASSUME AccessTyped, AccessTyped', GuessesCounted, NEW t \in Logins, RecordFailure(t)
  PROVE  GuessesCounted'
<1> PICK v : v = logins[t].user
  OBVIOUS
<1>1. /\ v \in Users /\ logins[t] # NoLogin /\ logins[t].step = "refuse"
      /\ logins \in [Logins -> LoginRecords] /\ failures \in [Users -> Seq(Nat)] /\ clock \in Nat
  BY LoginAtWork DEF RecordFailure, AccessTyped
<1>2. /\ failures' = [failures EXCEPT ![v] = Append(failures[v], clock)]
      /\ logins' = [logins EXCEPT ![t] = NoLogin] /\ UNCHANGED clock
  BY DEF RecordFailure
<1> PICK new : new = Append(failures[v], clock)
  OBVIOUS
<1> PICK n \in Nat : n = Len(failures[v])
  BY <1>1
<1>3. /\ failures'[v] = new /\ DOMAIN new = 1..(n + 1)
      /\ \A i \in 1..n : new[i] = failures[v][i]
      /\ DOMAIN failures[v] = 1..n
  BY <1>1, <1>2
<1>4. Recent(v)' \subseteq Recent(v) \cup {n + 1}
  <2> SUFFICES ASSUME NEW i \in Recent(v)', i # n + 1
               PROVE  i \in Recent(v)
    OBVIOUS
  <2>1. i \in 1..(n + 1) /\ new[i] + Window >= clock
    BY <1>2, <1>3 DEF Recent
  <2>2. i \in 1..n
    BY <2>1
  <2> QED
    BY <1>3, <2>1, <2>2 DEF Recent
<1>5. Refusing(v)' = Refusing(v) \ {t} /\ t \in Refusing(v)
  <2>1. t \in Refusing(v)
    BY <1>1 DEF Refusing
  <2>2. \A x \in Logins : logins'[x] = IF x = t THEN NoLogin ELSE logins[x]
    BY <1>1, <1>2
  <2> QED
    BY <2>1, <2>2 DEF Refusing
<1>6. ASSUME NEW u \in Users, u # v
      PROVE  Recent(u)' = Recent(u) /\ Refusing(u)' \subseteq Refusing(u)
  <2>1. failures'[u] = failures[u]
    BY <1>1, <1>2, <1>6
  <2>2. \A x \in Logins : logins'[x] = IF x = t THEN NoLogin ELSE logins[x]
    BY <1>1, <1>2
  <2> QED
    BY <1>2, <2>1, <2>2 DEF Recent, Refusing
<1>7. ASSUME NEW u \in Users
      PROVE  Cardinality(Recent(u)') + Cardinality(Refusing(u)')
               <= Threshold - 1 + Cardinality(Logins)
  <2>1. /\ IsFiniteSet(Recent(u)) /\ Cardinality(Recent(u)) \in Nat
        /\ IsFiniteSet(Refusing(u)) /\ Cardinality(Refusing(u)) \in Nat
        /\ Cardinality(Logins) \in Nat
    BY GuessesFinite
  <2>2. Cardinality(Recent(u)) + Cardinality(Refusing(u)) <= Threshold - 1 + Cardinality(Logins)
    BY DEF GuessesCounted
  <2>3. CASE u = v
    <3>1. Cardinality(Refusing(v)') = Cardinality(Refusing(v)) - 1
      BY <1>5, <2>1, <2>3, FS_RemoveElement
    <3> PICK all : all = Recent(v) \cup {n + 1}
      OBVIOUS
    <3>2. IsFiniteSet(all) /\ Cardinality(all) \in {Cardinality(Recent(v)), Cardinality(Recent(v)) + 1}
      BY <2>1, <2>3, FS_AddElement
    <3>3. Cardinality(Recent(v)') <= Cardinality(all) /\ Cardinality(Recent(v)') \in Nat
      BY <1>4, <3>2, FS_Subset, FS_CardinalityType
    <3> QED
      BY <2>1, <2>2, <2>3, <3>1, <3>2, <3>3, AccessAssumption
  <2>4. CASE u # v
    <3>1. Cardinality(Refusing(u)') <= Cardinality(Refusing(u)) /\ Cardinality(Refusing(u)') \in Nat
      BY <1>6, <2>1, <2>4, FS_Subset, FS_CardinalityType
    <3>2. Cardinality(Recent(u)') = Cardinality(Recent(u))
      BY <1>6, <2>4
    <3> QED
      BY <2>1, <2>2, <3>1, <3>2, AccessAssumption
  <2> QED
    BY <2>3, <2>4
<1> QED
  BY <1>7 DEF GuessesCounted

(* Every step keeps the count.                                             *)
LEMMA GuessesKept ==
  ASSUME AccessTyped, GuessesCounted, [AccessStep]_accessVars
  PROVE  GuessesCounted'
<1>1. /\ AccessTyped' /\ logins \in [Logins -> LoginRecords]
      /\ failures \in [Users -> Seq(Nat)] /\ clock \in Nat
  BY AccessMoves DEF AccessTyped
<1>2. CASE UNCHANGED <<failures, logins, clock>>
  <2>1. \A u \in Users : Recent(u)' \subseteq Recent(u) /\ Refusing(u)' \subseteq Refusing(u)
    BY <1>2 DEF Recent, Refusing
  <2> QED
    BY <1>1, <2>1, GuessesShrink
<1>3. CASE UNCHANGED <<failures, clock>> /\ logins' = [t \in Logins |-> NoLogin]
  <2>1. \A u \in Users : Recent(u)' \subseteq Recent(u) /\ Refusing(u)' \subseteq Refusing(u)
    BY <1>3 DEF Recent, Refusing
  <2> QED
    BY <1>1, <2>1, GuessesShrink
<1>4. CASE ClockTick
  <2>1. UNCHANGED <<failures, logins>> /\ clock' = clock + 1
    BY <1>4 DEF ClockTick
  <2>2. ASSUME NEW u \in Users, NEW i \in Recent(u)'
        PROVE  i \in Recent(u)
    <3>1. failures[u] \in Seq(Nat) /\ i \in DOMAIN failures[u]
          /\ failures[u][i] + Window >= clock + 1
      BY <1>1, <2>1, <2>2 DEF Recent
    <3>2. failures[u][i] \in Nat
      BY <3>1
    <3> QED
      BY <1>1, <3>1, <3>2, AccessAssumption DEF Recent
  <2>3. \A u \in Users : Recent(u)' \subseteq Recent(u) /\ Refusing(u)' \subseteq Refusing(u)
    BY <2>1, <2>2 DEF Refusing
  <2> QED
    BY <1>1, <2>3, GuessesShrink
<1>5. CASE LoginStep
  <2>1. ASSUME NEW t \in Logins, NEW u \in Users, NEW right \in BOOLEAN, BeginLogin(t, u, right)
        PROVE  GuessesCounted'
    <3>1. /\ UNCHANGED <<failures, clock>> /\ logins[t] = NoLogin
          /\ ~(Cardinality(Recent(u)) >= Threshold)
          /\ \E step : logins' = [logins EXCEPT ![t] = [step |-> step, user |-> u]]
      BY <2>1 DEF BeginLogin, Locked
    <3>2. \A v \in Users : Recent(v)' = Recent(v)
      BY <3>1 DEF Recent
    <3>3. \A v \in Users : v # u => Refusing(v)' \subseteq Refusing(v)
      BY <1>1, <3>1 DEF Refusing
    <3>4. Cardinality(Recent(u)') <= Threshold - 1
      BY <1>1, <3>1, <3>2, GuessesFinite, AccessAssumption
    <3>5. ASSUME NEW v \in Users
          PROVE  Cardinality(Recent(v)') + Cardinality(Refusing(v)')
                   <= Threshold - 1 + Cardinality(Logins)
      <4>1. CASE v = u
        <5>1. Refusing(u)' \subseteq Logins /\ IsFiniteSet(Logins)
          BY AccessAssumption DEF Refusing
        <5>2. /\ Cardinality(Refusing(u)') <= Cardinality(Logins)
              /\ Cardinality(Refusing(u)') \in Nat /\ Cardinality(Logins) \in Nat
          BY <5>1, FS_Subset, FS_CardinalityType
        <5>3. Cardinality(Recent(u)') \in Nat
          BY <3>2, GuessesFinite
        <5> QED
          BY <3>4, <4>1, <5>2, <5>3, AccessAssumption
      <4>2. CASE v # u
        <5>1. /\ IsFiniteSet(Refusing(v)) /\ Cardinality(Refusing(v)) \in Nat
              /\ Cardinality(Recent(v)) \in Nat /\ Cardinality(Logins) \in Nat
          BY GuessesFinite
        <5>2. Cardinality(Refusing(v)') <= Cardinality(Refusing(v)) /\ Cardinality(Refusing(v)') \in Nat
          BY <3>3, <4>2, <5>1, FS_Subset, FS_CardinalityType
        <5>3. Cardinality(Recent(v)) + Cardinality(Refusing(v)) <= Threshold - 1 + Cardinality(Logins)
          BY DEF GuessesCounted
        <5> QED
          BY <3>2, <5>1, <5>2, <5>3, AccessAssumption
      <4> QED
        BY <4>1, <4>2
    <3> QED
      BY <3>5 DEF GuessesCounted
  <2>2. ASSUME NEW t \in Logins, NEW s \in Sids, CreateSession(t, s)
        PROVE  GuessesCounted'
    <3>1. /\ UNCHANGED <<failures, clock>> /\ logins[t].step = "enter"
          /\ logins' = [logins EXCEPT ![t].step = "success"]
      BY <2>2 DEF CreateSession
    <3>2. logins[t] \in [step : {"enter", "refuse", "success"}, user : Users]
      BY <3>1, LoginAtWork
    <3>3. \A x \in Logins : x # t => logins'[x] = logins[x]
      BY <1>1, <3>1
    <3>4. logins'[t].step = "success"
      BY <1>1, <3>1, <3>2
    <3>5. \A u \in Users : Recent(u)' \subseteq Recent(u) /\ Refusing(u)' \subseteq Refusing(u)
      BY <3>1, <3>3, <3>4 DEF Recent, Refusing
    <3> QED
      BY <1>1, <3>5, GuessesShrink
  <2>3. ASSUME NEW t \in Logins, RecordSuccess(t)
        PROVE  GuessesCounted'
    <3>1. /\ UNCHANGED clock /\ logins' = [logins EXCEPT ![t] = NoLogin]
          /\ failures' = [failures EXCEPT ![logins[t].user] = <<>>]
      BY <2>3 DEF RecordSuccess
    <3>2. \A u \in Users : failures'[u] \in {<<>>, failures[u]}
      BY <1>1, <3>1
    <3>3. \A u \in Users : Recent(u)' \subseteq Recent(u)
      BY <3>1, <3>2 DEF Recent
    <3>4. \A u \in Users : Refusing(u)' \subseteq Refusing(u)
      BY <1>1, <3>1 DEF Refusing
    <3> QED
      BY <1>1, <3>3, <3>4, GuessesShrink
  <2> QED
    BY <1>1, <1>5, <2>1, <2>2, <2>3, FailureCounted DEF LoginStep
<1> QED
  BY <1>2, <1>3, <1>4, <1>5, AccessMoves

-----------------------------------------------------------------------------
(* The Console starts without accounts.                                    *)
LEMMA AccessStarts ==
  AccessInit => AccessInvariant
<1> SUFFICES ASSUME AccessInit PROVE AccessInvariant
  OBVIOUS
<1>1. AccessTyped
  <2>1. /\ NoAccount \in AccountRows /\ NoSession \in SessionRows
        /\ NoKeyRow \in KeyRows /\ NoLogin \in LoginRecords /\ NoChange \in ChangeRecords
    BY DEF AccountRows, NoAccount, SessionRows, KeyRows, LoginRecords, ChangeRecords
  <2>2. failures \in [Users -> Seq(Nat)] /\ clock \in Nat
    BY DEF AccessInit
  <2> QED
    BY <2>1, <2>2 DEF AccessInit, AccessTyped
<1>2. EnabledExist /\ AdminRemains
  BY DEF AccessInit, EnabledExist, AdminRemains, NoUsers, NoAccount
<1>3. ASSUME NEW u \in Users
      PROVE  Cardinality(Recent(u)) + Cardinality(Refusing(u)) <= Threshold - 1 + Cardinality(Logins)
  <2>1. Recent(u) = {} /\ Refusing(u) = {}
    BY DEF AccessInit, Recent, Refusing
  <2>2. Cardinality(Recent(u)) = 0
    BY <2>1, FS_EmptySet
  <2> QED
    BY <1>1, <2>2, RoomForAll, AccessAssumption
<1> QED
  BY <1>1, <1>2, <1>3 DEF AccessInvariant, GuessesCounted

(* The types, the administrators and the count of the failures hold in     *)
(* every reachable state.                                                  *)
THEOREM AccessInvariantHolds ==
  AccessSpec => []AccessInvariant
<1>1. AccessInvariant /\ [AccessStep]_accessVars => AccessInvariant'
  BY AccessMoves, AdminKept, GuessesKept DEF AccessInvariant
<1> QED
  BY <1>1, AccessStarts, PTL DEF AccessSpec

(* A Console with accounts has an enabled administrator, unless a change   *)
(* was made for somebody who was no longer entitled to it when it was made *)
(* (pages.py: auth.require comes before the form is awaited).               *)
THEOREM AdministratorRemains ==
  AccessSpec => []AdminRemains
BY AccessInvariantHolds, PTL DEF AccessInvariant

(* However many logins run together, the failures that count for a user    *)
(* exceed what the lock allows by no more than there are logins (auth.py,  *)
(* login: the lock is read before the key is derived).                     *)
THEOREM GuessesStayBounded ==
  AccessSpec => []GuessesBounded
<1>1. AccessInvariant => GuessesBounded
  <2> SUFFICES ASSUME AccessInvariant, NEW u \in Users
               PROVE  Cardinality(Recent(u)) <= Threshold - 1 + Cardinality(Logins)
    BY DEF GuessesBounded
  <2>1. /\ Cardinality(Recent(u)) \in Nat /\ Cardinality(Refusing(u)) \in Nat
        /\ Cardinality(Logins) \in Nat
    BY GuessesFinite DEF AccessInvariant
  <2>2. Cardinality(Recent(u)) + Cardinality(Refusing(u)) <= Threshold - 1 + Cardinality(Logins)
    BY DEF AccessInvariant, GuessesCounted
  <2> QED
    BY <2>1, <2>2, AccessAssumption
<1> QED
  BY <1>1, AccessInvariantHolds, PTL

-----------------------------------------------------------------------------
(* The serial harness.                                                     *)

SerialSpec == SerialInit /\ [][SerialStep]_serialVars

-----------------------------------------------------------------------------
(* The inductive invariant.                                                *)

Steps == Trying \cup {"off", "dead", "done", "closing", "sleeping"}

Statuses == {"running", "incomplete", "interrupted", Success,
             "incomplete_cleanup_failed", "incomplete_persistence_failed"}

Reports == Staff \X Nat

HarnessRecords ==
  [step : Steps, stage : Staff, seen : SUBSET Reports, initial : Nat,
   status : Statuses, owns : BOOLEAN, clean : BOOLEAN, left : SUBSET Staff]

SerialTyped ==
  /\ admission \in [open : BOOLEAN, denials : Nat, serving : Staff \cup {Nobody},
                    served : [Staff -> Nat]]
  /\ crew \in [asked : SUBSET Staff, awake : SUBSET Staff]
  /\ filing \in [posted : SUBSET Reports, filed : SUBSET Reports]
  /\ harness \in HarnessRecords
  /\ result \in Statuses \cup {"none", "torn"}
  /\ starts \in Nat
  /\ IsFiniteSet(filing.posted) /\ IsFiniteSet(filing.filed)
  /\ IsFiniteSet(harness.seen)

(* Only who was asked spends the budget.                                   *)
SpendersAsked ==
  /\ \A w \in Staff : admission.served[w] > 0 => w \in crew.asked
  /\ admission.serving # Nobody => admission.served[admission.serving] > 0

(* Before a role is asked those before it have spent and gone to sleep.    *)
InTurn ==
  \A w \in crew.asked, v \in Staff :
    v < w => v \notin crew.awake /\ admission.served[v] > 0

(* While the harness is at a stage no later role has been asked, the       *)
(* earlier ones are through, and only this one can be served.              *)
AtStage ==
  harness.step \in Trying \ {"status"} =>
    /\ \A w \in crew.asked : w <= harness.stage
    /\ \A v \in Staff : v < harness.stage =>
         v \notin crew.awake /\ admission.served[v] > 0
    /\ admission.serving \in {Nobody, harness.stage}

StageDone ==
  /\ harness.step \in {"sleep", "drain"} => admission.served[harness.stage] > 0
  /\ harness.step = "drain" => harness.stage \notin crew.awake

(* One report is seen at each stage.                                       *)
ReportsSeen ==
  /\ harness.step = "status" => harness.stage = 1
  /\ harness.step \in {"status", "before", "workers", "open", "send", "poll", "list"} =>
       Cardinality(harness.seen) = harness.stage - 1
  /\ harness.step \in {"attest", "sleep", "drain"} =>
       Cardinality(harness.seen) = harness.stage

(* What a successful harness has brought about.                            *)
Succeeded ==
  /\ crew.awake = {} /\ admission.serving = Nobody
  /\ admission.denials = harness.initial
  /\ Cardinality(harness.seen) = LastStage
  /\ \A w \in Staff : admission.served[w] > 0

SuccessBacked ==
  /\ harness.step \in {"closing", "sleeping", "done"} /\ harness.status = Success =>
       Succeeded
  /\ result = Success => harness.step = "done" /\ Succeeded /\ ~admission.open
  /\ harness.step \in Trying => harness.status = "running"

(* A cleanup that is called clean has closed what it says it closed.       *)
CleanedUp ==
  /\ harness.step \in Trying \cup {"closing"} => harness.left = Staff
  /\ harness.step = "sleeping" /\ harness.clean =>
       ~admission.open /\ crew.awake \subseteq harness.left
  /\ harness.step = "done" =>
       \/ harness.status \in {"incomplete_cleanup_failed",
                              "incomplete_persistence_failed"}
       \/ ~admission.open /\ crew.awake = {}

SerialInvariant ==
  /\ SerialTyped /\ SpendersAsked /\ InTurn /\ AtStage /\ StageDone
  /\ ReportsSeen /\ OneRoleAtATime /\ SuccessBacked /\ CleanedUp
-----------------------------------------------------------------------------
(* It holds at the start.                                                  *)
LEMMA SerialStarts ==
  SerialInit => SerialInvariant
<1> SUFFICES ASSUME SerialInit PROVE SerialInvariant
  OBVIOUS
<1>1. 1 \in Staff /\ LastStage \in Nat \ {0} /\ 0 \notin Staff
  BY SerialAssumption DEF Staff
<1>2. IsFiniteSet({}) /\ Cardinality({}) = 0
  BY FS_EmptySet
<1>3. SerialTyped
  BY <1>1, <1>2 DEF SerialInit, SerialTyped, NotRunning, Steps, Statuses, Trying, Reports, Nobody,
         HarnessRecords
<1> QED
  BY <1>1, <1>2, <1>3
  DEF SerialInit, SerialInvariant, NotRunning, Trying, SpendersAsked, InTurn, AtStage,
      StageDone, ReportsSeen, OneRoleAtATime, SuccessBacked, CleanedUp, Success, Nobody

(* A step of the world around the harness.                                 *)
LEMMA WorldKeeps ==
  ASSUME SerialInvariant, World
  PROVE  SerialInvariant'
<1> USE SerialAssumption DEF SerialInvariant
<1>0. Nobody \notin Staff
  BY DEF Nobody, Staff
<1>1. ASSUME NEW w \in Staff, Turn(w)
      PROVE  SerialInvariant'
  <2>1. PICK a \in [open : BOOLEAN, denials : Nat, serving : Staff \cup {Nobody},
                   served : [Staff -> Nat]] : a = admission
    BY DEF SerialTyped
  <2>2. a.served \in [Staff -> Nat] /\ a.served[w] + 1 \in Nat \ {0}
    BY <2>1
  <2> PICK served : served = [a.served EXCEPT ![w] = a.served[w] + 1]
    OBVIOUS
  <2>3. /\ served = [a.served EXCEPT ![w] = a.served[w] + 1]
        /\ served \in [Staff -> Nat] /\ served[w] > 0
        /\ \A v \in Staff : v # w => served[v] = a.served[v]
    BY <2>2
  <2>4. /\ admission' \in [open : BOOLEAN, denials : Nat, serving : Staff \cup {Nobody},
                           served : [Staff -> Nat]]
        /\ admission'.serving \in {a.serving, w}
        /\ admission'.open = a.open
        /\ \A v \in Staff : a.served[v] > 0 => admission'.served[v] > 0
        /\ admission'.serving # a.serving => admission'.served[w] > 0
        /\ \A v \in Staff : admission'.served[v] > 0 => v = w \/ a.served[v] > 0
    <3>1. CASE /\ a.serving = Nobody
               /\ admission' = [a EXCEPT !.serving = w, !.served = served]
      <4>1. admission'.served = served /\ admission'.serving = w /\ admission'.open = a.open
        BY <2>1, <3>1
      <4> QED
        BY <2>1, <2>2, <2>3, <3>1, <4>1
    <3>2. CASE admission' = [a EXCEPT !.denials = @ + 1]
      BY <2>1, <3>2
    <3> QED
      BY <1>1, <2>1, <2>3, <3>1, <3>2 DEF Turn
  <2>5. /\ w \in crew.asked /\ w \in crew.awake
        /\ UNCHANGED <<crew, filing, harness, result, starts>>
    BY <1>1 DEF Turn
  <2>6. SerialTyped'
    BY <2>4, <2>5 DEF SerialTyped
  <2>7. SpendersAsked' /\ InTurn' /\ OneRoleAtATime'
    <3>1. SpendersAsked'
      BY <1>0, <2>1, <2>4, <2>5 DEF SpendersAsked, SerialTyped
    <3>2. InTurn'
      BY <2>1, <2>4, <2>5 DEF InTurn
    <3>3. \A v \in crew.asked \cap crew.awake : v = w
      BY <2>5 DEF InTurn, Staff, SerialTyped
    <3> QED
      BY <2>1, <2>4, <2>5, <3>1, <3>2, <3>3 DEF OneRoleAtATime, SerialTyped
  <2>8. AtStage' /\ StageDone' /\ ReportsSeen'
    <3>1. harness.step \in Trying \ {"status"} => w = harness.stage
      BY <2>5 DEF AtStage, SerialTyped, HarnessRecords, Staff
    <3> QED
      BY <2>1, <2>4, <2>5, <3>1
      DEF AtStage, StageDone, ReportsSeen, SerialTyped, HarnessRecords
  <2>9. SuccessBacked' /\ CleanedUp'
    <3>1. crew.awake # {} /\ admission'.open = a.open
      BY <2>4, <2>5
    <3> QED
      BY <2>1, <2>5, <3>1 DEF SuccessBacked, Succeeded, CleanedUp, Success
  <2> QED
    BY <2>6, <2>7, <2>8, <2>9
<1>2. ASSUME SettleTurn \/ CloseElsewhere
      PROVE  SerialInvariant'
  <2>1. SerialTyped'
    BY <1>2 DEF SerialTyped, SettleTurn, CloseElsewhere
  <2>2. SpendersAsked' /\ InTurn' /\ OneRoleAtATime'
    BY <1>0, <1>2 DEF SerialTyped, SettleTurn, CloseElsewhere, SpendersAsked, InTurn, OneRoleAtATime
  <2>3. AtStage' /\ StageDone' /\ ReportsSeen'
    BY <1>0, <1>2 DEF SerialTyped, SettleTurn, CloseElsewhere, AtStage, StageDone, ReportsSeen
  <2>4. SuccessBacked' /\ CleanedUp'
    BY <1>0, <1>2 DEF SerialTyped, SettleTurn, CloseElsewhere, SuccessBacked, Succeeded, CleanedUp
  <2> QED
    BY <2>1, <2>2, <2>3, <2>4
<1>3. ASSUME UNCHANGED <<admission, crew, harness, result, starts>>, SerialTyped'
      PROVE  SerialInvariant'
  BY <1>3 DEF SpendersAsked, InTurn, OneRoleAtATime, AtStage, StageDone, ReportsSeen,
              SuccessBacked, Succeeded, CleanedUp
<1>4. ASSUME NEW w \in Staff, Post(w)
      PROVE  SerialInvariant'
  <2> PICK mine : mine = {r \in filing.posted : r[1] = w}
    OBVIOUS
  <2>1. IsFiniteSet(mine)
    BY FS_Subset DEF SerialTyped
  <2>2. PICK n \in Nat : n = Cardinality(mine)
    BY <2>1, FS_CardinalityType
  <2>3. filing' = [filing EXCEPT !.posted = @ \cup {<<w, n + 1>>}]
    BY <1>4, <2>2 DEF Post
  <2>4. IsFiniteSet(filing.posted \cup {<<w, n + 1>>})
    BY FS_AddElement DEF SerialTyped
  <2>5. <<w, n + 1>> \in Reports
    BY DEF Reports
  <2>6. filing' \in [posted : SUBSET Reports, filed : SUBSET Reports]
    BY <2>3, <2>5 DEF SerialTyped
  <2>7. filing'.posted = filing.posted \cup {<<w, n + 1>>} /\ filing'.filed = filing.filed
    BY <2>3 DEF SerialTyped
  <2>8. SerialTyped'
    BY <1>4, <2>4, <2>6, <2>7 DEF SerialTyped, Post
  <2> QED
    BY <1>3, <1>4, <2>8 DEF Post
<1>5. ASSUME NEW r \in filing.posted, File(r)
      PROVE  SerialInvariant'
  <2>1. IsFiniteSet(filing.filed \cup {r})
    BY FS_AddElement DEF SerialTyped
  <2>2. SerialTyped'
    BY <1>5, <2>1 DEF SerialTyped, File
  <2> QED
    BY <1>3, <1>5, <2>2 DEF File
<1> QED
  BY <1>1, <1>2, <1>4, <1>5 DEF World
(* A harness that stops before its end, from any step: nothing is claimed. *)
LEMMA Stops ==
  ASSUME NEW h \in HarnessRecords, h.left = Staff, IsFiniteSet(h.seen),
         NEW status \in {"incomplete", "interrupted"},
         harness' = Stopped(h, status), result' # Success
  PROVE  /\ harness' \in HarnessRecords /\ IsFiniteSet(harness'.seen)
         /\ AtStage' /\ StageDone' /\ ReportsSeen' /\ SuccessBacked' /\ CleanedUp'
<1>1. /\ harness' \in HarnessRecords /\ harness'.seen = h.seen
      /\ harness'.step = "closing" /\ harness'.status = status
      /\ harness'.left = Staff
  BY DEF Stopped, HarnessRecords, Steps, Statuses
<1>2. status # Success
  BY DEF Success
<1> QED
  BY <1>1, <1>2
  DEF AtStage, StageDone, ReportsSeen, SuccessBacked, CleanedUp, Trying

(* A harness that goes on has neither succeeded nor cleaned up.            *)
LEMMA GoesOn ==
  ASSUME harness'.step \in Trying, harness'.status = "running", harness'.left = Staff,
         result' # Success
  PROVE  SuccessBacked' /\ CleanedUp'
BY DEF SuccessBacked, CleanedUp, Trying

(* While it tries, the record on disk claims no success.                   *)
LEMMA TryingFacts ==
  ASSUME SerialInvariant, harness.step \in Trying
  PROVE  /\ result # Success /\ harness.status = "running" /\ harness.left = Staff
         /\ harness \in HarnessRecords /\ IsFiniteSet(harness.seen)
BY DEF SerialInvariant, SuccessBacked, CleanedUp, SerialTyped, Trying

(* A failure or a lost call in the try block.                              *)
LEMMA FailureKeeps ==
  ASSUME SerialInvariant, harness.step \in Trying,
         NEW status \in {"incomplete", "interrupted"}, harness' = Stopped(harness, status),
         UNCHANGED <<admission, crew, filing, result, starts>>
  PROVE  SerialInvariant'
<1>1. /\ result' # Success /\ harness.left = Staff
      /\ harness \in HarnessRecords /\ IsFiniteSet(harness.seen)
  BY TryingFacts
<1>2. /\ harness' \in HarnessRecords /\ IsFiniteSet(harness'.seen)
      /\ AtStage' /\ StageDone' /\ ReportsSeen' /\ SuccessBacked' /\ CleanedUp'
  BY <1>1, Stops
<1>3. SerialTyped'
  BY <1>2 DEF SerialInvariant, SerialTyped
<1>4. SpendersAsked' /\ InTurn' /\ OneRoleAtATime'
  BY DEF SerialInvariant, SpendersAsked, InTurn, OneRoleAtATime
<1> QED
  BY <1>2, <1>3, <1>4 DEF SerialInvariant

(* save(): either the harness goes on as it wanted, or it stops.           *)
LEMMA SavedOrStopped ==
  ASSUME NEW next \in HarnessRecords, next.left = Staff, IsFiniteSet(next.seen),
         SaveAnd(next), result \in Statuses \cup {"none", "torn"}, result # Success
  PROVE  /\ harness' \in HarnessRecords /\ IsFiniteSet(harness'.seen)
         /\ result' \in Statuses \cup {"none", "torn"} /\ result' # Success
         /\ \/ harness' = next
            \/ AtStage' /\ StageDone' /\ ReportsSeen' /\ SuccessBacked' /\ CleanedUp'
<1>1. result' \in Statuses \cup {"none", "torn"} /\ result' # Success
  BY DEF SaveAnd, Statuses, Success
<1>2. CASE harness' = next
  BY <1>1, <1>2
<1>3. CASE harness' = Stopped(next, "incomplete")
  BY <1>1, <1>3, Stops
<1> QED
  BY <1>1, <1>2, <1>3 DEF SaveAnd

(* What the harness does to itself alone leaves these alone.               *)
LEMMA OutsideKept ==
  ASSUME SerialInvariant, UNCHANGED <<admission, crew>>
  PROVE  SpendersAsked' /\ InTurn' /\ OneRoleAtATime'
BY DEF SerialInvariant, SpendersAsked, InTurn, OneRoleAtATime

(* A look at the guard, or at the Workers, that lets the harness go on to  *)
(* the next call of the same stage.                                        *)
LEMMA SameStage ==
  ASSUME SerialInvariant, NEW from, NEW to, harness.step = from,
         \/ from = "workers" /\ to = "open"
         \/ from = "open" /\ to = "send"
         \/ from = "poll" /\ to = "list"
         \/ from = "list" /\ to = "poll"
         \/ from = "attest" /\ to = "sleep" /\ admission.served[harness.stage] > 0,
         harness' = [harness EXCEPT !.step = to],
         UNCHANGED <<admission, crew, filing, result, starts>>
  PROVE  SerialInvariant'
<1>1. harness.step \in Trying
  BY DEF Trying
<1>2. /\ result # Success /\ harness.status = "running" /\ harness.left = Staff
      /\ harness \in HarnessRecords /\ IsFiniteSet(harness.seen)
  BY <1>1, TryingFacts
<1>3. /\ to \in Trying \ {"status"} /\ from \in Trying \ {"status"}
      /\ to \in Steps
  BY DEF Trying, Steps
<1>4. /\ harness' \in HarnessRecords /\ harness'.step = to
      /\ harness'.stage = harness.stage /\ harness'.seen = harness.seen
      /\ harness'.status = "running" /\ harness'.left = Staff
  BY <1>2, <1>3 DEF HarnessRecords
<1>5. SerialTyped'
  BY <1>2, <1>4 DEF SerialInvariant, SerialTyped
<1>6. SuccessBacked' /\ CleanedUp'
  BY <1>2, <1>3, <1>4, GoesOn
<1>7. AtStage' /\ StageDone' /\ ReportsSeen'
  BY <1>3, <1>4 DEF SerialInvariant, AtStage, StageDone, ReportsSeen
<1> QED
  BY <1>5, <1>6, <1>7, OutsideKept DEF SerialInvariant

(* The looks.                                                              *)
LEMMA LooksKeep ==
  ASSUME SerialInvariant,
         \/ ReadWorkers \/ LookThen("open", "send") \/ LookThen("poll", "list")
         \/ Attest \/ GiveUp
  PROVE  SerialInvariant'
<1>1. CASE ReadWorkers
  BY <1>1, SameStage, FailureKeeps DEF ReadWorkers, During, Fails, Trying
<1>2. CASE LookThen("open", "send")
  BY <1>2, SameStage, FailureKeeps DEF LookThen, During, Fails, Trying
<1>3. CASE LookThen("poll", "list")
  BY <1>3, SameStage, FailureKeeps DEF LookThen, During, Fails, Trying
<1>4. CASE Attest
  BY <1>4, SameStage, FailureKeeps DEF Attest, During, Fails, Trying
<1>5. CASE GiveUp
  BY <1>5, FailureKeeps DEF GiveUp
<1> QED
  BY <1>1, <1>2, <1>3, <1>4, <1>5

(* The start of the harness: nothing has been seen, and if a role was      *)
(* asked before, it was the first one.                                     *)
LEMMA BeginningKeeps ==
  ASSUME SerialInvariant, Launch \/ ReadStatus \/ ReadBefore
  PROVE  SerialInvariant'
<1> USE SerialAssumption
<1>1. 1 \in Staff /\ Cardinality({}) = 0 /\ IsFiniteSet({})
  BY FS_EmptySet DEF Staff
<1>2. CASE Launch
  <2>1. /\ harness' \in HarnessRecords /\ harness'.step = "status"
        /\ harness'.stage = 1 /\ harness'.seen = {}
        /\ harness'.status = "running" /\ harness'.left = Staff
    BY <1>1, <1>2 DEF Launch, NotRunning, HarnessRecords, Steps, Trying, Statuses
  <2>2. result' = "none" /\ UNCHANGED <<admission, crew, filing>> /\ starts' = starts + 1
    BY <1>2 DEF Launch
  <2>3. SerialTyped'
    BY <1>1, <2>1, <2>2 DEF SerialInvariant, SerialTyped
  <2>4. SuccessBacked' /\ CleanedUp'
    BY <2>1, <2>2, GoesOn DEF Trying, Success
  <2>5. AtStage' /\ StageDone' /\ ReportsSeen'
    BY <1>1, <2>1 DEF AtStage, StageDone, ReportsSeen
  <2> QED
    BY <2>2, <2>3, <2>4, <2>5, OutsideKept DEF SerialInvariant
<1>3. CASE ReadStatus
  <2>1. harness.step = "status" /\ harness.step \in Trying
    BY <1>3 DEF ReadStatus, During, Trying
  <2>2. /\ result # Success /\ harness.status = "running" /\ harness.left = Staff
        /\ harness \in HarnessRecords /\ IsFiniteSet(harness.seen)
    BY <2>1, TryingFacts
  <2>3. CASE Fails
    BY <1>3, <2>1, <2>3, FailureKeeps DEF Fails, ReadStatus
  <2>4. CASE /\ Unused
             /\ harness' = [harness EXCEPT !.step = "before", !.initial = admission.denials]
    <3>1. /\ harness' \in HarnessRecords /\ harness'.step = "before"
          /\ harness'.stage = harness.stage /\ harness'.seen = harness.seen
          /\ harness'.status = "running" /\ harness'.left = Staff
      BY <2>2, <2>4 DEF HarnessRecords, Steps, Trying, SerialInvariant, SerialTyped
    <3>2. UNCHANGED <<admission, crew, filing, result, starts>>
      BY <1>3 DEF ReadStatus
    <3>3. SerialTyped'
      BY <2>2, <3>1, <3>2 DEF SerialInvariant, SerialTyped
    <3>4. SuccessBacked' /\ CleanedUp'
      BY <2>2, <3>1, <3>2, GoesOn DEF Trying
    <3>5. harness.stage = 1 /\ \A w \in crew.asked : w <= 1
      <4>1. harness.stage = 1
        BY <2>1 DEF SerialInvariant, ReportsSeen
      <4>2. ASSUME NEW w \in crew.asked, w > 1
            PROVE  FALSE
        BY <1>1, <2>4, <4>2 DEF SerialInvariant, InTurn, Unused
      <4> QED
        BY <4>1, <4>2 DEF SerialInvariant, SerialTyped, Staff
    <3>6. AtStage'
      BY <2>4, <3>1, <3>2, <3>5 DEF AtStage, Unused, Staff
    <3>7. StageDone' /\ ReportsSeen'
      BY <2>1, <3>1 DEF StageDone, ReportsSeen, SerialInvariant
    <3> QED
      BY <3>2, <3>3, <3>4, <3>6, <3>7, OutsideKept DEF SerialInvariant
  <2> QED
    BY <1>3, <2>3, <2>4 DEF ReadStatus
<1>4. CASE ReadBefore
  <2>1. harness.step = "before" /\ harness.step \in Trying
    BY <1>4 DEF ReadBefore, During, Trying
  <2>2. /\ result # Success /\ harness.status = "running" /\ harness.left = Staff
        /\ harness \in HarnessRecords /\ IsFiniteSet(harness.seen)
        /\ result \in Statuses \cup {"none", "torn"}
    BY <2>1, TryingFacts DEF SerialInvariant, SerialTyped
  <2>3. UNCHANGED <<admission, crew, filing, starts>>
    BY <1>4 DEF ReadBefore
  <2>4. CASE Fails /\ UNCHANGED result
    BY <2>1, <2>3, <2>4, FailureKeeps DEF Fails
  <2> PICK next : next = [harness EXCEPT !.step = "workers", !.owns = TRUE]
    OBVIOUS
  <2>5. /\ next \in HarnessRecords /\ next.step = "workers"
        /\ next.stage = harness.stage /\ next.seen = harness.seen
        /\ next.status = "running" /\ next.left = Staff
    BY <2>2 DEF HarnessRecords, Steps, Trying
  <2>6. CASE SaveAnd(next)
    <3>1. /\ harness' \in HarnessRecords /\ IsFiniteSet(harness'.seen)
          /\ result' \in Statuses \cup {"none", "torn"} /\ result' # Success
          /\ \/ harness' = next
             \/ AtStage' /\ StageDone' /\ ReportsSeen' /\ SuccessBacked' /\ CleanedUp'
      BY <2>2, <2>5, <2>6, SavedOrStopped
    <3>2. SerialTyped'
      BY <2>3, <3>1 DEF SerialInvariant, SerialTyped
    <3>3. harness' = next => SuccessBacked' /\ CleanedUp'
      BY <2>5, <3>1, GoesOn DEF Trying
    <3>4. harness' = next => AtStage' /\ StageDone' /\ ReportsSeen'
      BY <2>1, <2>3, <2>5 DEF SerialInvariant, AtStage, StageDone, ReportsSeen, Trying
    <3> QED
      BY <2>3, <3>1, <3>2, <3>3, <3>4, OutsideKept DEF SerialInvariant
  <2> QED
    BY <1>4, <2>4, <2>6 DEF ReadBefore
<1> QED
  BY <1>2, <1>3, <1>4

(* The task goes out: nobody later was asked, and those before sleep.      *)
LEMMA SendTaskKeeps ==
  ASSUME SerialInvariant, SendTask
  PROVE  SerialInvariant'
<1>1. harness.step = "send" /\ harness.step \in Trying
  BY DEF SendTask, During, Trying
<1>2. /\ result # Success /\ harness.status = "running" /\ harness.left = Staff
      /\ harness \in HarnessRecords /\ IsFiniteSet(harness.seen)
      /\ result \in Statuses \cup {"none", "torn"} /\ harness.stage \in Staff
  BY <1>1, TryingFacts DEF SerialInvariant, SerialTyped, HarnessRecords
<1> PICK next : next = [harness EXCEPT !.step = "poll"]
  OBVIOUS
<1>3. /\ next \in HarnessRecords /\ next.step = "poll"
      /\ next.stage = harness.stage /\ next.seen = harness.seen
      /\ next.status = "running" /\ next.left = Staff
  BY <1>2 DEF HarnessRecords, Steps, Trying
<1>4. /\ UNCHANGED <<admission, filing, starts>>
      /\ crew' = [crew EXCEPT !.asked = @ \cup {harness.stage}]
      /\ SaveAnd(next)
  BY DEF SendTask
<1>5. /\ crew' \in [asked : SUBSET Staff, awake : SUBSET Staff]
      /\ crew'.asked = crew.asked \cup {harness.stage} /\ crew'.awake = crew.awake
  BY <1>2, <1>4 DEF SerialInvariant, SerialTyped
<1>6. /\ harness' \in HarnessRecords /\ IsFiniteSet(harness'.seen)
      /\ result' \in Statuses \cup {"none", "torn"} /\ result' # Success
      /\ \/ harness' = next
         \/ AtStage' /\ StageDone' /\ ReportsSeen' /\ SuccessBacked' /\ CleanedUp'
  BY <1>2, <1>3, <1>4, SavedOrStopped
<1>7. SerialTyped'
  BY <1>4, <1>5, <1>6 DEF SerialInvariant, SerialTyped
<1>8. /\ \A w \in crew.asked : w <= harness.stage
      /\ \A v \in Staff : v < harness.stage => v \notin crew.awake /\ admission.served[v] > 0
      /\ admission.serving \in {Nobody, harness.stage}
  BY <1>1 DEF SerialInvariant, AtStage, Trying
<1>9. SpendersAsked' /\ InTurn'
  BY <1>4, <1>5, <1>8 DEF SerialInvariant, SpendersAsked, InTurn
<1>10. OneRoleAtATime'
  <2>1. ASSUME NEW w \in crew'.asked \cap crew'.awake
        PROVE  w = harness.stage
    BY <1>5, <1>8, <1>2 DEF SerialInvariant, SerialTyped, Staff
  <2> QED
    BY <1>4, <1>8, <2>1 DEF OneRoleAtATime
<1>11. harness' = next => AtStage' /\ StageDone' /\ ReportsSeen'
  BY <1>1, <1>2, <1>3, <1>4, <1>5, <1>8
  DEF SerialInvariant, AtStage, StageDone, ReportsSeen, Staff
<1>12. harness' = next => SuccessBacked' /\ CleanedUp'
  BY <1>3, <1>6, GoesOn DEF Trying
<1> QED
  BY <1>6, <1>7, <1>9, <1>10, <1>11, <1>12 DEF SerialInvariant

(* One new report is added to those seen, or none, or the harness fails.   *)
LEMMA SeeReportsKeeps ==
  ASSUME SerialInvariant, SeeReports
  PROVE  SerialInvariant'
<1>1. harness.step = "list" /\ harness.step \in Trying
  BY DEF SeeReports, During, Trying
<1>2. /\ result # Success /\ harness.status = "running" /\ harness.left = Staff
      /\ harness \in HarnessRecords /\ IsFiniteSet(harness.seen)
      /\ harness.stage \in Staff /\ harness.seen \subseteq Reports
  BY <1>1, TryingFacts DEF HarnessRecords
<1>3. UNCHANGED <<admission, crew, filing, result, starts>>
  BY DEF SeeReports
<1>4. CASE Fails
  BY <1>1, <1>3, <1>4, FailureKeeps DEF Fails
<1>5. CASE harness' = [harness EXCEPT !.step = "poll"]
  BY <1>1, <1>3, <1>5, SameStage
<1>6. CASE /\ Cardinality(NewReports) = 1
           /\ harness' = [harness EXCEPT !.step = "attest", !.seen = @ \cup NewReports]
  <2>1. NewReports \subseteq Reports /\ IsFiniteSet(NewReports)
    BY FS_Difference DEF NewReports, SerialInvariant, SerialTyped
  <2> PICK all : all = harness.seen \cup NewReports
    OBVIOUS
  <2>2. /\ IsFiniteSet(all)
        /\ Cardinality(all) = Cardinality(harness.seen) + Cardinality(NewReports)
               - Cardinality(harness.seen \cap NewReports)
    BY <1>2, <2>1, FS_Union
  <2>3. harness.seen \cap NewReports = {}
    BY DEF NewReports
  <2>4. Cardinality(harness.seen) = harness.stage - 1
    BY <1>1 DEF SerialInvariant, ReportsSeen
  <2>5. Cardinality(all) = harness.stage
    <3>1. Cardinality(harness.seen \cap NewReports) = 0
      BY <2>3, FS_EmptySet
    <3> QED
      BY <1>2, <1>6, <2>2, <2>4, <3>1, SerialAssumption DEF Staff
  <2>6. /\ harness' \in HarnessRecords /\ harness'.step = "attest"
        /\ harness'.stage = harness.stage /\ harness'.seen = all
        /\ harness'.status = "running" /\ harness'.left = Staff
    BY <1>2, <1>6, <2>1 DEF HarnessRecords, Steps, Trying
  <2>7. SerialTyped'
    BY <1>3, <2>2, <2>6 DEF SerialInvariant, SerialTyped
  <2>8. SuccessBacked' /\ CleanedUp'
    BY <1>2, <1>3, <2>6, GoesOn DEF Trying
  <2>9. AtStage' /\ StageDone' /\ ReportsSeen'
    BY <1>1, <1>3, <2>5, <2>6
    DEF SerialInvariant, AtStage, StageDone, ReportsSeen, Trying
  <2> QED
    BY <1>3, <2>7, <2>8, <2>9, OutsideKept DEF SerialInvariant
<1> QED
  BY <1>4, <1>5, <1>6 DEF SeeReports

(* Sending a Worker to sleep takes nothing back from those that sleep.     *)
LEMMA FewerAwake ==
  ASSUME SerialInvariant, UNCHANGED admission,
         crew' \in [asked : SUBSET Staff, awake : SUBSET Staff],
         crew'.asked = crew.asked, crew'.awake \subseteq crew.awake
  PROVE  SpendersAsked' /\ InTurn' /\ OneRoleAtATime'
BY DEF SerialInvariant, SpendersAsked, InTurn, OneRoleAtATime

(* The Worker of a role that ended is put to sleep, or the run fails.      *)
LEMMA SleepWorkerKeeps ==
  ASSUME SerialInvariant, SleepWorker
  PROVE  SerialInvariant'
<1>1. harness.step = "sleep" /\ harness.step \in Trying
  BY DEF SleepWorker, During, Trying
<1>2. /\ result # Success /\ harness.status = "running" /\ harness.left = Staff
      /\ harness \in HarnessRecords /\ IsFiniteSet(harness.seen)
      /\ harness.stage \in Staff
  BY <1>1, TryingFacts DEF HarnessRecords
<1>3. /\ UNCHANGED <<admission, filing, result, starts>>
      /\ crew' = [crew EXCEPT !.awake = @ \ {harness.stage}]
      /\ harness' = [harness EXCEPT !.step = "drain"] \/ Fails
  BY DEF SleepWorker
<1>4. /\ crew' \in [asked : SUBSET Staff, awake : SUBSET Staff]
      /\ crew'.asked = crew.asked /\ crew'.awake = crew.awake \ {harness.stage}
  BY <1>2, <1>3 DEF SerialInvariant, SerialTyped
<1>5. SpendersAsked' /\ InTurn' /\ OneRoleAtATime'
  BY <1>3, <1>4, FewerAwake
<1>6. CASE Fails
  <2>1. /\ harness' \in HarnessRecords /\ IsFiniteSet(harness'.seen)
        /\ AtStage' /\ StageDone' /\ ReportsSeen' /\ SuccessBacked' /\ CleanedUp'
    BY <1>2, <1>3, <1>6, Stops DEF Fails
  <2>2. SerialTyped'
    BY <1>3, <1>4, <2>1 DEF SerialInvariant, SerialTyped
  <2> QED
    BY <1>5, <2>1, <2>2 DEF SerialInvariant
<1>7. CASE harness' = [harness EXCEPT !.step = "drain"]
  <2>1. /\ harness' \in HarnessRecords /\ harness'.step = "drain"
        /\ harness'.stage = harness.stage /\ harness'.seen = harness.seen
        /\ harness'.status = "running" /\ harness'.left = Staff
    BY <1>2, <1>7 DEF HarnessRecords, Steps, Trying
  <2>2. SerialTyped'
    BY <1>2, <1>3, <1>4, <2>1 DEF SerialInvariant, SerialTyped
  <2>3. SuccessBacked' /\ CleanedUp'
    BY <1>2, <1>3, <2>1, GoesOn DEF Trying
  <2>4. AtStage' /\ StageDone' /\ ReportsSeen'
    BY <1>1, <1>3, <1>4, <2>1
    DEF SerialInvariant, AtStage, StageDone, ReportsSeen, Trying
  <2> QED
    BY <1>5, <2>2, <2>3, <2>4 DEF SerialInvariant
<1> QED
  BY <1>3, <1>6, <1>7

(* The stage is left when its Worker sleeps and nothing of it is in        *)
(* flight: the next role starts alone, or the last one has succeeded.      *)
LEMMA DrainKeeps ==
  ASSUME SerialInvariant, Drain
  PROVE  SerialInvariant'
<1> USE SerialAssumption
<1>1. harness.step = "drain" /\ harness.step \in Trying
  BY DEF Drain, During, Trying
<1>2. /\ result # Success /\ harness.status = "running" /\ harness.left = Staff
      /\ harness \in HarnessRecords /\ IsFiniteSet(harness.seen)
      /\ harness.stage \in Staff
      /\ result \in Statuses \cup {"none", "torn"}
  BY <1>1, TryingFacts DEF HarnessRecords, SerialInvariant, SerialTyped
<1>3. UNCHANGED <<admission, crew, filing, starts>>
  BY DEF Drain
<1>4. CASE Fails /\ UNCHANGED result
  BY <1>1, <1>3, <1>4, FailureKeeps DEF Fails
<1>5. CASE /\ RequireOpen(harness.initial) /\ admission.serving = Nobody
           /\ SaveAnd(Onward)
  <2> PICK next : next = Onward
    OBVIOUS
  <2>1. /\ next \in HarnessRecords /\ next.seen = harness.seen /\ next.left = Staff
        /\ next.initial = harness.initial
        /\ \/ /\ harness.stage = LastStage /\ next.step = "closing" /\ next.status = Success
           \/ /\ harness.stage < LastStage /\ next.step = "open"
              /\ next.stage = harness.stage + 1 /\ next.status = "running"
    <3>1. CASE harness.stage = LastStage
      BY <1>2, <3>1 DEF Onward, Stopped, HarnessRecords, Steps, Statuses, Trying
    <3>2. CASE harness.stage # LastStage
      <4>1. harness.stage + 1 \in Staff /\ harness.stage < LastStage
        BY <1>2, <3>2 DEF Staff
      <4> QED
        BY <1>2, <3>2, <4>1 DEF Onward, HarnessRecords, Steps, Trying
    <3> QED
      BY <3>1, <3>2
  <2>2. /\ harness' \in HarnessRecords /\ IsFiniteSet(harness'.seen)
        /\ result' \in Statuses \cup {"none", "torn"} /\ result' # Success
        /\ \/ harness' = next
           \/ AtStage' /\ StageDone' /\ ReportsSeen' /\ SuccessBacked' /\ CleanedUp'
    BY <1>2, <1>5, <2>1, SavedOrStopped
  <2>3. SerialTyped'
    BY <1>3, <2>2 DEF SerialInvariant, SerialTyped
  <2>4. /\ \A w \in crew.asked : w <= harness.stage
        /\ \A v \in Staff : v <= harness.stage =>
             v \notin crew.awake /\ admission.served[v] > 0
        /\ Cardinality(harness.seen) = harness.stage
    BY <1>1, <1>2 DEF SerialInvariant, AtStage, StageDone, ReportsSeen, Trying, Staff
  <2>5. ASSUME harness' = next, harness.stage = LastStage, next.step = "closing",
               next.status = Success
        PROVE  AtStage' /\ StageDone' /\ ReportsSeen' /\ SuccessBacked' /\ CleanedUp'
    <3>1. Succeeded'
      <4>1. crew.awake = {} /\ \A w \in Staff : admission.served[w] > 0
        BY <2>4, <2>5 DEF Staff, SerialInvariant, SerialTyped
      <4> QED
        BY <1>3, <1>5, <2>1, <2>4, <2>5, <4>1 DEF Succeeded, RequireOpen
    <3> QED
      BY <2>1, <2>2, <2>5, <3>1
      DEF AtStage, StageDone, ReportsSeen, SuccessBacked, CleanedUp, Trying
  <2>6. ASSUME harness' = next, next.step = "open",
               next.stage = harness.stage + 1, next.status = "running"
        PROVE  AtStage' /\ StageDone' /\ ReportsSeen' /\ SuccessBacked' /\ CleanedUp'
    <3>1. SuccessBacked' /\ CleanedUp'
      BY <2>1, <2>2, <2>6, GoesOn DEF Trying
    <3>2. StageDone' /\ ReportsSeen'
      BY <1>2, <2>1, <2>4, <2>6 DEF StageDone, ReportsSeen, Staff
    <3>3. AtStage'
      <4>1. \A w \in crew.asked : w <= harness.stage + 1
        BY <1>2, <2>4 DEF Staff, SerialInvariant, SerialTyped
      <4>2. \A v \in Staff : v < harness.stage + 1 =>
              v \notin crew.awake /\ admission.served[v] > 0
        BY <1>2, <2>4 DEF Staff
      <4> QED
        BY <1>3, <1>5, <2>6, <4>1, <4>2 DEF AtStage
    <3> QED
      BY <3>1, <3>2, <3>3
  <2> QED
    BY <1>3, <2>1, <2>2, <2>3, <2>5, <2>6, OutsideKept DEF SerialInvariant
<1> QED
  BY <1>4, <1>5 DEF Drain

(* The cleanup, and the end.                                               *)
LEMMA CleanupKeeps ==
  ASSUME SerialInvariant, CloseGuard \/ SleepEach \/ Conclude \/ Killed
  PROVE  SerialInvariant'
<1> USE SerialAssumption
<1>1. /\ harness \in HarnessRecords /\ IsFiniteSet(harness.seen)
      /\ result \in Statuses \cup {"none", "torn"}
      /\ result = Success => harness.step = "done"
  BY DEF SerialInvariant, SerialTyped, SuccessBacked
<1>2. CASE CloseGuard
  <2>1. PICK reached \in BOOLEAN, answered \in BOOLEAN :
          /\ admission' = [admission EXCEPT !.open = @ /\ ~reached]
          /\ harness' = [harness EXCEPT !.step = "sleeping", !.clean = reached /\ answered]
    BY <1>2 DEF CloseGuard
  <2>2. harness.step = "closing" /\ UNCHANGED <<crew, filing, result, starts>>
    BY <1>2 DEF CloseGuard, During
  <2>3. PICK open \in BOOLEAN, clean \in BOOLEAN :
          /\ admission' = [admission EXCEPT !.open = open]
          /\ harness' = [harness EXCEPT !.step = "sleeping", !.clean = clean]
          /\ clean => ~open
    <3>1. CASE reached
      BY <2>1, <3>1
    <3>2. CASE ~reached
      <4>1. admission.open \in BOOLEAN
        BY DEF SerialInvariant, SerialTyped
      <4>2. /\ admission' = [admission EXCEPT !.open = admission.open]
            /\ harness' = [harness EXCEPT !.step = "sleeping", !.clean = FALSE]
        BY <2>1, <3>2, <4>1, Zenon
      <4> QED
        BY <4>1, <4>2
    <3> QED
      BY <3>1, <3>2
  <2>4. /\ admission' \in [open : BOOLEAN, denials : Nat, serving : Staff \cup {Nobody},
                           served : [Staff -> Nat]]
        /\ admission'.open = open /\ admission'.denials = admission.denials
        /\ admission'.serving = admission.serving /\ admission'.served = admission.served
    BY <2>3 DEF SerialInvariant, SerialTyped
  <2>5. /\ harness' \in HarnessRecords /\ harness'.step = "sleeping"
        /\ harness'.seen = harness.seen /\ harness'.initial = harness.initial
        /\ harness'.left = harness.left /\ harness'.status = harness.status
        /\ harness'.clean = clean
    BY <1>1, <2>3 DEF HarnessRecords, Steps, Trying
  <2>6. SerialTyped'
    BY <1>1, <2>2, <2>4, <2>5 DEF SerialInvariant, SerialTyped
  <2>7. SpendersAsked' /\ InTurn' /\ OneRoleAtATime'
    BY <2>2, <2>4 DEF SerialInvariant, SpendersAsked, InTurn, OneRoleAtATime
  <2>8. AtStage' /\ StageDone' /\ ReportsSeen'
    BY <2>5 DEF AtStage, StageDone, ReportsSeen, Trying
  <2>9. SuccessBacked'
    BY <1>1, <2>2, <2>4, <2>5 DEF SerialInvariant, SuccessBacked, Succeeded, Trying
  <2>10. CleanedUp'
    <3>1. harness'.left = Staff
      BY <2>2, <2>5 DEF SerialInvariant, CleanedUp
    <3> QED
      BY <2>2, <2>3, <2>4, <2>5, <3>1 DEF SerialInvariant, SerialTyped, CleanedUp, Trying
  <2> QED
    BY <2>6, <2>7, <2>8, <2>9, <2>10 DEF SerialInvariant
<1>3. CASE SleepEach
  <2> PICK w : w = CHOOSE v \in harness.left : \A u \in harness.left : v <= u
    BY Zenon
  <2>1. PICK asleep \in BOOLEAN, answered \in BOOLEAN :
          /\ crew' = IF asleep THEN [crew EXCEPT !.awake = @ \ {w}] ELSE crew
          /\ harness' = [harness EXCEPT !.left = @ \ {w},
                                        !.clean = @ /\ asleep /\ answered]
    BY <1>3, ZenonT(60) DEF SleepEach
  <2>2. harness.step = "sleeping" /\ UNCHANGED <<admission, filing, result, starts>>
    BY <1>3 DEF SleepEach, During
  <2>3. PICK clean \in BOOLEAN :
          /\ harness' = [harness EXCEPT !.left = @ \ {w}, !.clean = clean]
          /\ clean => harness.clean /\ asleep
    <3>1. harness.clean \in BOOLEAN
      BY <1>1 DEF HarnessRecords
    <3>2. CASE harness.clean /\ asleep
      BY <2>1, <3>2
    <3>3. CASE ~(harness.clean /\ asleep)
      <4>1. harness' = [harness EXCEPT !.left = @ \ {w}, !.clean = FALSE]
        BY <2>1, <3>3, Zenon
      <4> QED
        BY <4>1
    <3> QED
      BY <3>2, <3>3
  <2>4. /\ harness' \in HarnessRecords /\ harness'.step = "sleeping"
        /\ harness'.seen = harness.seen /\ harness'.initial = harness.initial
        /\ harness'.left = harness.left \ {w} /\ harness'.status = harness.status
        /\ harness'.clean = clean
    BY <1>1, <2>2, <2>3 DEF HarnessRecords
  <2>5. /\ crew' \in [asked : SUBSET Staff, awake : SUBSET Staff]
        /\ crew'.asked = crew.asked /\ crew'.awake \subseteq crew.awake
        /\ asleep => w \notin crew'.awake
    BY <2>1 DEF SerialInvariant, SerialTyped
  <2>6. SerialTyped'
    BY <1>1, <2>2, <2>4, <2>5 DEF SerialInvariant, SerialTyped
  <2>7. SpendersAsked' /\ InTurn' /\ OneRoleAtATime'
    BY <2>2, <2>5, FewerAwake
  <2>8. AtStage' /\ StageDone' /\ ReportsSeen'
    BY <2>4 DEF AtStage, StageDone, ReportsSeen, Trying
  <2>9. SuccessBacked'
    BY <1>1, <2>2, <2>4, <2>5 DEF SerialInvariant, SuccessBacked, Succeeded, Trying
  <2>10. CleanedUp'
    BY <2>2, <2>3, <2>4, <2>5 DEF SerialInvariant, CleanedUp, Trying
  <2> QED
    BY <2>6, <2>7, <2>8, <2>9, <2>10 DEF SerialInvariant
<1>4. CASE Conclude
  <2> PICK final : final = FinalStatus(harness)
    OBVIOUS
  <2>1. /\ final \in Statuses
        /\ \/ final = "incomplete_cleanup_failed"
           \/ harness.clean /\ final = harness.status
    BY <1>1 DEF FinalStatus, HarnessRecords, Statuses
  <2>2. /\ harness.step = "sleeping" /\ harness.left = {}
        /\ UNCHANGED <<admission, crew, filing, starts>>
    BY <1>4 DEF Conclude, During
  <2>3. harness.clean => ~admission.open /\ crew.awake = {}
    BY <2>2 DEF SerialInvariant, CleanedUp
  <2>4. final = Success => harness.clean /\ harness.status = Success
    BY <2>1 DEF Success
  <2>5. PICK status \in {final, "incomplete_persistence_failed"} :
          /\ harness' = [harness EXCEPT !.step = "done", !.status = status]
          /\ result' \in {result, "torn", final}
    <3>1. [[harness EXCEPT !.step = "done", !.status = final] EXCEPT
             !.status = "incomplete_persistence_failed"]
          = [harness EXCEPT !.step = "done", !.status = "incomplete_persistence_failed"]
      BY <1>1 DEF HarnessRecords
    <3>2. [harness EXCEPT !.step = "done", !.status = final].status = final
      BY <1>1 DEF HarnessRecords
    <3> QED
      BY <1>4, <3>1, <3>2 DEF Conclude
  <2>6. /\ harness' \in HarnessRecords /\ harness'.step = "done"
        /\ harness'.seen = harness.seen /\ harness'.initial = harness.initial
        /\ harness'.status = status
    BY <1>1, <2>1, <2>5 DEF HarnessRecords, Steps, Statuses
  <2>7. result' \in Statuses \cup {"none", "torn"}
    BY <1>1, <2>1, <2>5
  <2>8. SerialTyped'
    BY <1>1, <2>2, <2>6, <2>7 DEF SerialInvariant, SerialTyped
  <2>9. AtStage' /\ StageDone' /\ ReportsSeen'
    BY <2>6 DEF AtStage, StageDone, ReportsSeen, Trying
  <2>10. harness.status = Success => Succeeded'
    BY <2>2, <2>6 DEF SerialInvariant, SuccessBacked, Succeeded
  <2>11. /\ harness'.status = Success => final = Success
         /\ result' = Success => final = Success
    BY <1>1, <2>2, <2>5, <2>6 DEF Success
  <2>12. SuccessBacked'
    BY <2>2, <2>3, <2>4, <2>6, <2>10, <2>11 DEF SuccessBacked, Trying
  <2>13. CleanedUp'
    BY <2>1, <2>2, <2>3, <2>5, <2>6 DEF CleanedUp, Trying
  <2> QED
    BY <2>2, <2>8, <2>9, <2>12, <2>13, OutsideKept DEF SerialInvariant
<1>5. CASE Killed
  <2>1. /\ harness' \in HarnessRecords /\ harness'.step = "dead"
        /\ harness'.seen = harness.seen
    BY <1>1, <1>5 DEF Killed, HarnessRecords, Steps
  <2>2. UNCHANGED <<admission, crew, filing, result, starts>> /\ harness.step # "done"
    BY <1>5 DEF Killed, Trying
  <2>3. SerialTyped'
    BY <1>1, <2>1, <2>2 DEF SerialInvariant, SerialTyped
  <2>4. AtStage' /\ StageDone' /\ ReportsSeen' /\ SuccessBacked' /\ CleanedUp'
    BY <1>1, <2>1, <2>2 DEF AtStage, StageDone, ReportsSeen, SuccessBacked, CleanedUp, Trying
  <2> QED
    BY <2>2, <2>3, <2>4, OutsideKept DEF SerialInvariant
<1> QED
  BY <1>2, <1>3, <1>4, <1>5

-----------------------------------------------------------------------------
(* The invariant holds in every reachable state, whatever fails or is      *)
(* killed, and however often the harness starts.                           *)
THEOREM SerialInvariantHolds ==
  SerialSpec => []SerialInvariant
<1>1. SerialInvariant /\ [SerialStep]_serialVars => SerialInvariant'
  <2> SUFFICES ASSUME SerialInvariant, [SerialStep]_serialVars
               PROVE  SerialInvariant'
    OBVIOUS
  <2>1. CASE UNCHANGED serialVars
    BY <2>1
    DEF serialVars, SerialInvariant, SerialTyped, SpendersAsked, InTurn, AtStage, StageDone,
        ReportsSeen, OneRoleAtATime, SuccessBacked, Succeeded, CleanedUp
  <2> QED
    BY <2>1, WorldKeeps, BeginningKeeps, LooksKeep, SendTaskKeeps, SeeReportsKeeps,
       SleepWorkerKeeps, DrainKeeps, CleanupKeeps DEF SerialStep
<1> QED
  BY <1>1, SerialStarts, PTL DEF SerialSpec

(* Every role spends the budget alone; a harness that has ended without    *)
(* saying that its cleanup or its record failed has closed the guard and   *)
(* put every Worker to sleep; and one that reports success, in its own     *)
(* status or on disk, has a spent request and a report of every role, no   *)
(* refusal and nothing in flight (run-guarded-serial.py, run and finally). *)
THEOREM SerialHarnessSafe ==
  SerialSpec => []HarnessEndsSafely
<1>1. SerialInvariant => HarnessEndsSafely
  BY DEF SerialInvariant, HarnessEndsSafely, EndsClosed, SuccessBacked, Succeeded, CleanedUp,
         During, Success
<1> QED
  BY <1>1, SerialInvariantHolds, PTL

-----------------------------------------------------------------------------
(* The onboarding service.                                                 *)

Late == {"undo swap", "undo start", "undo await"}

(* What was made rests on what is made before it.                          *)
InOrder ==
  /\ Prepared => files.plan # NoConfig
  /\ files.env # NoConfig => Prepared
  /\ guard.up => guard.exists
  /\ guard.exists => Prepared /\ guard.cfg \in Configs
  /\ files.marker \/ platform.team => platform.routes = Roles
  /\ files.runtimeReady => platform.installed /\ files.override

(* An actor has what its next step needs.                                  *)
InHand(a) ==
  /\ at[a] \in {"apply", "store", "config"} \cup Applying => args[a].model \in Models
  /\ at[a] \in Applying \cup Undoing =>
       Prepared /\ args[a].old \in Configs /\ args[a].new \in Configs
  /\ a = Handler /\ at[a] \in Renewing => Prepared /\ args[a].new \in Configs
  /\ a \in Provisioners =>
       /\ at[a] # "off" => StoredModel # NoModel
       /\ at[a] \in {"wait guard", "check", "platform"} => args[a].model \in Models
       /\ at[a] \in {"marker", "create"} => platform.routes = Roles
       /\ at[a] = "configure" => platform.installed

InstallationInvariant ==
  OnboardingTypeOK /\ InOrder /\ \A a \in Actors : InHand(a)

ArgRows == [model : Models \cup {NoModel}, old : Configs \cup {NoConfig},
            new : Configs \cup {NoConfig}]

(* What a step leaves to the others.                                       *)
Kept ==
  /\ StoredModel # NoModel => StoredModel' # NoModel
  /\ Prepared => Prepared'
  /\ platform.routes = Roles => platform'.routes = Roles
  /\ platform.installed => platform'.installed
InstallationKept == InstallTypeOK' /\ InOrder' /\ Kept

(* A configuration is not the absence of one.                              *)
LEMMA RealConfigs ==
  /\ NoConfig \notin Configs /\ NoConfig.run = 0 /\ NoConfig.model = NoModel
  /\ \A c \in Configs : c.run \in Runs /\ c.model \in Models /\ c # NoConfig
  /\ \A r \in Runs, m \in Models : [run |-> r, model |-> m] \in Configs
BY InstallationAssumption DEF Configs, NoConfig, Runs

(* What the steps change of the installation: nothing...                   *)
LEMMA StillInstalled ==
  ASSUME InstallTypeOK, InOrder, UNCHANGED installVars
  PROVE  InstallationKept
BY DEF InstallationKept, Kept, InstallTypeOK, InOrder, installVars, StoredModel, Prepared

(* ... the run numbers...                                                  *)
LEMMA RunTaken ==
  ASSUME InstallTypeOK, InOrder, lastRun < MaxRun, lastRun' = lastRun + 1,
         UNCHANGED <<files, guard, ledger, platform>>
  PROVE  InstallationKept /\ lastRun' \in Runs
BY InstallationAssumption
DEF InstallationKept, Kept, InstallTypeOK, InOrder, StoredModel, Prepared, Runs

(* ... one of the files...                                                 *)
LEMMA FileWritten ==
  ASSUME InstallTypeOK, InOrder, Prepared, NEW c \in Configs,
         \/ files' = [files EXCEPT !.guard = c]
         \/ files' = [files EXCEPT !.env = c],
         UNCHANGED <<guard, ledger, platform, lastRun>>
  PROVE  InstallationKept
<1>1. files' \in Files
  BY DEF InstallTypeOK, Files
<1>2. /\ files'.plan = files.plan /\ files'.marker = files.marker
      /\ files'.runtimeReady = files.runtimeReady /\ files'.override = files.override
      /\ files'.stored = files.stored
      /\ files'.guard = c \/ files'.guard = files.guard
  BY DEF InstallTypeOK, Files
<1>3. c # NoConfig /\ c.model # NoModel /\ Prepared'
  BY <1>2, RealConfigs, InstallationAssumption DEF Prepared
<1>4. StoredModel # NoModel => StoredModel' # NoModel
  BY <1>2, <1>3 DEF StoredModel
<1> QED
  BY <1>1, <1>2, <1>3, <1>4 DEF InstallationKept, Kept, InstallTypeOK, InOrder

(* ... the saved model...                                                  *)
LEMMA ModelStored ==
  ASSUME InstallTypeOK, InOrder, NEW m \in Models, files' = [files EXCEPT !.stored = m],
         UNCHANGED <<guard, ledger, platform, lastRun>>
  PROVE  InstallationKept
<1>1. files' \in Files
  BY DEF InstallTypeOK, Files
<1>2. /\ files'.plan = files.plan /\ files'.marker = files.marker
      /\ files'.runtimeReady = files.runtimeReady /\ files'.override = files.override
      /\ files'.stored = m /\ files'.guard = files.guard /\ files'.env = files.env
  BY DEF InstallTypeOK, Files
<1>3. StoredModel' # NoModel
  BY <1>2, InstallationAssumption DEF StoredModel
<1> QED
  BY <1>1, <1>2, <1>3 DEF InstallationKept, Kept, InstallTypeOK, InOrder, Prepared

(* ... the guard...                                                        *)
LEMMA GuardStopped ==
  ASSUME InstallTypeOK, InOrder, NEW removed \in BOOLEAN, StopGuard(removed),
         UNCHANGED <<files, ledger, platform, lastRun>>
  PROVE  InstallationKept
<1>1. guard' \in Containers /\ (guard'.exists => guard.exists /\ guard'.cfg = guard.cfg)
      /\ ~guard'.up
  BY DEF InstallTypeOK, Containers, StopGuard, NoContainer
<1> QED
  BY <1>1 DEF InstallationKept, Kept, InstallTypeOK, InOrder, StoredModel, Prepared

(* A guard that starts is up, disarmed, and its run is in the ledger.      *)
LEMMA GuardStarted ==
  ASSUME InstallTypeOK, NEW c \in Configs, Started(c)
  PROVE  /\ guard' \in Containers /\ ledger' \in [Runs -> {"none", "open", "closed"}]
         /\ guard'.exists /\ guard'.up /\ ~guard'.armed /\ guard'.cfg = c
         /\ \A r \in Runs : r # c.run => ledger'[r] = ledger[r]
         /\ ledger'[c.run] = IF ledger[c.run] = "none" THEN "open" ELSE ledger[c.run]
<1>1. c.run \in Runs
  BY RealConfigs
<1> QED
  BY <1>1 DEF InstallTypeOK, Containers, Started

(* So starting the guard, new or stopped, keeps the order...               *)
LEMMA GuardRuns ==
  ASSUME InstallTypeOK, InOrder, RunGuard \/ StartGuard,
         UNCHANGED <<files, platform, lastRun>>
  PROVE  InstallationKept
<1>1. PICK c \in Configs : Started(c) /\ Prepared
  BY DEF RunGuard, StartGuard, InOrder, InstallTypeOK, Files
<1> QED
  BY <1>1, GuardStarted DEF InstallationKept, Kept, InstallTypeOK, InOrder, StoredModel, Prepared

(* ... and so does arming it, or a run that closes.                        *)
LEMMA GuardTold ==
  ASSUME InstallTypeOK, InOrder,
         \/ ArmGuard /\ UNCHANGED ledger
         \/ GuardRestarts
         \/ RunCloses,
         UNCHANGED <<files, platform, lastRun>>
  PROVE  InstallationKept
<1>1. /\ guard' \in Containers /\ guard'.exists = guard.exists /\ guard'.up = guard.up
      /\ guard'.cfg = guard.cfg
  BY DEF InstallTypeOK, Containers, ArmGuard, GuardRestarts, RunCloses
<1>2. ledger' \in [Runs -> {"none", "open", "closed"}]
  BY DEF InstallTypeOK, ArmGuard, GuardRestarts, RunCloses
<1> QED
  BY <1>1, <1>2 DEF InstallationKept, Kept, InstallTypeOK, InOrder, StoredModel, Prepared

(* ... what the scripts make, whole or in part...                          *)
LEMMA TeamPrepared ==
  ASSUME InstallTypeOK, InOrder, NEW m \in Models, NEW done \in 0..4, PrepareTeam(m, done)
  PROVE  InstallationKept
<1> PICK c : c = [run |-> lastRun + 1, model |-> m]
  OBVIOUS
<1>1. lastRun + 1 \in Runs /\ lastRun' = lastRun + 1 /\ lastRun' \in 0..MaxRun
  BY InstallationAssumption DEF InstallTypeOK, Runs, PrepareTeam
<1>2. c \in Configs /\ c # NoConfig /\ c.model # NoModel
  BY <1>1, RealConfigs, InstallationAssumption
<1>3. /\ files' = [files EXCEPT !.planned = TRUE,
                                !.plan  = IF done >= 1 THEN c ELSE @,
                                !.guard = IF done >= 2 THEN c ELSE @,
                                !.env   = IF done >= 3 THEN c ELSE @]
      /\ IF done = 4 THEN ~guard.exists /\ Started(c) ELSE UNCHANGED <<guard, ledger>>
      /\ UNCHANGED platform /\ ~Prepared
  BY DEF PrepareTeam
<1>4. /\ files' \in Files /\ files'.stored = files.stored /\ files'.marker = files.marker
      /\ files'.runtimeReady = files.runtimeReady /\ files'.override = files.override
      /\ files'.plan = IF done >= 1 THEN c ELSE files.plan
      /\ files'.guard = IF done >= 2 THEN c ELSE files.guard
      /\ files'.env = IF done >= 3 THEN c ELSE files.env
  BY <1>2, <1>3 DEF InstallTypeOK, Files
<1>5. /\ guard' \in Containers /\ ledger' \in [Runs -> {"none", "open", "closed"}]
      /\ (guard'.up => guard'.exists)
      /\ guard'.exists => done = 4 /\ guard'.cfg = c
  <2>1. CASE done = 4
    BY <1>2, <1>3, <2>1, GuardStarted
  <2>2. CASE done # 4
    BY <1>3, <2>2 DEF InstallTypeOK, InOrder
  <2> QED
    BY <2>1, <2>2
<1>6. /\ Prepared' <=> done >= 2
      /\ files.env = NoConfig /\ files.guard = NoConfig
      /\ StoredModel # NoModel => StoredModel' # NoModel
  BY <1>2, <1>3, <1>4, RealConfigs DEF InOrder, Prepared, StoredModel
<1>7. InOrder'
  BY <1>2, <1>3, <1>4, <1>5, <1>6 DEF InOrder
<1>8. Kept
  BY <1>3, <1>6 DEF Kept
<1> QED
  BY <1>1, <1>3, <1>4, <1>5, <1>7, <1>8 DEF InstallationKept, InstallTypeOK

(* ... the routes, of which the marker speaks only when all are there...   *)
LEMMA RoutesRegistered ==
  ASSUME InstallTypeOK, InOrder, NEW done \in SUBSET Roles, RegisterRoutes(done),
         UNCHANGED files
  PROVE  InstallationKept /\ platform'.routes = done
<1>1. platform' \in Platforms /\ platform'.routes = done /\ platform.routes = {}
      /\ platform'.team = platform.team /\ platform'.installed = platform.installed
  BY DEF InstallTypeOK, Platforms, RegisterRoutes
<1>2. UNCHANGED <<files, guard, ledger, lastRun>> /\ Roles # {}
  BY InstallationAssumption DEF RegisterRoutes
<1> QED
  BY <1>1, <1>2 DEF InstallationKept, Kept, InstallTypeOK, InOrder, StoredModel, Prepared

(* ... the Workers and the team, which come after the routes...            *)
LEMMA TeamCreated ==
  ASSUME InstallTypeOK, InOrder, NEW done \in SUBSET Roles, NEW team \in BOOLEAN,
         NEW audit \in BOOLEAN, CreateTeam(done, team, audit), platform.routes = Roles
  PROVE  InstallationKept
<1>1. platform' \in Platforms /\ platform'.routes = platform.routes
      /\ platform'.installed = platform.installed
  BY DEF InstallTypeOK, Platforms, CreateTeam
<1>2. /\ files' \in Files /\ files'.guard = files.guard /\ files'.env = files.env
      /\ files'.plan = files.plan /\ files'.stored = files.stored
      /\ files'.runtimeReady = files.runtimeReady /\ files'.override = files.override
  BY DEF InstallTypeOK, Files, CreateTeam
<1>3. UNCHANGED <<guard, ledger, lastRun>>
  BY DEF CreateTeam
<1> QED
  BY <1>1, <1>2, <1>3 DEF InstallationKept, Kept, InstallTypeOK, InOrder, StoredModel, Prepared

(* ... the marker, the override and the mark of a ready runtime...         *)
LEMMA FlagsSet ==
  ASSUME InstallTypeOK, InOrder,
         \/ files' = [files EXCEPT !.marker = TRUE] /\ platform.routes = Roles
         \/ /\ platform.installed
            /\ \E ready \in BOOLEAN : ConfigureTeam(ready),
         UNCHANGED <<guard, ledger, platform, lastRun>>
  PROVE  InstallationKept
<1>1. /\ files' \in Files /\ files'.guard = files.guard /\ files'.env = files.env
      /\ files'.plan = files.plan /\ files'.stored = files.stored
      /\ files'.marker => files.marker \/ platform.routes = Roles
      /\ \/ files'.runtimeReady = files.runtimeReady /\ files'.override = files.override
         \/ platform.installed /\ files'.override
  BY DEF InstallTypeOK, Files, ConfigureTeam
<1> QED
  BY <1>1 DEF InstallationKept, Kept, InstallTypeOK, InOrder, StoredModel, Prepared

(* ... and the controller, the tools and the Console.                      *)
LEMMA PlatformTold ==
  ASSUME InstallTypeOK, InOrder, UNCHANGED <<files, ledger, lastRun>>,
         \/ InstallCollaboration
         \/ ConnectConsole
         \/ platform' = [platform EXCEPT !.controller = "running"] /\ UNCHANGED guard
         \/ HostStops
  PROVE  InstallationKept /\ (InstallCollaboration => platform'.installed)
<1>1. /\ platform' \in Platforms /\ platform'.routes = platform.routes
      /\ platform'.team = platform.team
      /\ platform.installed => platform'.installed
      /\ InstallCollaboration => platform'.installed
  BY DEF InstallTypeOK, Platforms, InstallCollaboration, ConnectConsole, HostStops
<1>2. /\ guard' \in Containers /\ guard'.exists = guard.exists /\ guard'.cfg = guard.cfg
      /\ guard'.up => guard.up
  BY DEF InstallTypeOK, Containers, InstallCollaboration, ConnectConsole, HostStops
<1> QED
  BY <1>1, <1>2 DEF InstallationKept, Kept, InstallTypeOK, InOrder, StoredModel, Prepared

-----------------------------------------------------------------------------
(* The actors.                                                             *)

(* One actor moves to a stage.                                             *)
LEMMA Moves ==
  ASSUME at \in [Actors -> Stages], NEW a \in Actors, NEW stage \in Stages, Goto(a, stage)
  PROVE  /\ at' \in [Actors -> Stages] /\ at'[a] = stage
         /\ \A b \in Actors : b # a => at'[b] = at[b]
BY DEF Goto

(* ... or ends.                                                            *)
LEMMA Ends ==
  ASSUME at \in [Actors -> Stages], args \in [Actors -> ArgRows], NEW a \in Actors, Finish(a)
  PROVE  /\ at' \in [Actors -> Stages] /\ at'[a] = "off"
         /\ args' \in [Actors -> ArgRows] /\ args'[a] = NoArgs
         /\ \A b \in Actors : b # a => at'[b] = at[b] /\ args'[b] = args[b]
<1>1. "off" \in Stages /\ NoArgs \in ArgRows
  BY DEF Stages, NoArgs, ArgRows
<1> QED
  BY <1>1 DEF Finish, Goto

(* The actor that moved is as it should be: then all are.                  *)
LEMMA OneActs ==
  ASSUME InstallationInvariant, NEW a \in Actors, InstallationKept, InHand(a)',
         at' \in [Actors -> Stages], args' \in [Actors -> ArgRows],
         \A b \in Actors : b # a => at'[b] = at[b] /\ args'[b] = args[b],
         phase' \in {"idle", "initializing", "failed", "ready"}, unsure' \in BOOLEAN
  PROVE  InstallationInvariant'
<1>1. OnboardingTypeOK'
  BY DEF OnboardingTypeOK, InstallationKept, ArgRows
<1>2. ASSUME NEW b \in Actors, b # a
      PROVE  InHand(b)'
  <2>1. InHand(b) /\ Kept /\ at'[b] = at[b] /\ args'[b] = args[b]
    BY <1>2 DEF InstallationInvariant, InstallationKept
  <2> QED
    BY <2>1 DEF InHand, Kept
<1> QED
  BY <1>1, <1>2 DEF InstallationInvariant, InstallationKept

(* An actor that ends needs nothing.                                       *)
LEMMA OneEnds ==
  ASSUME InstallationInvariant, NEW a \in Actors, InstallationKept, Finish(a),
         phase' \in {"idle", "initializing", "failed", "ready"}, unsure' \in BOOLEAN
  PROVE  InstallationInvariant'
<1>1. /\ at' \in [Actors -> Stages] /\ at'[a] = "off" /\ args' \in [Actors -> ArgRows]
      /\ \A b \in Actors : b # a => at'[b] = at[b] /\ args'[b] = args[b]
  BY Ends DEF InstallationInvariant, OnboardingTypeOK, ArgRows
<1>2. InHand(a)'
  BY <1>1 DEF InHand, Applying, Undoing, Renewing
<1> QED
  BY <1>1, <1>2, OneActs

(* One that moves with the arguments it has.                               *)
LEMMA OneMoves ==
  ASSUME InstallationInvariant, NEW a \in Actors, InstallationKept, NEW stage \in Stages,
         Goto(a, stage), args' = args,
         phase' \in {"idle", "initializing", "failed", "ready"}, unsure' \in BOOLEAN,
         at'[a] = stage => InHand(a)'
  PROVE  InstallationInvariant'
<1>1. /\ at' \in [Actors -> Stages] /\ at'[a] = stage /\ args \in [Actors -> ArgRows]
      /\ \A b \in Actors : b # a => at'[b] = at[b]
  BY Moves DEF InstallationInvariant, OnboardingTypeOK, ArgRows
<1> QED
  BY <1>1, OneActs

(* What the invariant says of one actor and of the installation.           *)
LEMMA InstallationFacts ==
  ASSUME InstallationInvariant
  PROVE  /\ InstallTypeOK /\ InOrder
         /\ phase \in {"idle", "initializing", "failed", "ready"} /\ unsure \in BOOLEAN
         /\ at \in [Actors -> Stages] /\ args \in [Actors -> ArgRows]
         /\ \A a \in Actors : InHand(a)
         /\ Handler \in Actors /\ Provisioners \subseteq Actors /\ Handler \notin Provisioners
BY ServiceAssumption DEF InstallationInvariant, OnboardingTypeOK, ArgRows, Actors

(* A request comes.                                                        *)
LEMMA AskKeepsInstalled ==
  ASSUME InstallationInvariant, NEW stage, NEW model, Ask(stage, model),
         \/ stage \in {"store", "apply"} /\ model \in Models
         \/ stage = "open" /\ model = NoModel
  PROVE  InstallationInvariant'
<1> PICK x : x = [NoArgs EXCEPT !.model = model]
  OBVIOUS
<1>1. x \in ArgRows /\ x.model = model
  BY DEF ArgRows, NoArgs
<1>2. args' = [args EXCEPT ![Handler] = x] /\ Goto(Handler, stage) /\ stage \in Stages
  BY DEF Ask, Stages
<1>3. /\ args' \in [Actors -> ArgRows] /\ args'[Handler] = x
      /\ \A b \in Actors : b # Handler => args'[b] = args[b]
  BY <1>1, <1>2, InstallationFacts
<1>4. /\ at' \in [Actors -> Stages] /\ at'[Handler] = stage
      /\ \A b \in Actors : b # Handler => at'[b] = at[b]
  BY <1>2, InstallationFacts, Moves
<1>5. InHand(Handler)'
  BY <1>1, <1>3, <1>4, InstallationFacts DEF InHand, Applying, Undoing, Renewing
<1>6. InstallationKept
  BY InstallationFacts, StillInstalled DEF Ask
<1> QED
  BY <1>3, <1>4, <1>5, <1>6, InstallationFacts, OneActs DEF Ask

(* The model is saved.                                                     *)
LEMMA StoreKeepsInstalled ==
  ASSUME InstallationInvariant, Store
  PROVE  InstallationInvariant'
<1>1. args[Handler].model \in Models
  BY InstallationFacts DEF Store, InHand
<1>2. InstallationKept
  BY <1>1, InstallationFacts, ModelStored DEF Store
<1>3. phase' \in {"idle", "initializing", "failed", "ready"} /\ unsure' \in BOOLEAN
  BY InstallationFacts DEF Store
<1> QED
  BY <1>2, <1>3, InstallationFacts, OneEnds DEF Store

(* A provisioning thread starts where a model is saved.                    *)
LEMMA InitializeKeepsInstalled ==
  ASSUME InstallationInvariant, NEW p \in Provisioners, Initialize(p)
  PROVE  InstallationInvariant'
<1>1. "begin" \in Stages /\ p \in Actors
  BY InstallationFacts DEF Stages
<1>2. InstallationKept /\ StoredModel' # NoModel
  BY InstallationFacts, StillInstalled DEF Initialize, InstallationKept, Kept
<1>3. at'[p] = "begin" => InHand(p)'
  BY <1>2, InstallationFacts DEF InHand, Applying, Undoing, Renewing
<1> QED
  BY <1>1, <1>2, <1>3, InstallationFacts, OneMoves DEF Initialize

(* A model is applied, or there is nothing to apply.                       *)
LEMMA BeginApplyKeepsInstalled ==
  ASSUME InstallationInvariant, NEW a \in Actors, BeginApply(a)
  PROVE  InstallationInvariant'
<1> PICK m : m = args[a].model
  OBVIOUS
<1>1. PICK fresh : fresh = [run |-> lastRun + 1, model |-> m]
  OBVIOUS
<1>2. m \in Models /\ (a \in Provisioners => StoredModel # NoModel) /\ args[a] \in ArgRows
  BY InstallationFacts DEF BeginApply, InHand
<1>3. phase' = phase /\ unsure' \in BOOLEAN /\ UNCHANGED <<files, guard, ledger, platform>>
  BY InstallationFacts DEF BeginApply
<1>4. files.guard \in Configs \cup {NoConfig} /\ (Prepared => files.guard \in Configs)
  BY InstallationFacts DEF InstallTypeOK, Files, Prepared
<1>5. CASE /\ Goto(a, AfterApply(a)) /\ args' = [args EXCEPT ![a].new = files.guard]
           /\ UNCHANGED lastRun
  <2> PICK x : x = [args[a] EXCEPT !.new = files.guard]
    OBVIOUS
  <2>1. x \in ArgRows /\ x.model = m
    BY <1>2, <1>4 DEF ArgRows
  <2>2. args' = [args EXCEPT ![a] = x]
    BY <1>5
  <2>3. /\ args' \in [Actors -> ArgRows] /\ args'[a] = x
        /\ \A b \in Actors : b # a => args'[b] = args[b]
    BY <2>1, <2>2, InstallationFacts
  <2>4. AfterApply(a) \in {"store", "team"} /\ AfterApply(a) \in Stages
    BY DEF AfterApply, Stages
  <2>5. /\ at' \in [Actors -> Stages] /\ at'[a] \in {"store", "team"}
        /\ \A b \in Actors : b # a => at'[b] = at[b]
    BY <1>5, <2>4, InstallationFacts, Moves
  <2>6. InstallationKept
    BY <1>3, <1>5, InstallationFacts, StillInstalled DEF installVars
  <2>7. InHand(a)'
    BY <1>2, <2>1, <2>3, <2>5, <2>6
    DEF InHand, Applying, Undoing, Renewing, InstallationKept, Kept
  <2> QED
    BY <1>3, <2>3, <2>5, <2>6, <2>7, InstallationFacts, OneActs
<1>6. CASE /\ Prepared /\ lastRun < MaxRun /\ lastRun' = lastRun + 1 /\ Goto(a, "file")
           /\ args' = [args EXCEPT ![a].old = files.guard, ![a].new = fresh]
  <2>1. PICK x : x = [args[a] EXCEPT !.old = files.guard, !.new = fresh]
    OBVIOUS
  <2>2. InstallationKept /\ lastRun' \in Runs
    BY <1>3, <1>6, InstallationFacts, RunTaken
  <2>3. fresh \in Configs
    BY <1>1, <1>2, <1>6, <2>2, RealConfigs
  <2>4. x \in ArgRows /\ x.model = m /\ x.old = files.guard /\ x.new = fresh
    BY <1>2, <1>4, <2>1, <2>3 DEF ArgRows
  <2>5. args' = [args EXCEPT ![a] = x]
    <3>1. args \in [Actors -> ArgRows]
      BY InstallationFacts
    <3> QED
      BY <1>6, <2>1, <3>1, Zenon
  <2>6. /\ args' \in [Actors -> ArgRows] /\ args'[a] = x
        /\ \A b \in Actors : b # a => args'[b] = args[b]
    BY <2>4, <2>5, InstallationFacts
  <2>7. /\ at' \in [Actors -> Stages] /\ at'[a] = "file"
        /\ \A b \in Actors : b # a => at'[b] = at[b]
    BY <1>6, InstallationFacts, Moves DEF Stages, Applying
  <2>8. InHand(a)'
    BY <1>2, <1>4, <1>6, <2>2, <2>3, <2>4, <2>6, <2>7
    DEF InHand, Applying, Undoing, Renewing, InstallationKept, Kept
  <2> QED
    BY <1>3, <2>2, <2>6, <2>7, <2>8, InstallationFacts, OneActs
<1> QED
  BY <1>1, <1>5, <1>6 DEF BeginApply

(* An actor that writes one of the guard's files has the configuration.    *)
LEMMA WritesKeepInstalled ==
  ASSUME InstallationInvariant, NEW a \in Actors, NEW from, NEW to \in Stages, NEW c \in Configs,
         WriteFile(a, from, to, c) \/ WriteEnv(a, from, to, c),
         Prepared,
         to \in {"env", "swap"} => from \in Applying,
         to \in {"undo env", "undo swap"} => from \in Undoing,
         to \in {"new env", "new swap"} => from \in Renewing /\ a = Handler,
         to \in {"env", "swap", "undo env", "undo swap", "new env", "new swap"}
  PROVE  InstallationInvariant'
<1>1. InstallationKept
  BY InstallationFacts, FileWritten DEF WriteFile, WriteEnv
<1>2. at'[a] = to => InHand(a)'
  BY <1>1, InstallationFacts
  DEF WriteFile, WriteEnv, Keep, InHand, Applying, Undoing, Renewing, InstallationKept, Kept
<1> QED
  BY <1>1, <1>2, InstallationFacts, OneMoves DEF WriteFile, WriteEnv, Keep

(* One that stops or starts the guard goes on with what it has.            *)
LEMMA SwapsKeepInstalled ==
  ASSUME InstallationInvariant, NEW a \in Actors, NEW from, NEW to \in Stages,
         \/ Swap(a, from, to) \/ StartNew(a, from, to),
         \/ from \in Applying /\ to \in {"start", "await"}
         \/ from \in Undoing /\ to = "undo await"
         \/ a = Handler /\ from \in Renewing /\ to \in {"new start", "arm"}
  PROVE  InstallationInvariant'
<1>1. InstallationKept
  BY InstallationFacts, GuardStopped, GuardRuns DEF Swap, StartNew
<1>2. at'[a] = to => InHand(a)'
  BY <1>1, InstallationFacts
  DEF Swap, StartNew, Keep, InHand, Applying, Undoing, Renewing, InstallationKept, Kept
<1> QED
  BY <1>1, <1>2, InstallationFacts, OneMoves DEF Swap, StartNew, Keep

(* apply_model goes its way, or begins its rollback.                       *)
LEMMA ApplyKeepsInstalled ==
  ASSUME InstallationInvariant, NEW a \in Actors, Apply(a)
  PROVE  InstallationInvariant'
<1>1. at[a] \in Applying => Prepared /\ args[a].new \in Configs
  BY InstallationFacts DEF InHand
<1>2. CASE WriteFile(a, "file", "env", args[a].new)
  <2>1. "file" \in Applying /\ "env" \in Stages
    BY DEF Stages, Applying
  <2>2. at[a] = "file"
    BY <1>2 DEF WriteFile
  <2>3. Prepared /\ args[a].new \in Configs
    BY <1>1, <2>1, <2>2
  <2> PICK c : c = args[a].new
    OBVIOUS
  <2>4. c \in Configs /\ WriteFile(a, "file", "env", c)
    BY <1>2, <2>3
  <2> QED
    BY <2>1, <2>3, <2>4, WritesKeepInstalled
<1>3. CASE WriteEnv(a, "env", "swap", args[a].new)
  <2>1. "env" \in Applying /\ "swap" \in Stages
    BY DEF Stages, Applying
  <2>2. at[a] = "env"
    BY <1>3 DEF WriteEnv
  <2>3. Prepared /\ args[a].new \in Configs
    BY <1>1, <2>1, <2>2
  <2> PICK c : c = args[a].new
    OBVIOUS
  <2>4. c \in Configs /\ WriteEnv(a, "env", "swap", c)
    BY <1>3, <2>3
  <2> QED
    BY <2>1, <2>3, <2>4, WritesKeepInstalled
<1>4. CASE Swap(a, "swap", "start")
  BY <1>4, SwapsKeepInstalled DEF Stages, Applying
<1>5. CASE StartNew(a, "start", "await")
  BY <1>5, SwapsKeepInstalled DEF Stages, Applying
<1> QED
  BY <1>2, <1>3, <1>4, <1>5 DEF Apply

(* The new guard answers.                                                  *)
LEMMA AppliedKeepsInstalled ==
  ASSUME InstallationInvariant, NEW a \in Actors, Applied(a)
  PROVE  InstallationInvariant'
<1>1. InstallationKept
  BY InstallationFacts, StillInstalled DEF Applied
<1>2. AfterApply(a) \in Stages /\ AfterApply(a) \in {"store", "team"}
  BY DEF AfterApply, Stages
<1>3. at'[a] = AfterApply(a) => InHand(a)'
  BY <1>1, <1>2, InstallationFacts
  DEF Applied, InHand, Applying, Undoing, Renewing, InstallationKept, Kept
<1> QED
  BY <1>1, <1>2, <1>3, InstallationFacts, OneMoves DEF Applied

(* A command of apply_model fails.                                         *)
LEMMA ApplyFailsKeepsInstalled ==
  ASSUME InstallationInvariant, NEW a \in Actors, ApplyFails(a)
  PROVE  InstallationInvariant'
<1>1. InstallationKept
  <2>1. CASE UNCHANGED <<guard, ledger>>
    BY <2>1, InstallationFacts, StillInstalled DEF ApplyFails, installVars
  <2>2. CASE StopGuard(FALSE) /\ UNCHANGED ledger
    BY <2>2, InstallationFacts, GuardStopped DEF ApplyFails
  <2>3. CASE RunGuard
    BY <2>3, InstallationFacts, GuardRuns DEF ApplyFails
  <2> QED
    BY <2>1, <2>2, <2>3 DEF ApplyFails
<1>2. "undo file" \in Stages
  BY DEF Stages, Undoing
<1>3. at'[a] = "undo file" => InHand(a)'
  BY <1>1, InstallationFacts
  DEF ApplyFails, Keep, InHand, Applying, Undoing, Renewing, InstallationKept, Kept
<1> QED
  BY <1>1, <1>2, <1>3, InstallationFacts, OneMoves DEF ApplyFails, Keep

(* The rollback.                                                           *)
LEMMA UndoKeepsInstalled ==
  ASSUME InstallationInvariant, NEW a \in Actors, Undo(a)
  PROVE  InstallationInvariant'
<1>1. at[a] \in Undoing => Prepared /\ args[a].old \in Configs
  BY InstallationFacts DEF InHand
<1>2. CASE WriteFile(a, "undo file", "undo env", args[a].old)
  <2>1. "undo file" \in Undoing /\ "undo env" \in Stages
    BY DEF Stages, Undoing
  <2>2. at[a] = "undo file"
    BY <1>2 DEF WriteFile
  <2>3. Prepared /\ args[a].old \in Configs
    BY <1>1, <2>1, <2>2
  <2> PICK c : c = args[a].old
    OBVIOUS
  <2>4. c \in Configs /\ WriteFile(a, "undo file", "undo env", c)
    BY <1>2, <2>3
  <2> QED
    BY <2>1, <2>3, <2>4, WritesKeepInstalled
<1>3. CASE UndoEnv(a)
  <2>1. Prepared /\ args[a].old \in Configs
    BY <1>1, <1>3 DEF UndoEnv, Undoing
  <2>2. InstallationKept
    BY <1>3, <2>1, InstallationFacts, FileWritten DEF UndoEnv
  <2>3. at'[a] = "undo swap" => InHand(a)'
    BY <1>3, <2>2, InstallationFacts
    DEF UndoEnv, InHand, Applying, Undoing, Renewing, InstallationKept, Kept
  <2>4. "undo swap" \in Stages
    BY DEF Stages, Undoing
  <2> QED
    BY <1>3, <2>2, <2>3, <2>4, InstallationFacts, OneMoves DEF UndoEnv
<1>4. CASE UndoSwap(a)
  <2>1. InstallationKept
    <3>1. CASE \E removed \in BOOLEAN : StopGuard(removed)
      BY <1>4, <3>1, InstallationFacts, GuardStopped DEF UndoSwap
    <3>2. CASE UNCHANGED guard
      BY <1>4, <3>2, InstallationFacts, StillInstalled DEF UndoSwap, installVars
    <3> QED
      BY <1>4, <3>1, <3>2 DEF UndoSwap
  <2>2. at'[a] = "undo start" => InHand(a)'
    BY <1>4, <2>1, InstallationFacts
    DEF UndoSwap, Keep, InHand, Applying, Undoing, Renewing, InstallationKept, Kept
  <2>3. "undo start" \in Stages
    BY DEF Stages, Undoing
  <2> QED
    BY <1>4, <2>1, <2>2, <2>3, InstallationFacts, OneMoves DEF UndoSwap, Keep
<1>5. CASE StartNew(a, "undo start", "undo await")
  BY <1>5, SwapsKeepInstalled DEF Stages, Undoing
<1> QED
  BY <1>2, <1>3, <1>4, <1>5 DEF Undo

(* An actor gives up where the installation is as it was.                  *)
LEMMA EndKeepsInstalled ==
  ASSUME InstallationInvariant, NEW a \in Actors, InstallationKept, Fail(a), unsure' \in BOOLEAN
  PROVE  InstallationInvariant'
<1>1. phase' \in {"idle", "initializing", "failed", "ready"}
  BY InstallationFacts DEF Fail
<1> QED
  BY <1>1, OneEnds DEF Fail

(* Everything that apply_model does.                                       *)
LEMMA ApplyStepKeepsInstalled ==
  ASSUME InstallationInvariant, NEW a \in Actors, ApplyStep(a)
  PROVE  InstallationInvariant'
<1>1. CASE RefuseApply(a)
  BY <1>1, InstallationFacts, StillInstalled, EndKeepsInstalled DEF RefuseApply
<1>2. CASE Undone(a)
  BY <1>2, InstallationFacts, StillInstalled, EndKeepsInstalled DEF Undone
<1> QED
  BY <1>1, <1>2, BeginApplyKeepsInstalled, ApplyKeepsInstalled, AppliedKeepsInstalled,
     ApplyFailsKeepsInstalled, UndoKeepsInstalled
  DEF ApplyStep

(* open_budget begins: armed already, to be armed, or a new run first.     *)
LEMMA BeginOpenKeepsInstalled ==
  ASSUME InstallationInvariant, BeginOpen
  PROVE  InstallationInvariant'
<1>1. /\ phase' = phase /\ unsure' = unsure /\ UNCHANGED <<files, guard, ledger, platform>>
      /\ Prepared /\ files.guard \in Configs /\ args[Handler] \in ArgRows
  BY InstallationFacts DEF BeginOpen, InstallTypeOK, Files, Prepared
<1>2. CASE Finish(Handler) /\ UNCHANGED lastRun
  <2>1. InstallationKept
    BY <1>1, <1>2, InstallationFacts, StillInstalled DEF installVars
  <2> QED
    BY <1>1, <1>2, <2>1, InstallationFacts, OneEnds
<1>3. CASE Goto(Handler, "arm") /\ UNCHANGED <<args, lastRun>>
  <2>1. InstallationKept
    BY <1>1, <1>3, InstallationFacts, StillInstalled DEF installVars
  <2>2. at'[Handler] = "arm" => InHand(Handler)'
    BY InstallationFacts DEF InHand, Applying, Undoing, Renewing
  <2>3. "arm" \in Stages
    BY DEF Stages
  <2> QED
    BY <1>1, <1>3, <2>1, <2>2, <2>3, InstallationFacts, OneMoves
<1>4. CASE /\ lastRun < MaxRun /\ lastRun' = lastRun + 1 /\ Goto(Handler, "new file")
           /\ args' = [args EXCEPT ![Handler].new = [files.guard EXCEPT !.run = lastRun + 1]]
  <2> PICK c : c = [files.guard EXCEPT !.run = lastRun + 1]
    OBVIOUS
  <2> PICK x : x = [args[Handler] EXCEPT !.new = c]
    OBVIOUS
  <2>1. InstallationKept /\ lastRun' \in Runs
    BY <1>1, <1>4, InstallationFacts, RunTaken
  <2>2. c \in Configs
    BY <1>1, <1>4, <2>1 DEF Configs
  <2>3. x \in ArgRows /\ x.new = c
    BY <1>1, <2>2 DEF ArgRows
  <2>4. args' = [args EXCEPT ![Handler] = x]
    BY <1>4
  <2>5. /\ args' \in [Actors -> ArgRows] /\ args'[Handler] = x
        /\ \A b \in Actors : b # Handler => args'[b] = args[b]
    BY <2>3, <2>4, InstallationFacts
  <2>6. "new file" \in Stages
    BY DEF Stages, Renewing
  <2>7. /\ at' \in [Actors -> Stages] /\ at'[Handler] = "new file"
        /\ \A b \in Actors : b # Handler => at'[b] = at[b]
    BY <1>4, <2>6, InstallationFacts, Moves
  <2>8. InHand(Handler)'
    BY <1>1, <2>1, <2>2, <2>3, <2>5, <2>7, InstallationFacts
    DEF InHand, Applying, Undoing, Renewing, InstallationKept, Kept
  <2> QED
    BY <1>1, <2>1, <2>5, <2>7, <2>8, InstallationFacts, OneActs
<1> QED
  BY <1>2, <1>3, <1>4 DEF BeginOpen

(* budget.py new-run.                                                      *)
LEMMA NewRunKeepsInstalled ==
  ASSUME InstallationInvariant, NewRun
  PROVE  InstallationInvariant'
<1> PICK c : c = args[Handler].new
  OBVIOUS
<1>1. at[Handler] \in Renewing => Prepared /\ c \in Configs
  BY InstallationFacts DEF InHand
<1>2. CASE WriteFile(Handler, "new file", "new env", c)
  <2>1. "new file" \in Renewing /\ "new env" \in Stages /\ at[Handler] = "new file"
    BY <1>2 DEF Stages, Renewing, WriteFile
  <2> QED
    BY <1>1, <1>2, <2>1, InstallationFacts, WritesKeepInstalled
<1>3. CASE WriteEnv(Handler, "new env", "new swap", c)
  <2>1. "new env" \in Renewing /\ "new swap" \in Stages /\ at[Handler] = "new env"
    BY <1>3 DEF Stages, Renewing, WriteEnv
  <2> QED
    BY <1>1, <1>3, <2>1, InstallationFacts, WritesKeepInstalled
<1>4. CASE Swap(Handler, "new swap", "new start")
  BY <1>4, InstallationFacts, SwapsKeepInstalled DEF Stages, Renewing
<1>5. CASE StartNew(Handler, "new start", "arm")
  BY <1>5, InstallationFacts, SwapsKeepInstalled DEF Stages, Renewing
<1> QED
  BY <1>2, <1>3, <1>4, <1>5 DEF NewRun

(* The guard is armed, or the request is refused or fails.                 *)
LEMMA OpenEndsKeepInstalled ==
  ASSUME InstallationInvariant, Arm \/ OpenFails
  PROVE  InstallationInvariant'
<1>1. CASE Arm
  <2>1. InstallationKept
    BY <1>1, InstallationFacts, GuardTold DEF Arm
  <2> QED
    BY <1>1, <2>1, InstallationFacts, OneEnds DEF Arm
<1>2. CASE OpenFails
  <2>1. InstallationKept
    <3>1. CASE UNCHANGED guard
      BY <1>2, <3>1, InstallationFacts, StillInstalled DEF OpenFails, installVars
    <3>2. CASE StopGuard(FALSE)
      BY <1>2, <3>2, InstallationFacts, GuardStopped DEF OpenFails
    <3> QED
      BY <1>2, <3>1, <3>2 DEF OpenFails
  <2> QED
    BY <1>2, <2>1, InstallationFacts, EndKeepsInstalled DEF OpenFails
<1> QED
  BY <1>1, <1>2

(* Everything the handler does.                                            *)
LEMMA HandlerKeepsInstalled ==
  ASSUME InstallationInvariant, HandlerStep
  PROVE  InstallationInvariant'
<1>1. ASSUME NEW m \in Models, SaveModel(m) \/ ApplyModel(m)
      PROVE  InstallationInvariant'
  BY <1>1, AskKeepsInstalled DEF SaveModel, ApplyModel
<1>2. CASE OpenBudget
  BY <1>2, AskKeepsInstalled DEF OpenBudget
<1> QED
  BY <1>1, <1>2, BeginOpenKeepsInstalled, NewRunKeepsInstalled, OpenEndsKeepInstalled,
     StoreKeepsInstalled, InitializeKeepsInstalled
  DEF HandlerStep

(* restore_guard.                                                          *)
LEMMA RestoreKeepsInstalled ==
  ASSUME InstallationInvariant, NEW p \in Provisioners, Restore(p)
  PROVE  InstallationInvariant'
<1> PICK x : x = [args[p] EXCEPT !.model = StoredModel]
  OBVIOUS
<1>1. phase' = phase /\ unsure' = unsure /\ p \in Actors /\ args[p] \in ArgRows
  BY InstallationFacts DEF Restore
<1>2. StoredModel \in Models
  BY InstallationFacts, RealConfigs DEF Restore, InHand, InstallTypeOK, Files, StoredModel
<1>3. x \in ArgRows /\ x.model = StoredModel
  BY <1>1, <1>2 DEF ArgRows
<1>4. /\ args' \in [Actors -> ArgRows] /\ args'[p] = x
      /\ \A b \in Actors : b # p => args'[b] = args[b]
  BY <1>1, <1>3, InstallationFacts DEF Restore
<1>5. PICK stage \in {"check", "wait guard"} : Goto(p, stage)
  BY DEF Restore
<1>6. /\ at' \in [Actors -> Stages] /\ at'[p] = stage
      /\ \A b \in Actors : b # p => at'[b] = at[b]
  BY <1>1, <1>5, InstallationFacts, Moves DEF Stages
<1>7. InstallationKept
  <2>1. CASE UNCHANGED <<guard, ledger>>
    BY <2>1, InstallationFacts, StillInstalled DEF Restore, installVars
  <2>2. CASE StartGuard \/ RunGuard
    BY <2>2, InstallationFacts, GuardRuns DEF Restore
  <2> QED
    BY <2>1, <2>2 DEF Restore
<1>8. InHand(p)'
  BY <1>2, <1>3, <1>4, <1>6, <1>7, InstallationFacts
  DEF Restore, InHand, Applying, Undoing, Renewing, InstallationKept, Kept
<1> QED
  BY <1>1, <1>4, <1>6, <1>7, <1>8, InstallationFacts, OneActs

(* A provisioning thread goes to its next step.                            *)
LEMMA ThreadMovesKeepInstalled ==
  ASSUME InstallationInvariant, NEW p \in Provisioners, NEW stage \in Stages,
         Goto(p, stage), Keep \/ (phase' = phase /\ args' = args /\ unsure' = FALSE),
         InstallationKept, at[p] # "off",
         stage \in {"check", "platform", "apply", "config"} => args[p].model \in Models,
         stage \in {"marker", "create"} => platform'.routes = Roles,
         stage = "configure" => platform'.installed,
         stage \in {"check", "platform", "apply", "config", "team", "routes", "marker",
                    "create", "workers", "configure", "connect", "verify"}
  PROVE  InstallationInvariant'
<1>1. at'[p] = stage => InHand(p)'
  BY InstallationFacts DEF Keep, InHand, Applying, Undoing, Renewing, InstallationKept, Kept
<1> QED
  BY <1>1, InstallationFacts, OneMoves DEF Keep

(* The steps before the team.                                              *)
LEMMA ThreadBeginsKeepsInstalled ==
  ASSUME InstallationInvariant, NEW p \in Provisioners,
         Restored(p) \/ CheckIdle(p) \/ RunPlatform(p) \/ Prepare(p)
  PROVE  InstallationInvariant'
<1>1. {"check", "platform", "apply", "config", "team"} \subseteq Stages
  BY DEF Stages
<1>2. at[p] \in {"wait guard", "check", "platform", "config"} => args[p].model \in Models
  BY InstallationFacts DEF InHand
<1>3. CASE Restored(p)
  BY <1>1, <1>2, <1>3, InstallationFacts, StillInstalled, ThreadMovesKeepInstalled DEF Restored
<1>4. CASE CheckIdle(p)
  BY <1>1, <1>2, <1>4, InstallationFacts, StillInstalled, ThreadMovesKeepInstalled DEF CheckIdle
<1>5. CASE RunPlatform(p)
  <2>1. InstallationKept
    BY <1>5, InstallationFacts, PlatformTold DEF RunPlatform
  <2> QED
    BY <1>1, <1>2, <1>5, <2>1, ThreadMovesKeepInstalled DEF RunPlatform
<1>6. CASE Prepare(p)
  <2> PICK m : m = args[p].model
    OBVIOUS
  <2>1. InstallationKept
    BY <1>2, <1>6, InstallationFacts, TeamPrepared DEF Prepare
  <2> QED
    BY <1>1, <1>6, <2>1, ThreadMovesKeepInstalled DEF Prepare
<1> QED
  BY <1>3, <1>4, <1>5, <1>6

(* The steps of the team.                                                  *)
LEMMA ThreadTeamKeepsInstalled ==
  ASSUME InstallationInvariant, NEW p \in Provisioners,
         InspectTeam(p) \/ Register(p) \/ WriteMarker(p) \/ Create(p)
  PROVE  InstallationInvariant'
<1>1. {"routes", "marker", "create", "workers", "connect"} \subseteq Stages
  BY DEF Stages
<1>2. at[p] \in {"marker", "create"} => platform.routes = Roles
  BY InstallationFacts DEF InHand
<1>3. CASE InspectTeam(p)
  <2>1. InstallationKept /\ UNCHANGED platform
    BY <1>3, InstallationFacts, StillInstalled DEF InspectTeam, installVars
  <2>2. PICK stage \in {"routes", "create", "workers", "connect"} :
          Goto(p, stage) /\ (stage = "create" => files.marker)
    BY <1>3 DEF InspectTeam, NextOfTeam
  <2>3. stage = "create" => platform'.routes = Roles
    BY <2>1, <2>2, InstallationFacts DEF InOrder
  <2> QED
    BY <1>1, <1>3, <2>1, <2>2, <2>3, ThreadMovesKeepInstalled DEF InspectTeam
<1>4. CASE Register(p)
  <2>1. InstallationKept /\ platform'.routes = Roles
    BY <1>4, InstallationFacts, RoutesRegistered DEF Register
  <2> QED
    BY <1>1, <1>4, <2>1, ThreadMovesKeepInstalled DEF Register
<1>5. CASE WriteMarker(p)
  <2>1. platform.routes = Roles
    BY <1>2, <1>5 DEF WriteMarker
  <2>2. InstallationKept /\ platform' = platform
    BY <1>5, <2>1, InstallationFacts, FlagsSet DEF WriteMarker
  <2> QED
    BY <1>1, <1>5, <2>1, <2>2, ThreadMovesKeepInstalled DEF WriteMarker
<1>6. CASE Create(p)
  <2>1. InstallationKept
    BY <1>2, <1>6, InstallationFacts, TeamCreated DEF Create
  <2> QED
    BY <1>1, <1>6, <2>1, ThreadMovesKeepInstalled DEF Create
<1> QED
  BY <1>3, <1>4, <1>5, <1>6

(* The steps that finish it.                                               *)
LEMMA ThreadConnectsKeepsInstalled ==
  ASSUME InstallationInvariant, NEW p \in Provisioners,
         InstallWorkers(p) \/ Configure(p) \/ Connect(p) \/ Complete(p)
  PROVE  InstallationInvariant'
<1>1. {"configure", "connect", "verify"} \subseteq Stages
  BY DEF Stages
<1>2. at[p] = "configure" => platform.installed
  BY InstallationFacts DEF InHand
<1>3. CASE InstallWorkers(p)
  <2>1. InstallationKept /\ platform'.installed
    BY <1>3, InstallationFacts, PlatformTold DEF InstallWorkers, InstallCollaboration
  <2> QED
    BY <1>1, <1>3, <2>1, ThreadMovesKeepInstalled DEF InstallWorkers
<1>4. CASE Configure(p)
  <2>1. InstallationKept
    BY <1>2, <1>4, InstallationFacts, FlagsSet DEF Configure, ConfigureTeam
  <2> QED
    BY <1>1, <1>4, <2>1, ThreadMovesKeepInstalled DEF Configure
<1>5. CASE Connect(p)
  <2>1. InstallationKept
    BY <1>5, InstallationFacts, PlatformTold DEF Connect, ConnectConsole
  <2> QED
    BY <1>1, <1>5, <2>1, ThreadMovesKeepInstalled DEF Connect
<1>6. CASE Complete(p)
  <2>1. InstallationKept
    BY <1>6, InstallationFacts, StillInstalled DEF Complete
  <2> QED
    BY <1>6, <2>1, InstallationFacts, OneEnds DEF Complete
<1> QED
  BY <1>3, <1>4, <1>5, <1>6

(* A step of provision fails, perhaps with part of its work done.          *)
LEMMA ProvisionFailsKeepsInstalled ==
  ASSUME InstallationInvariant, NEW p \in Provisioners, ProvisionFails(p)
  PROVE  InstallationInvariant'
<1>1. /\ at[p] = "config" => args[p].model \in Models
      /\ at[p] = "create" => platform.routes = Roles
      /\ at[p] = "configure" => platform.installed
  BY InstallationFacts DEF InHand
<1>2. InstallationKept
  <2>1. ASSUME at[p] = "config", NEW done \in 0..3, PrepareTeam(args[p].model, done)
        PROVE  InstallationKept
    <3> PICK m : m = args[p].model
      OBVIOUS
    <3>1. m \in Models /\ done \in 0..4
      BY <1>1, <2>1
    <3> QED
      BY <2>1, <3>1, InstallationFacts, TeamPrepared
  <2>2. ASSUME NEW done \in SUBSET Roles, RegisterRoutes(done), UNCHANGED files
        PROVE  InstallationKept
    BY <2>2, InstallationFacts, RoutesRegistered
  <2>3. ASSUME at[p] = "create", NEW done \in SUBSET Roles, NEW audit \in BOOLEAN,
               CreateTeam(done, FALSE, audit)
        PROVE  InstallationKept
    BY <1>1, <2>3, InstallationFacts, TeamCreated
  <2>4. ASSUME at[p] = "configure", ConfigureTeam(FALSE)
        PROVE  InstallationKept
    BY <1>1, <2>4, InstallationFacts, FlagsSet DEF ConfigureTeam
  <2>5. CASE UNCHANGED installVars
    BY <2>5, InstallationFacts, StillInstalled
  <2> QED
    BY <2>1, <2>2, <2>3, <2>4, <2>5 DEF ProvisionFails, HalfDone
<1> QED
  BY <1>2, InstallationFacts, EndKeepsInstalled DEF ProvisionFails

(* Everything a provisioning thread does.                                  *)
LEMMA ProvisionKeepsInstalled ==
  ASSUME InstallationInvariant, NEW p \in Provisioners, ProvisionStep(p)
  PROVE  InstallationInvariant'
BY RestoreKeepsInstalled, ThreadBeginsKeepsInstalled, ThreadTeamKeepsInstalled,
   ThreadConnectsKeepsInstalled, ProvisionFailsKeepsInstalled
DEF ProvisionStep

(* The service dies and starts again.                                      *)
LEMMA RestartKeepsInstalled ==
  ASSUME InstallationInvariant, Restart
  PROVE  InstallationInvariant'
<1>1. InstallationKept
  BY InstallationFacts, StillInstalled DEF Restart
<1>2. "off" \in Stages /\ NoArgs \in ArgRows
  BY DEF Stages, NoArgs, ArgRows
<1>3. OnboardingTypeOK'
  BY <1>1, <1>2, InstallationFacts DEF Restart, OnboardingTypeOK, InstallationKept, ArgRows
<1>4. ASSUME NEW a \in Actors
      PROVE  InHand(a)'
  BY DEF Restart, InHand, Applying, Undoing, Renewing
<1> QED
  BY <1>1, <1>3, <1>4 DEF InstallationInvariant, InstallationKept

(* Where no actor moves, what each needs is still there.                   *)
LEMMA OthersKeepInstalled ==
  ASSUME InstallationInvariant, OthersStep \/ UNCHANGED installVars, UNCHANGED serviceVars
  PROVE  InstallationInvariant'
<1>1. InstallationKept
  <2>1. CASE OperatorArms \/ RunCloses \/ GuardRestarts
    BY <2>1, InstallationFacts, GuardTold DEF OperatorArms, RunCloses, GuardRestarts
  <2>2. CASE HostStops
    BY <2>2, InstallationFacts, PlatformTold DEF HostStops
  <2>3. CASE UNCHANGED installVars
    BY <2>3, InstallationFacts, StillInstalled
  <2> QED
    BY <2>1, <2>2, <2>3 DEF OthersStep
<1>2. UNCHANGED <<phase, at, args, unsure>>
  BY DEF serviceVars
<1>3. OnboardingTypeOK'
  BY <1>1, <1>2, InstallationFacts DEF OnboardingTypeOK, InstallationKept, ArgRows
<1>4. ASSUME NEW a \in Actors
      PROVE  InHand(a)'
  BY <1>1, <1>2, InstallationFacts DEF InHand, InstallationKept, Kept
<1> QED
  BY <1>1, <1>3, <1>4 DEF InstallationInvariant, InstallationKept

(* It holds of an installation that was never made, and every step keeps   *)
(* it.                                                                     *)
LEMMA InstallationStarts ==
  ASSUME OnboardingInit
  PROVE  InstallationInvariant
<1>1. InstallTypeOK
  BY InstallationAssumption
  DEF OnboardingInit, FreshInit, InstallTypeOK, Files, Containers, Platforms, NoContainer
<1>2. "off" \in Stages /\ NoArgs \in ArgRows
  BY DEF Stages, NoArgs, ArgRows
<1>3. OnboardingTypeOK
  BY <1>1, <1>2 DEF OnboardingInit, ServiceInit, OnboardingTypeOK, ArgRows
<1>4. InOrder
  BY DEF OnboardingInit, FreshInit, InOrder, NoContainer, Prepared
<1>5. ASSUME NEW a \in Actors
      PROVE  InHand(a)
  BY DEF OnboardingInit, ServiceInit, InHand, Applying, Undoing, Renewing
<1> QED
  BY <1>3, <1>4, <1>5 DEF InstallationInvariant

(* Every step keeps it.                                                    *)
LEMMA InstallationSteps ==
  ASSUME InstallationInvariant, [ServiceStep]_onboardingVars
  PROVE  InstallationInvariant'
<1>1. CASE UNCHANGED onboardingVars
  BY <1>1, OthersKeepInstalled DEF onboardingVars
<1> QED
  BY <1>1, HandlerKeepsInstalled, ApplyStepKeepsInstalled, ProvisionKeepsInstalled,
     RestartKeepsInstalled, OthersKeepInstalled
  DEF ServiceStep

(* Whatever fails, is repeated or is cut short, by however many threads:   *)
(* what the installation has rests on what was made before it.             *)
THEOREM InstallationHolds == OnboardingSpec => []InstallationInvariant
<1>1. OnboardingInit => InstallationInvariant
  BY InstallationStarts
<1>2. InstallationInvariant /\ [ServiceStep]_onboardingVars => InstallationInvariant'
  BY InstallationSteps
<1> QED
  BY <1>1, <1>2, PTL DEF OnboardingSpec

(* An installation shown as ready has everything that provision produces.  *)
THEOREM ReadyInstallationsAreComplete == OnboardingSpec => []ReadyIsComplete
<1>1. InstallationInvariant => ReadyIsComplete
  BY DEF InstallationInvariant, InOrder, ReadyIsComplete, ReportedReady, TeamComplete
<1> QED
  BY <1>1, InstallationHolds, PTL

-----------------------------------------------------------------------------
(* The guard that is armed.                                                *)

(* A thread beside which something else works is at the end of its         *)
(* rollback.                                                               *)
ThreadsLate ==
  \A p \in Provisioners :
    at[p] # "off" /\ (phase # "initializing" \/ at[Handler] # "off") => at[p] \in Late

(* The configurations in the files, in the guard and in the hands of the   *)
(* actors: a run is given to one model.                                    *)
InUse ==
  {files.guard, files.env, guard.cfg} \cup
  {args[a].old : a \in Actors} \cup {args[a].new : a \in Actors}

RunsTold ==
  /\ \A c \in InUse : c.run <= lastRun
  /\ \A c, d \in InUse : c.run = d.run => c = d
  /\ guard.exists => ledger[guard.cfg.run] # "none"

(* What is in the files, where an actor has written them.                  *)
WrittenBy(a) ==
  /\ at[a] \in {"env", "swap", "start", "await"} => files.guard = args[a].new
  /\ at[a] \in {"swap", "start", "await"} => files.env = args[a].new
  /\ at[a] = "undo env" => files.guard = args[a].old
  /\ a = Handler =>
       /\ at[a] \in Late => files.guard = args[a].old /\ files.env = args[a].old
       /\ at[a] \in Renewing => args[a].new.model = files.guard.model
       /\ at[a] \in {"new swap", "new start"} => files.env = args[a].new
       /\ at[a] \in Renewing \cup {"arm"} => files.guard.model = StoredModel

(* A guard of that configuration runs the model of the files, or its run   *)
(* is over.                                                                *)
Agrees(c) == c.model = files.guard.model \/ ledger[c.run] = "closed"

(* What holds of the guard unless a change of it is unsure: beside a       *)
(* change no thread is at work; a guard about to be replaced has a closed  *)
(* run; a thread at the end of its rollback starts or leaves a guard with  *)
(* the model of the files; and where nobody rolls back the guard, or the   *)
(* file that will start one, agrees with the files.                        *)
ChangesAlone ==
  at[Handler] \in Applying \cup Undoing => \A p \in Provisioners : at[p] = "off"
Replaceable ==
  \A a \in Actors : at[a] \in {"file", "env", "swap"} =>
    guard.exists /\ ledger[guard.cfg.run] = "closed"
ThreadRestores ==
  \A p \in Provisioners : at[p] \in Late =>
    /\ files.env.model = files.guard.model
    /\ \/ args[p].old.model = files.guard.model
       \/ guard.exists => guard.cfg.model = files.guard.model
GuardKnown ==
  /\ guard.exists => Agrees(guard.cfg)
  /\ ~guard.exists /\ files.env # NoConfig => Agrees(files.env)

GuardAgrees ==
  /\ ChangesAlone /\ Replaceable /\ ThreadRestores
  /\ (\A a \in Actors : at[a] \notin Undoing) => GuardKnown

ChangeInvariant ==
  /\ ThreadsLate /\ RunsTold /\ \A a \in Actors : WrittenBy(a)
  /\ unsure \/ GuardAgrees

(* One thread at a time, said of its members.                              *)
OneAtATime ==
  \A p, q \in Provisioners : at[p] # "off" /\ at[q] # "off" => p = q

(* At most one thread is at most one.                                      *)
LEMMA OneThread ==
  ASSUME OneProvisioner
  PROVE  OneAtATime
<1> PICK S : S = {p \in Provisioners : at[p] # "off"}
  OBVIOUS
<1>1. IsFiniteSet(S) /\ Cardinality(S) <= 1
  <2>1. S \subseteq Provisioners
    OBVIOUS
  <2> QED
    BY <2>1, ServiceAssumption, FS_Subset DEF OneProvisioner
<1>2. SUFFICES ASSUME NEW p \in S, NEW q \in S, p # q
               PROVE  FALSE
  BY DEF OneAtATime
<1> PICK T : T = {p}
  OBVIOUS
<1>3. IsFiniteSet(T) /\ Cardinality(T) = 1
  BY FS_Singleton
<1>4. Cardinality(T \cup {q}) = 2 /\ IsFiniteSet(T \cup {q})
  BY <1>2, <1>3, FS_AddElement
<1>5. T \cup {q} \subseteq S
  BY <1>2
<1> PICK U : U = T \cup {q}
  OBVIOUS
<1>6. Cardinality(U) <= Cardinality(S)
  BY <1>1, <1>5, FS_Subset
<1>7. Cardinality(S) \in Nat
  BY <1>1, FS_CardinalityType
<1> QED
  BY <1>1, <1>4, <1>6, <1>7

(* The step of one actor, seen from the others.                            *)
OthersStay(a) ==
  \A b \in Actors : b # a => at'[b] = at[b] /\ args'[b] = args[b]

Before ==
  /\ InstallationInvariant /\ InstallationInvariant' /\ OneAtATime /\ OneAtATime'
  /\ ChangeInvariant

(* The configurations in use after a step are those in use before, none,   *)
(* or one with a fresh run; the run of the guard is in the ledger.         *)
LEMMA RunsStayTold ==
  ASSUME Before, NEW a \in Actors, OthersStay(a), NEW fresh,
         {args'[a].old, args'[a].new, files'.guard, files'.env, guard'.cfg} \subseteq
           {args[a].old, args[a].new, files.guard, files.env, guard.cfg, NoConfig, fresh},
         \/ fresh = NoConfig /\ lastRun' = lastRun
         \/ fresh.run = lastRun + 1 /\ lastRun' = lastRun + 1,
         guard'.exists => ledger'[guard'.cfg.run] # "none"
  PROVE  RunsTold'
<1>1. lastRun \in Nat /\ InUse \subseteq Configs \cup {NoConfig}
  BY DEF Before, InstallationInvariant, OnboardingTypeOK, InstallTypeOK, Files, Containers,
     InUse, Actors
<1>2. \A c \in InUse : c.run \in Nat /\ c.run <= lastRun /\ (c.run = 0 => c = NoConfig)
  BY <1>1, RealConfigs, InstallationAssumption DEF Before, ChangeInvariant, RunsTold, Runs
<1>3. /\ {args[a].old, args[a].new, files.guard, files.env, guard.cfg} \subseteq InUse
      /\ \A b \in Actors : args[b].old \in InUse /\ args[b].new \in InUse
  BY DEF InUse
<1>4. InUse' \subseteq InUse \cup {NoConfig, fresh}
  <2>1. \A b \in Actors : args'[b].old \in InUse \cup {NoConfig, fresh}
                           /\ args'[b].new \in InUse \cup {NoConfig, fresh}
    BY <1>3 DEF OthersStay
  <2>2. {files'.guard, files'.env, guard'.cfg} \subseteq InUse \cup {NoConfig, fresh}
    BY <1>3
  <2> QED
    BY <2>1, <2>2 DEF InUse, Actors
<1>5. /\ NoConfig.run = 0
      /\ fresh = NoConfig \/ (fresh.run = lastRun + 1 /\ lastRun' = lastRun + 1)
      /\ lastRun' = lastRun \/ lastRun' = lastRun + 1
  BY RealConfigs
<1>6. \A c, d \in InUse : c.run = d.run => c = d
  BY DEF Before, ChangeInvariant, RunsTold
<1>7. \A c \in InUse \cup {NoConfig, fresh} : c.run <= lastRun'
  BY <1>1, <1>2, <1>5
<1>8. \A c, d \in InUse \cup {NoConfig, fresh} : c.run = d.run => c = d
  BY <1>1, <1>2, <1>5, <1>6
<1> QED
  BY <1>4, <1>7, <1>8 DEF RunsTold

(* Where no configuration is new and the guard is the one it was.          *)
LEMMA LedgerKept ==
  ASSUME Before, guard'.exists => guard.exists /\ guard'.cfg = guard.cfg,
         guard'.exists => ledger'[guard.cfg.run] \in {ledger[guard.cfg.run], "open", "closed"}
  PROVE  guard'.exists => ledger'[guard'.cfg.run] # "none"
BY DEF Before, ChangeInvariant, RunsTold

(* What the others wrote stands: a step of the handler finds the threads   *)
(* late, and a thread that writes files finds no handler at work.          *)
LEMMA OthersWritten ==
  ASSUME Before, NEW a \in Actors, OthersStay(a),
         \/ UNCHANGED files \/ at[a] \notin Late \cup {"off"}
         \/ a = Handler /\ at[a] # "off",
         NEW b \in Actors, b # a
  PROVE  WrittenBy(b)'
<1>1. WrittenBy(b) /\ at'[b] = at[b] /\ args'[b] = args[b] /\ ThreadsLate
  BY DEF Before, ChangeInvariant, OthersStay
<1>2. CASE UNCHANGED files
  BY <1>1, <1>2 DEF WrittenBy, StoredModel
<1>3. CASE a = Handler /\ at[a] # "off"
  <2>1. b \in Provisioners /\ b # Handler /\ at[b] \in Late \cup {"off"}
    BY <1>1, <1>3 DEF Actors, ThreadsLate
  <2> QED
    BY <1>1, <2>1 DEF WrittenBy, Late
<1>4. CASE a \in Provisioners /\ at[a] \notin Late \cup {"off"}
  <2>1. at[b] = "off"
    BY <1>1, <1>4 DEF Actors, ThreadsLate, Before, OneAtATime
  <2> QED
    BY <1>1, <2>1 DEF WrittenBy, Late, Renewing
<1> QED
  BY <1>2, <1>3, <1>4 DEF Actors

(* The threads stay late.                                                  *)
LEMMA HandlerLeavesThreadsLate ==
  ASSUME Before, OthersStay(Handler), phase # "initializing" \/ at[Handler] # "off"
  PROVE  ThreadsLate'
BY ServiceAssumption DEF Before, ChangeInvariant, ThreadsLate, OthersStay, Actors

(* ... also where a thread moves, since no other is at work.               *)
LEMMA ThreadLeavesThreadsLate ==
  ASSUME Before, NEW p \in Provisioners, OthersStay(p), at[p] # "off",
         \/ at'[p] \in Late \cup {"off"}
         \/ at[p] \notin Late /\ phase' = phase
  PROVE  ThreadsLate'
<1>1. \A q \in Provisioners : q # p => at'[q] = "off"
  BY DEF Before, OneAtATime, OthersStay, Actors
<1>2. at'[Handler] = at[Handler]
  BY ServiceAssumption DEF OthersStay, Actors
<1> QED
  BY <1>1, <1>2 DEF Before, ChangeInvariant, ThreadsLate

(* The invariant, put together from its parts after a step of one actor.   *)
LEMMA HandlerChanges ==
  ASSUME Before, OthersStay(Handler), phase # "initializing" \/ at[Handler] # "off",
         UNCHANGED files \/ at[Handler] # "off",
         RunsTold', WrittenBy(Handler)', unsure' \/ GuardAgrees'
  PROVE  ChangeInvariant'
<1>1. Handler \in Actors
  BY DEF Actors
<1>2. ThreadsLate'
  BY HandlerLeavesThreadsLate
<1>3. ASSUME NEW b \in Actors
      PROVE  WrittenBy(b)'
  <2>1. CASE b = Handler
    BY <2>1
  <2>2. CASE b # Handler
    BY <1>1, <2>2, OthersWritten
  <2> QED
    BY <2>1, <2>2
<1>4. \A b \in Actors' : WrittenBy(b)'
  BY <1>3 DEF Actors
<1> QED
  BY <1>2, <1>4 DEF ChangeInvariant

(* ... and after a step of a thread.                                       *)
LEMMA ThreadChanges ==
  ASSUME Before, NEW p \in Provisioners, OthersStay(p), at[p] # "off",
         \/ at'[p] \in Late \cup {"off"}
         \/ at[p] \notin Late /\ phase' = phase,
         UNCHANGED files \/ at[p] \notin Late,
         RunsTold', WrittenBy(p)', unsure' \/ GuardAgrees'
  PROVE  ChangeInvariant'
<1>1. p \in Actors
  BY DEF Actors
<1>2. ThreadsLate'
  BY ThreadLeavesThreadsLate
<1>3. ASSUME NEW b \in Actors
      PROVE  WrittenBy(b)'
  <2>1. CASE b = p
    BY <2>1
  <2>2. CASE b # p
    BY <1>1, <2>2, OthersWritten
  <2> QED
    BY <2>1, <2>2
<1>4. \A b \in Actors' : WrittenBy(b)'
  BY <1>3 DEF Actors
<1> QED
  BY <1>2, <1>4 DEF ChangeInvariant

(* The files, the guard and the runs that matter are as they were.         *)
GuardAsBefore ==
  /\ files'.guard = files.guard /\ files'.env = files.env
  /\ guard'.exists = guard.exists /\ guard'.cfg = guard.cfg
  /\ \A r \in Runs : ledger'[r] \in {ledger[r], "closed"}

(* A configuration in the guard or in its file has a run.                  *)
LEMMA RunsOfGuard ==
  ASSUME InstallationInvariant
  PROVE  /\ guard.exists => guard.cfg \in Configs /\ guard.cfg.run \in Runs
         /\ files.env # NoConfig => files.env \in Configs /\ files.env.run \in Runs
BY RealConfigs DEF InstallationInvariant, OnboardingTypeOK, InstallTypeOK, InOrder, Files

(* Then an actor that begins no change and ends none leaves the guard as   *)
(* sure as it was.                                                         *)
LEMMA QuietAgrees ==
  ASSUME Before, NEW a \in Actors, OthersStay(a), GuardAsBefore, unsure' = unsure,
         at[a] \notin Applying \cup Undoing, at'[a] \notin Applying \cup Undoing,
         at[a] # "off" \/ at[Handler] = "off"
  PROVE  unsure' \/ GuardAgrees'
<1>1. SUFFICES ASSUME GuardAgrees
               PROVE  GuardAgrees'
  BY DEF Before, ChangeInvariant
<1>2. \A b \in Actors : b # a => at'[b] = at[b] /\ args'[b] = args[b]
  BY DEF OthersStay
<1>3. ChangesAlone'
  BY <1>1, <1>2, ServiceAssumption DEF GuardAgrees, ChangesAlone, Actors, Applying, Undoing
<1>4. /\ guard.exists => guard.cfg.run \in Runs
      /\ files.env # NoConfig => files.env.run \in Runs
  BY RunsOfGuard DEF Before
<1>5. Replaceable'
  <2>1. guard.exists /\ ledger[guard.cfg.run] = "closed" =>
          guard'.exists /\ ledger'[guard'.cfg.run] = "closed"
    BY <1>4 DEF GuardAsBefore
  <2>2. at'[a] \notin {"file", "env", "swap"}
    BY DEF Applying
  <2> QED
    BY <1>1, <1>2, <2>1, <2>2 DEF GuardAgrees, Replaceable, Actors
<1>6. ThreadRestores'
  <2>1. at'[a] \notin Late
    BY DEF Late, Undoing
  <2> QED
    BY <1>1, <1>2, <2>1 DEF GuardAgrees, ThreadRestores, GuardAsBefore, Actors
<1>7. GuardKnown => GuardKnown'
  BY <1>4 DEF GuardKnown, GuardAsBefore, Agrees
<1>8. (\A b \in Actors : at'[b] \notin Undoing) => \A b \in Actors : at[b] \notin Undoing
  BY <1>2
<1> QED
  BY <1>1, <1>3, <1>5, <1>6, <1>7, <1>8 DEF GuardAgrees, Actors

(* No configuration is new where the files and the guard are the same.     *)
LEMMA QuietRuns ==
  ASSUME Before, NEW a \in Actors, OthersStay(a), GuardAsBefore, lastRun' = lastRun,
         {args'[a].old, args'[a].new} \subseteq
           {args[a].old, args[a].new, files.guard, NoConfig}
  PROVE  RunsTold'
<1>1. guard.exists => guard.cfg.run \in Runs
  BY RunsOfGuard DEF Before
<1>2. guard'.exists => ledger'[guard'.cfg.run] # "none"
  BY <1>1, LedgerKept DEF GuardAsBefore
<1> PICK fresh : fresh = NoConfig
  OBVIOUS
<1>3. {args'[a].old, args'[a].new, files'.guard, files'.env, guard'.cfg} \subseteq
        {args[a].old, args[a].new, files.guard, files.env, guard.cfg, NoConfig, fresh}
  BY DEF GuardAsBefore
<1> QED
  BY <1>2, <1>3, RunsStayTold

(* A quiet step of the handler.                                            *)
LEMMA HandlerQuiet ==
  ASSUME Before, OthersStay(Handler), phase # "initializing" \/ at[Handler] # "off",
         UNCHANGED files \/ at[Handler] # "off",
         GuardAsBefore, lastRun' = lastRun, unsure' = unsure,
         {args'[Handler].old, args'[Handler].new} \subseteq
           {args[Handler].old, args[Handler].new, files.guard, NoConfig},
         at[Handler] \notin Applying \cup Undoing,
         at'[Handler] \in {"off", "store", "apply", "open", "arm"},
         at'[Handler] = "arm" => files'.guard.model = StoredModel'
  PROVE  ChangeInvariant'
<1>1. Handler \in Actors /\ at'[Handler] \notin Applying \cup Undoing
  BY DEF Actors, Applying, Undoing
<1>2. WrittenBy(Handler)'
  BY DEF WrittenBy, Late, Renewing
<1> QED
  BY <1>1, <1>2, QuietAgrees, QuietRuns, HandlerChanges

(* A quiet step of a thread.                                               *)
LEMMA ThreadQuiet ==
  ASSUME Before, NEW p \in Provisioners, OthersStay(p), at[p] # "off",
         at'[p] = "off" \/ phase' = phase,
         GuardAsBefore, lastRun' = lastRun, unsure' = unsure,
         {args'[p].old, args'[p].new} \subseteq
           {args[p].old, args[p].new, files.guard, NoConfig},
         at[p] \notin Applying \cup Undoing,
         at'[p] \notin Applying \cup Undoing
  PROVE  ChangeInvariant'
<1>1. p \in Actors /\ p # Handler
  BY ServiceAssumption DEF Actors
<1>2. WrittenBy(p)'
  BY <1>1 DEF WrittenBy, Applying, Undoing
<1>3. at[p] \notin Late
  BY DEF Late, Undoing
<1> QED
  BY <1>1, <1>2, <1>3, QuietAgrees, QuietRuns, ThreadChanges

(* What the invariants say where an actor acts.                            *)
LEMMA ActorFacts ==
  ASSUME Before, NEW a \in Actors
  PROVE  /\ args[a] \in ArgRows /\ args \in [Actors -> ArgRows] /\ at \in [Actors -> Stages]
         /\ files \in Files /\ guard \in Containers
         /\ ledger \in [Runs -> {"none", "open", "closed"}]
         /\ Handler \in Actors /\ Provisioners \subseteq Actors
BY InstallationFacts DEF Before, InstallTypeOK

(* An actor that goes on leaves the others where they are, and so does one *)
(* that ends.                                                              *)
LEMMA ActorGoesOn ==
  ASSUME Before, NEW a \in Actors, NEW stage, Goto(a, stage), args' = args
  PROVE  OthersStay(a) /\ at'[a] = stage
BY ActorFacts DEF Goto, OthersStay

(* The one that ends has nothing in hand.                                  *)
LEMMA GivesUp ==
  ASSUME Before, NEW a \in Actors, Finish(a)
  PROVE  /\ OthersStay(a) /\ at'[a] = "off"
         /\ args'[a].old = NoConfig /\ args'[a].new = NoConfig
BY ActorFacts DEF Finish, Goto, OthersStay, NoArgs

(* Where the guard stops, or is armed, or others tell it something, and    *)
(* the files are as they were.                                             *)
LEMMA SameGuard ==
  ASSUME Before, UNCHANGED <<files, ledger>>,
         UNCHANGED guard \/ StopGuard(FALSE) \/ ArmGuard
  PROVE  GuardAsBefore
BY ActorFacts DEF GuardAsBefore, StopGuard, ArmGuard, Containers, Actors

(* A request comes, or is answered without a change.                       *)
LEMMA RequestIsQuiet ==
  ASSUME Before, NEW stage \in {"store", "apply", "open"}, NEW model, Ask(stage, model)
  PROVE  ChangeInvariant'
<1>1. /\ OthersStay(Handler) /\ at'[Handler] = stage
      /\ args'[Handler].old = NoConfig /\ args'[Handler].new = NoConfig
  BY ActorFacts DEF Ask, Goto, OthersStay, NoArgs, Actors
<1>2. GuardAsBefore
  BY SameGuard DEF Ask, installVars
<1> QED
  BY <1>1, <1>2, HandlerQuiet DEF Ask, installVars, Applying, Undoing

(* Saving the model changes nothing of the guard.                          *)
LEMMA StoreIsQuiet ==
  ASSUME Before, Store
  PROVE  ChangeInvariant'
<1>1. /\ OthersStay(Handler) /\ at'[Handler] = "off"
      /\ args'[Handler].old = NoConfig /\ args'[Handler].new = NoConfig
  BY ActorFacts, GivesUp DEF Store, Actors
<1>2. GuardAsBefore
  BY ActorFacts DEF Store, GuardAsBefore, Files, Actors
<1> QED
  BY <1>1, <1>2, HandlerQuiet DEF Store, Applying, Undoing

(* Nor does the end of open_budget, a guard armed or stopped half way.     *)
LEMMA OpenEndsAreQuiet ==
  ASSUME Before, Arm \/ OpenFails
  PROVE  ChangeInvariant'
<1>1. /\ Finish(Handler) /\ at[Handler] \in {"open", "arm"} \cup Renewing
      /\ UNCHANGED <<unsure, files, ledger, platform, lastRun>>
      /\ UNCHANGED guard \/ StopGuard(FALSE) \/ ArmGuard
  BY DEF Arm, OpenFails, Fail
<1>2. /\ OthersStay(Handler) /\ at'[Handler] = "off"
      /\ args'[Handler].old = NoConfig /\ args'[Handler].new = NoConfig
  BY <1>1, ActorFacts, GivesUp DEF Actors
<1>3. at[Handler] \notin Applying \cup Undoing /\ at[Handler] # "off"
  BY <1>1 DEF Applying, Undoing, Renewing
<1>4. GuardAsBefore
  BY <1>1, SameGuard
<1> QED
  BY <1>1, <1>2, <1>3, <1>4, HandlerQuiet

(* A refused change is no change.                                          *)
LEMMA RefuseIsQuiet ==
  ASSUME Before, NEW a \in Actors, RefuseApply(a)
  PROVE  ChangeInvariant'
<1>1. /\ OthersStay(a) /\ at'[a] = "off"
      /\ args'[a].old = NoConfig /\ args'[a].new = NoConfig
  BY GivesUp DEF RefuseApply, Fail
<1>2. GuardAsBefore
  BY SameGuard DEF RefuseApply, installVars
<1>3. CASE a = Handler
  BY <1>1, <1>2, <1>3, HandlerQuiet DEF RefuseApply, installVars, Applying, Undoing
<1>4. CASE a \in Provisioners
  BY <1>1, <1>2, <1>4, ThreadQuiet DEF RefuseApply, installVars, Applying, Undoing
<1> QED
  BY <1>3, <1>4 DEF Actors

(* A thread begins: none is at work beside it.                             *)
LEMMA InitializeIsQuiet ==
  ASSUME Before, NEW p \in Provisioners, Initialize(p)
  PROVE  ChangeInvariant'
<1>1. p \in Actors /\ p # Handler
  BY ServiceAssumption DEF Actors
<1>2. OthersStay(p) /\ at'[p] = "begin" /\ args' = args
  BY <1>1, ActorGoesOn DEF Initialize
<1>3. GuardAsBefore
  BY SameGuard DEF Initialize, installVars
<1>4. ThreadsLate'
  <2>1. \A q \in Provisioners : q # p => at'[q] = "off"
    BY <1>2 DEF Before, OneAtATime
  <2>2. at'[Handler] = "off" /\ phase' = "initializing"
    BY <1>1, <1>2 DEF Initialize, OthersStay, Actors
  <2> QED
    BY <2>1, <2>2 DEF ThreadsLate
<1>5. RunsTold'
  BY <1>1, <1>2, <1>3, QuietRuns DEF Initialize, installVars
<1>6. unsure' \/ GuardAgrees'
  BY <1>1, <1>2, <1>3, QuietAgrees DEF Initialize, Applying, Undoing
<1>7. ASSUME NEW b \in Actors
      PROVE  WrittenBy(b)'
  <2>1. CASE b = p
    BY <1>1, <1>2, <2>1 DEF WrittenBy
  <2>2. CASE b # p
    BY <1>1, <1>2, <2>2, OthersWritten DEF Initialize, installVars
  <2> QED
    BY <2>1, <2>2
<1> QED
  BY <1>4, <1>5, <1>6, <1>7 DEF ChangeInvariant, Actors

(* A thread that goes on, its arguments and the guard as they were.        *)
LEMMA ThreadMovesQuietly ==
  ASSUME Before, NEW p \in Provisioners, NEW stage, Goto(p, stage), Keep,
         at[p] \notin {"off"} \cup Applying \cup Undoing, stage \notin Applying \cup Undoing,
         GuardAsBefore, lastRun' = lastRun
  PROVE  ChangeInvariant'
<1>1. OthersStay(p) /\ at'[p] = stage /\ args' = args
  BY ActorFacts, ActorGoesOn DEF Keep, Actors
<1> QED
  BY <1>1, ThreadQuiet DEF Keep

(* So go the steps after the guard's.                                      *)
LEMMA ThreadStepsAreQuiet ==
  ASSUME Before, NEW p \in Provisioners,
         \/ CheckIdle(p) \/ RunPlatform(p) \/ InspectTeam(p) \/ Register(p)
         \/ WriteMarker(p) \/ Create(p) \/ InstallWorkers(p) \/ Configure(p)
         \/ Connect(p)
  PROVE  ChangeInvariant'
<1> USE DEF Applying, Undoing
<1>1. CASE CheckIdle(p) \/ InspectTeam(p)
  <2>1. GuardAsBefore /\ lastRun' = lastRun
    BY <1>1, SameGuard DEF CheckIdle, InspectTeam, installVars
  <2>2. PICK stage \in {"platform", "connect", "workers", "create", "routes"} : Goto(p, stage)
    BY <1>1 DEF CheckIdle, InspectTeam, NextOfTeam
  <2> QED
    BY <1>1, <2>1, <2>2, ThreadMovesQuietly DEF CheckIdle, InspectTeam
<1>2. CASE RunPlatform(p)
  <2>1. GuardAsBefore
    BY <1>2, SameGuard DEF RunPlatform
  <2> QED
    BY <1>2, <2>1, ThreadMovesQuietly DEF RunPlatform
<1>3. CASE Register(p)
  <2>1. GuardAsBefore /\ lastRun' = lastRun
    BY <1>3, SameGuard DEF Register, RegisterRoutes
  <2> QED
    BY <1>3, <2>1, ThreadMovesQuietly DEF Register
<1>4. CASE WriteMarker(p)
  <2>1. GuardAsBefore /\ lastRun' = lastRun
    BY <1>4, ActorFacts DEF WriteMarker, GuardAsBefore, Files, Actors
  <2> QED
    BY <1>4, <2>1, ThreadMovesQuietly DEF WriteMarker
<1>5. CASE Create(p)
  <2>1. GuardAsBefore /\ lastRun' = lastRun
    BY <1>5, ActorFacts DEF Create, CreateTeam, GuardAsBefore, Files, Actors
  <2> QED
    BY <1>5, <2>1, ThreadMovesQuietly DEF Create
<1>6. CASE InstallWorkers(p) \/ Connect(p)
  <2>1. GuardAsBefore /\ lastRun' = lastRun
    BY <1>6, SameGuard DEF InstallWorkers, InstallCollaboration, Connect, ConnectConsole
  <2> QED
    BY <1>6, <2>1, ThreadMovesQuietly DEF InstallWorkers, Connect
<1>7. CASE Configure(p)
  <2>1. GuardAsBefore /\ lastRun' = lastRun
    BY <1>7, ActorFacts DEF Configure, ConfigureTeam, GuardAsBefore, Files, Actors
  <2> QED
    BY <1>7, <2>1, ThreadMovesQuietly DEF Configure
<1> QED
  BY <1>1, <1>2, <1>3, <1>4, <1>5, <1>6, <1>7

(* ... and so does the last one.                                           *)
LEMMA CompleteIsQuiet ==
  ASSUME Before, NEW p \in Provisioners, Complete(p)
  PROVE  ChangeInvariant'
<1>1. /\ OthersStay(p) /\ at'[p] = "off"
      /\ args'[p].old = NoConfig /\ args'[p].new = NoConfig
  BY ActorFacts, GivesUp DEF Complete, Actors
<1>2. GuardAsBefore
  BY SameGuard DEF Complete, installVars
<1> QED
  BY <1>1, <1>2, ThreadQuiet DEF Complete, installVars, Applying, Undoing

(* A step of whichever actor.                                              *)
LEMMA ActorChanges ==
  ASSUME Before, NEW a \in Actors, OthersStay(a), at[a] # "off",
         a \in Provisioners =>
           at'[a] \in Late \cup {"off"} \/ (at[a] \notin Late /\ phase' = phase),
         a \in Provisioners /\ at[a] \in Late => UNCHANGED files,
         RunsTold', WrittenBy(a)', unsure' \/ GuardAgrees'
  PROVE  ChangeInvariant'
<1>1. CASE a = Handler
  BY <1>1, HandlerChanges
<1>2. CASE a \in Provisioners
  BY <1>2, ThreadChanges
<1> QED
  BY <1>1, <1>2 DEF Actors

(* Nobody is at work beside a thread that is not late, and nobody beside a *)
(* change while the guard is sure.                                         *)
LEMMA ThreadAlone ==
  ASSUME Before, NEW p \in Provisioners, at[p] \notin Late \cup {"off"},
         NEW b \in Actors, b # p
  PROVE  at[b] = "off"
BY DEF Before, OneAtATime, ChangeInvariant, ThreadsLate, Actors

(* ... and for a change, whoever makes it.                                 *)
LEMMA ChangeAlone ==
  ASSUME Before, GuardAgrees, NEW a \in Actors, at[a] \in Applying \cup Undoing,
         at[a] \notin Late \/ a = Handler, NEW b \in Actors, b # a
  PROVE  at[b] = "off"
<1>1. CASE a = Handler
  BY <1>1 DEF GuardAgrees, ChangesAlone, Actors
<1>2. CASE a \in Provisioners
  <2>1. at[a] # "off" /\ (a = Handler => FALSE)
    BY <1>2, ServiceAssumption DEF Applying, Undoing
  <2> QED
    BY <1>2, <2>1, ThreadAlone
<1> QED
  BY <1>1, <1>2 DEF Actors

(* Then what holds of the guard is about one actor.                        *)
LEMMA AgreesAlone ==
  ASSUME Before, NEW a \in Actors, OthersStay(a), \A b \in Actors : b # a => at[b] = "off",
         at'[a] \in {"file", "env", "swap"} =>
           guard'.exists /\ ledger'[guard'.cfg.run] = "closed",
         a \in Provisioners /\ at'[a] \in Late =>
           /\ files'.env.model = files'.guard.model
           /\ \/ args'[a].old.model = files'.guard.model
              \/ guard'.exists => guard'.cfg.model = files'.guard.model,
         at'[a] \notin Undoing => GuardKnown'
  PROVE  GuardAgrees'
<1>1. \A b \in Actors : b # a => at'[b] = "off"
  BY DEF OthersStay
<1>2. ChangesAlone'
  BY <1>1, ServiceAssumption DEF ChangesAlone, Applying, Undoing, Actors
<1>3. Replaceable'
  BY <1>1 DEF Replaceable, Actors
<1>4. ThreadRestores'
  BY <1>1 DEF ThreadRestores, Late, Actors
<1> QED
  BY <1>2, <1>3, <1>4 DEF GuardAgrees, Actors

(* A guard started with the configuration of its file.                     *)
LEMMA RunStarts ==
  ASSUME Before, RunGuard
  PROVE  /\ guard'.exists /\ guard'.cfg = files.env /\ files.env \in Configs
         /\ ledger'[files.env.run] # "none"
         /\ ledger[files.env.run] = "closed" => ledger'[files.env.run] = "closed"
<1>1. files.env \in Configs /\ files.env.run \in Runs /\ Started(files.env)
  BY RunsOfGuard DEF Before, RunGuard
<1> PICK c : c = files.env
  OBVIOUS
<1> QED
  BY <1>1, GuardStarted, InstallationFacts DEF Before

(* The runs after a guard is started, stopped or left, no configuration    *)
(* new.                                                                    *)
LEMMA SameRuns ==
  ASSUME Before, NEW a \in Actors, OthersStay(a), lastRun' = lastRun,
         {args'[a].old, args'[a].new, files'.guard, files'.env} \subseteq
           {args[a].old, args[a].new, files.guard, files.env, NoConfig},
         \/ RunGuard
         \/ UNCHANGED ledger /\ UNCHANGED guard
         \/ UNCHANGED ledger /\ \E removed \in BOOLEAN : StopGuard(removed)
  PROVE  RunsTold'
<1>1. guard'.cfg \in {guard.cfg, files.env, NoConfig}
  <2>1. CASE RunGuard
    BY <2>1, RunStarts
  <2>2. ASSUME NEW removed \in BOOLEAN, StopGuard(removed)
        PROVE  guard'.cfg \in {guard.cfg, NoConfig}
    BY <2>2, ActorFacts DEF StopGuard, NoContainer, Containers
  <2> QED
    BY <2>1, <2>2
<1>2. guard'.exists => ledger'[guard'.cfg.run] # "none"
  <2>1. CASE RunGuard
    BY <2>1, RunStarts
  <2>2. CASE UNCHANGED ledger /\ UNCHANGED guard
    BY <2>2, LedgerKept
  <2>3. CASE UNCHANGED ledger /\ \E removed \in BOOLEAN : StopGuard(removed)
    <3>1. guard'.exists => guard.exists /\ guard'.cfg = guard.cfg
      BY <2>3, ActorFacts DEF StopGuard, NoContainer, Containers
    <3> QED
      BY <2>3, <3>1, LedgerKept
  <2> QED
    BY <2>1, <2>2, <2>3
<1> PICK fresh : fresh = NoConfig
  OBVIOUS
<1>3. {args'[a].old, args'[a].new, files'.guard, files'.env, guard'.cfg} \subseteq
        {args[a].old, args[a].new, files.guard, files.env, guard.cfg, NoConfig, fresh}
  BY <1>1
<1> QED
  BY <1>2, <1>3, RunsStayTold

(* Nothing to apply, or a model is to be applied and nobody is at work.    *)
LEMMA BeginApplyChanges ==
  ASSUME Before, NEW a \in Actors, BeginApply(a)
  PROVE  ChangeInvariant'
<1> PICK m : m = args[a].model
  OBVIOUS
<1>1. PICK fresh : fresh = [run |-> lastRun + 1, model |-> m]
  OBVIOUS
<1>2. /\ at[a] = "apply" /\ phase' = phase /\ UNCHANGED <<files, guard, ledger, platform>>
      /\ args[a] \in ArgRows /\ args \in [Actors -> ArgRows] /\ at \in [Actors -> Stages]
  BY ActorFacts DEF BeginApply
<1>3. GuardAsBefore
  BY <1>2, SameGuard
<1>4. CASE /\ Goto(a, AfterApply(a)) /\ args' = [args EXCEPT ![a].new = files.guard]
           /\ UNCHANGED <<lastRun, unsure>>
  <2> PICK x : x = [args[a] EXCEPT !.new = files.guard]
    OBVIOUS
  <2>1. x.old = args[a].old /\ x.new = files.guard
    BY <1>2 DEF ArgRows
  <2>2. args' = [args EXCEPT ![a] = x]
    BY <1>4
  <2>3. OthersStay(a) /\ at'[a] = AfterApply(a) /\ args'[a] = x
    BY <1>2, <1>4, <2>2 DEF Goto, OthersStay
  <2>4. CASE a = Handler
    <3>1. at'[Handler] = "store"
      BY <2>3, <2>4 DEF AfterApply
    <3> QED
      BY <1>2, <1>3, <1>4, <2>1, <2>3, <2>4, <3>1, HandlerQuiet DEF Applying, Undoing
  <2>5. CASE a \in Provisioners
    <3>1. at'[a] = "team"
      BY <2>3, <2>5, ServiceAssumption DEF AfterApply
    <3> QED
      BY <1>2, <1>3, <1>4, <2>1, <2>3, <2>5, <3>1, ThreadQuiet DEF Applying, Undoing
  <2> QED
    BY <2>4, <2>5 DEF Actors
<1>5. CASE /\ Prepared /\ Idle(TRUE) /\ lastRun' = lastRun + 1 /\ Goto(a, "file")
           /\ args' = [args EXCEPT ![a].old = files.guard, ![a].new = fresh]
           /\ unsure' = (unsure \/ \E p \in Provisioners \ {a} : at[p] # "off")
  <2> PICK x : x = [args[a] EXCEPT !.old = files.guard, !.new = fresh]
    OBVIOUS
  <2>1. x.old = files.guard /\ x.new = fresh /\ fresh.run = lastRun + 1
    BY <1>1, <1>2 DEF ArgRows
  <2>2. args' = [args EXCEPT ![a] = x]
    BY <1>2, <1>5, Zenon
  <2>3. OthersStay(a) /\ at'[a] = "file" /\ args'[a] = x
    BY <1>2, <1>5, <2>2 DEF Goto, OthersStay
  <2>4. RunsTold'
    <3>1. {args'[a].old, args'[a].new, files'.guard, files'.env, guard'.cfg} \subseteq
            {args[a].old, args[a].new, files.guard, files.env, guard.cfg, NoConfig, fresh}
      BY <1>2, <2>1, <2>3
    <3>2. guard'.exists => ledger'[guard'.cfg.run] # "none"
      BY <1>2, LedgerKept
    <3> QED
      BY <1>5, <2>1, <2>3, <3>1, <3>2, RunsStayTold
  <2>5. unsure' \/ GuardAgrees'
    <3> SUFFICES ASSUME ~unsure' PROVE GuardAgrees'
      OBVIOUS
    <3>1. GuardAgrees /\ \A p \in Provisioners : p # a => at[p] = "off"
      BY <1>5 DEF Before, ChangeInvariant
    <3>2. \A b \in Actors : b # a => at[b] = "off"
      <4>1. CASE a = Handler
        BY <3>1, <4>1 DEF Actors
      <4>2. CASE a \in Provisioners
        BY <1>2, <4>2, ThreadAlone DEF Late
      <4> QED
        BY <4>1, <4>2 DEF Actors
    <3>3. guard.exists /\ ledger[guard.cfg.run] = "closed"
      <4>1. guard.up /\ ~RunOpen /\ guard.exists /\ guard.cfg.run \in Runs
        BY <1>5, RunsOfGuard DEF Idle, Before, InstallationInvariant, InOrder
      <4>2. ledger[guard.cfg.run] \in {"none", "open", "closed"}
        BY <4>1, ActorFacts
      <4> QED
        BY <4>1, <4>2 DEF RunOpen, Before, ChangeInvariant, RunsTold
    <3>4. \A b \in Actors : at[b] \notin Undoing
      BY <1>2, <3>2 DEF Undoing
    <3>5. GuardKnown'
      BY <1>2, <3>1, <3>4 DEF GuardAgrees, GuardKnown, Agrees
    <3>6. at'[a] \notin Late
      BY <2>3 DEF Late
    <3> QED
      BY <1>2, <2>3, <3>2, <3>3, <3>5, <3>6, AgreesAlone
  <2>6. WrittenBy(a)'
    BY <2>3 DEF WrittenBy, Late, Renewing
  <2> QED
    BY <1>2, <2>3, <2>4, <2>5, <2>6, ActorChanges DEF Late
<1> QED
  BY <1>1, <1>4, <1>5 DEF BeginApply

(* What an actor wrote, and what holds of the guard, where both are known. *)
LEMMA KnownBefore ==
  ASSUME Before, NEW a \in Actors
  PROVE  /\ WrittenBy(a) /\ RunsTold /\ (unsure \/ GuardAgrees)
         /\ at[a] \in Applying \cup Undoing =>
              args[a].old \in Configs /\ args[a].new \in Configs
BY DEF Before, ChangeInvariant, InstallationInvariant, InHand

(* The guard's files are written while the guard with a closed run is      *)
(* there.                                                                  *)
LEMMA ApplyWrites ==
  ASSUME Before, NEW a \in Actors,
         \/ WriteFile(a, "file", "env", args[a].new)
         \/ WriteEnv(a, "env", "swap", args[a].new)
  PROVE  ChangeInvariant'
<1>1. /\ at[a] \in {"file", "env"} /\ at'[a] \in {"env", "swap"} /\ OthersStay(a) /\ Keep
      /\ UNCHANGED <<guard, ledger, platform, lastRun>> /\ args' = args
      /\ at'[a] = "swap" => at[a] = "env"
  BY ActorGoesOn DEF WriteFile, WriteEnv, Keep
<1>2. /\ files'.guard = args[a].new
      /\ files'.env \in {files.env, args[a].new}
      /\ at'[a] = "swap" => files'.env = args[a].new
  BY ActorFacts, KnownBefore, <1>1 DEF WriteFile, WriteEnv, Files, WrittenBy
<1>3. RunsTold'
  BY <1>1, <1>2, SameRuns
<1>4. WrittenBy(a)'
  BY <1>1, <1>2 DEF WrittenBy, Late, Renewing
<1>5. unsure' \/ GuardAgrees'
  <2> SUFFICES ASSUME GuardAgrees PROVE GuardAgrees'
    BY <1>1, KnownBefore DEF Keep
  <2>1. \A b \in Actors : b # a => at[b] = "off"
    BY <1>1, ChangeAlone DEF Applying, Late
  <2>2. guard.exists /\ ledger[guard.cfg.run] = "closed"
    BY <1>1 DEF GuardAgrees, Replaceable
  <2>3. GuardKnown'
    BY <1>1, <2>2 DEF GuardKnown, Agrees
  <2>4. at'[a] \notin Late
    BY <1>1 DEF Late
  <2> QED
    BY <1>1, <2>1, <2>2, <2>3, <2>4, AgreesAlone
<1> QED
  BY <1>1, <1>3, <1>4, <1>5, ActorChanges DEF Late, Keep

(* The guard is stopped, or started with the new configuration.            *)
LEMMA ApplySwaps ==
  ASSUME Before, NEW a \in Actors,
         Swap(a, "swap", "start") \/ StartNew(a, "start", "await")
  PROVE  ChangeInvariant'
<1>1. /\ at[a] \in {"swap", "start"} /\ at'[a] \in {"start", "await"} /\ OthersStay(a)
      /\ phase' = phase /\ unsure' = unsure /\ args' = args
      /\ files' = files /\ lastRun' = lastRun
  BY ActorGoesOn DEF Swap, StartNew, Keep
<1>2. files.guard = args[a].new /\ files.env = args[a].new
  BY <1>1, KnownBefore DEF WrittenBy
<1>3. \/ RunGuard
      \/ UNCHANGED ledger /\ StopGuard(TRUE)
  BY DEF Swap, StartNew
<1>4. RunsTold'
  BY <1>1, <1>3, SameRuns
<1>5. WrittenBy(a)'
  BY <1>1, <1>2 DEF WrittenBy, Late, Renewing
<1>6. GuardKnown'
  BY <1>1, <1>2, <1>3, RunStarts DEF GuardKnown, Agrees, StopGuard, NoContainer
<1>7. unsure' \/ GuardAgrees'
  <2> SUFFICES ASSUME GuardAgrees PROVE GuardAgrees'
    BY <1>1, KnownBefore
  <2>1. \A b \in Actors : b # a => at[b] = "off"
    BY <1>1, ChangeAlone DEF Applying, Late
  <2>2. at'[a] \notin Late \cup {"file", "env", "swap"}
    BY <1>1 DEF Late
  <2> QED
    BY <1>1, <1>6, <2>1, <2>2, AgreesAlone
<1> QED
  BY <1>1, <1>4, <1>5, <1>7, ActorChanges DEF Late

(* A guard that answers with the run of a configuration in use has that    *)
(* configuration.                                                          *)
LEMMA AnswersTell ==
  ASSUME Before, NEW c \in InUse, Answers(c)
  PROVE  guard.exists /\ guard.cfg = c
BY DEF Before, ChangeInvariant, RunsTold, InUse, Answers, InstallationInvariant, InOrder

(* The new guard answers: it is the one of the files.                      *)
LEMMA AppliedChanges ==
  ASSUME Before, NEW a \in Actors, Applied(a)
  PROVE  ChangeInvariant'
<1>1. /\ at[a] = "await" /\ at'[a] = AfterApply(a) /\ OthersStay(a)
      /\ phase' = phase /\ args' = args /\ UNCHANGED installVars
  BY ActorGoesOn DEF Applied
<1>2. files.guard = args[a].new /\ files.env = args[a].new
  BY <1>1, KnownBefore DEF WrittenBy
<1>3. guard.exists /\ guard.cfg = files.guard
  BY <1>2, AnswersTell DEF Applied, InUse
<1>4. RunsTold'
  BY <1>1, SameRuns DEF installVars
<1>5. /\ at'[a] \in {"store", "team"} /\ (a = Handler => at'[a] = "store")
      /\ at'[a] \notin Late \cup Applying \cup Undoing \cup Renewing
  BY <1>1 DEF AfterApply, Late, Applying, Undoing, Renewing
<1>6. WrittenBy(a)'
  BY <1>5 DEF WrittenBy, Applying, Undoing
<1>7. \A b \in Actors : b # a => at[b] \in Late \cup {"off"} /\ (b = Handler => at[b] = "off")
  <2>1. CASE a = Handler
    BY <1>1, <2>1 DEF Before, ChangeInvariant, ThreadsLate, Actors
  <2>2. CASE a \in Provisioners
    BY <1>1, <2>2, ThreadAlone DEF Late
  <2> QED
    BY <2>1, <2>2 DEF Actors
<1>8. \A b \in Actors : /\ at'[b] \notin {"file", "env", "swap"}
                        /\ b = Handler => at'[b] \notin Applying \cup Undoing
  <2>1. at'[a] \notin {"file", "env", "swap"} /\ at'[a] \notin Applying \cup Undoing
    BY <1>5 DEF Applying
  <2>2. ASSUME NEW b \in Actors, b # a
        PROVE  /\ at'[b] \notin {"file", "env", "swap"}
               /\ b = Handler => at'[b] \notin Applying \cup Undoing
    <3>1. at'[b] = at[b]
      BY <1>1, <2>2 DEF OthersStay
    <3>2. at[b] \in Late \cup {"off"} /\ (b = Handler => at[b] = "off")
      BY <1>7, <2>2
    <3> QED
      BY <3>1, <3>2 DEF Late, Applying, Undoing
  <2> QED
    BY <2>1, <2>2
<1>9. GuardAgrees'
  <2>1. GuardKnown' /\ ThreadRestores'
    BY <1>1, <1>2, <1>3 DEF GuardKnown, ThreadRestores, Agrees, installVars
  <2> QED
    BY <1>8, <2>1 DEF GuardAgrees, ChangesAlone, Replaceable, Actors
<1> QED
  BY <1>1, <1>4, <1>5, <1>6, <1>9, ActorChanges DEF Late, installVars

(* A command of apply_model fails: the rollback begins.                    *)
LEMMA ApplyFailsChanges ==
  ASSUME Before, NEW a \in Actors, ApplyFails(a)
  PROVE  ChangeInvariant'
<1>1. /\ at[a] \in Applying /\ at'[a] = "undo file" /\ OthersStay(a)
      /\ phase' = phase /\ unsure' = unsure /\ args' = args
      /\ files' = files /\ lastRun' = lastRun
  BY ActorGoesOn DEF ApplyFails, Keep
<1>2. \/ RunGuard
      \/ UNCHANGED ledger /\ UNCHANGED guard
      \/ UNCHANGED ledger /\ StopGuard(FALSE)
  BY DEF ApplyFails
<1>3. RunsTold'
  BY <1>1, <1>2, SameRuns
<1>4. WrittenBy(a)'
  BY <1>1 DEF WrittenBy, Late, Renewing
<1>5. unsure' \/ GuardAgrees'
  <2> SUFFICES ASSUME GuardAgrees PROVE GuardAgrees'
    BY <1>1, KnownBefore
  <2>1. \A b \in Actors : b # a => at[b] = "off"
    BY <1>1, ChangeAlone DEF Applying, Late
  <2>2. at'[a] \notin Late \cup {"file", "env", "swap"} /\ at'[a] \in Undoing
    BY <1>1 DEF Late, Undoing
  <2> QED
    BY <1>1, <2>1, <2>2, AgreesAlone
<1> QED
  BY <1>1, <1>3, <1>4, <1>5, ActorChanges DEF Late, Applying

(* The rollback: its files, while nobody else is at work...                *)
LEMMA UndoWrites ==
  ASSUME Before, NEW a \in Actors,
         WriteFile(a, "undo file", "undo env", args[a].old) \/ UndoEnv(a)
  PROVE  ChangeInvariant'
<1>1. /\ at[a] \in {"undo file", "undo env"} /\ OthersStay(a)
      /\ at'[a] = IF at[a] = "undo file" THEN "undo env" ELSE "undo swap"
      /\ unsure' = unsure /\ args' = args /\ UNCHANGED <<guard, ledger, platform, lastRun>>
      /\ at'[a] = "undo env" => phase' = phase
  BY ActorGoesOn DEF WriteFile, UndoEnv, Keep
<1>2. /\ files'.guard = args[a].old
      /\ files'.env \in {files.env, args[a].old}
      /\ at'[a] = "undo swap" => files'.env = args[a].old
  BY ActorFacts, KnownBefore, <1>1 DEF WriteFile, UndoEnv, Files, WrittenBy
<1>3. RunsTold'
  BY <1>1, <1>2, SameRuns
<1>4. WrittenBy(a)'
  BY <1>1, <1>2 DEF WrittenBy, Late, Renewing
<1>5. unsure' \/ GuardAgrees'
  <2> SUFFICES ASSUME GuardAgrees PROVE GuardAgrees'
    BY <1>1, KnownBefore
  <2>1. \A b \in Actors : b # a => at[b] = "off"
    BY <1>1, ChangeAlone DEF Undoing, Late
  <2>2. at'[a] \in Undoing /\ at'[a] \notin {"file", "env", "swap"}
    BY <1>1 DEF Undoing
  <2>3. at'[a] \in Late => /\ files'.env.model = files'.guard.model
                           /\ args'[a].old.model = files'.guard.model
    BY <1>1, <1>2 DEF Late
  <2> QED
    BY <1>1, <2>1, <2>2, <2>3, AgreesAlone
<1> QED
  BY <1>1, <1>3, <1>4, <1>5, ActorChanges DEF Late

(* ... and the guard, which is stopped or started with them.               *)
LEMMA UndoSwaps ==
  ASSUME Before, NEW a \in Actors, UndoSwap(a) \/ StartNew(a, "undo start", "undo await")
  PROVE  ChangeInvariant'
<1>1. /\ at[a] \in {"undo swap", "undo start"} /\ at'[a] \in {"undo start", "undo await"}
      /\ OthersStay(a) /\ unsure' = unsure /\ args' = args
      /\ files' = files /\ lastRun' = lastRun /\ phase' = phase
  BY ActorGoesOn DEF UndoSwap, StartNew, Keep
<1>2. \/ RunGuard
      \/ UNCHANGED ledger /\ UNCHANGED guard
      \/ UNCHANGED ledger /\ \E removed \in BOOLEAN : StopGuard(removed)
  BY DEF UndoSwap, StartNew
<1>3. RunsTold'
  BY <1>1, <1>2, SameRuns
<1>4. WrittenBy(a)'
  BY <1>1, KnownBefore DEF WrittenBy, Late, Renewing
<1>5. at[a] \in Late /\ at'[a] \in Late /\ at'[a] \in Undoing
      /\ at'[a] \notin {"file", "env", "swap"}
  BY <1>1 DEF Late, Undoing
<1>6. unsure' \/ GuardAgrees'
  <2> SUFFICES ASSUME GuardAgrees PROVE GuardAgrees'
    BY <1>1, KnownBefore
  <2>1. CASE a = Handler
    <3>1. \A b \in Actors : b # a => at[b] = "off"
      BY <1>1, <2>1, ChangeAlone DEF Undoing
    <3> QED
      BY <1>1, <1>5, <2>1, <3>1, ServiceAssumption, AgreesAlone
  <2>2. CASE a \in Provisioners
    <3>1. at[Handler] \notin Applying \cup Undoing
      BY <1>1, <2>2 DEF GuardAgrees, ChangesAlone
    <3>2. \A q \in Provisioners : q # a => at[q] = "off"
      BY <1>1, <2>2 DEF Before, OneAtATime
    <3>3. /\ at'[Handler] = at[Handler]
          /\ \A q \in Provisioners : q # a => at'[q] = "off"
      BY <1>1, <2>2, <3>2, ServiceAssumption DEF OthersStay, Actors
    <3>4. ChangesAlone' /\ Replaceable'
      BY <1>5, <3>1, <3>3 DEF ChangesAlone, Replaceable, Applying, Actors
    <3>5. /\ files.env.model = files.guard.model
          /\ \/ args[a].old.model = files.guard.model
             \/ guard.exists => guard.cfg.model = files.guard.model
      BY <1>5, <2>2 DEF GuardAgrees, ThreadRestores
    <3>6. guard'.exists => guard'.cfg = files.env \/ (guard.exists /\ guard'.cfg = guard.cfg)
      <4>1. CASE RunGuard
        BY <4>1, RunStarts
      <4>2. ASSUME NEW removed \in BOOLEAN, StopGuard(removed)
            PROVE  guard'.exists => guard.exists /\ guard'.cfg = guard.cfg
        BY <4>2, ActorFacts DEF StopGuard, NoContainer, Containers
      <4> QED
        BY <1>2, <4>1, <4>2
    <3>7. ThreadRestores'
      <4>1. /\ files'.env.model = files'.guard.model
            /\ \/ args'[a].old.model = files'.guard.model
               \/ guard'.exists => guard'.cfg.model = files'.guard.model
        BY <1>1, <3>5, <3>6
      <4> QED
        BY <3>3, <4>1 DEF ThreadRestores, Late
    <3>8. \E b \in Actors' : at'[b] \in Undoing
      BY <1>5 DEF Actors
    <3> QED
      BY <3>4, <3>7, <3>8 DEF GuardAgrees
  <2> QED
    BY <2>1, <2>2 DEF Actors
<1> QED
  BY <1>1, <1>3, <1>4, <1>5, <1>6, ActorChanges

(* The rollback ends: a guard that answers is the one of before.           *)
LEMMA UndoneChanges ==
  ASSUME Before, NEW a \in Actors, Undone(a)
  PROVE  ChangeInvariant'
<1>1. /\ at[a] \in {"undo start", "undo await"} /\ OthersStay(a) /\ at'[a] = "off"
      /\ args'[a].old = NoConfig /\ args'[a].new = NoConfig
      /\ unsure' = (at[a] = "undo start" \/ ~Answers(args[a].old) \/ unsure)
      /\ UNCHANGED installVars
  BY GivesUp DEF Undone, Fail
<1>2. RunsTold'
  BY <1>1, SameRuns DEF installVars
<1>3. WrittenBy(a)'
  BY <1>1 DEF WrittenBy, Late, Renewing
<1>4. ASSUME ~unsure'
      PROVE  GuardAgrees'
  <2>1. GuardAgrees /\ Answers(args[a].old)
    BY <1>1, <1>4, KnownBefore
  <2>2. guard.exists /\ guard.cfg = args[a].old
    BY <2>1, AnswersTell DEF InUse
  <2>3. GuardKnown'
    <3>1. CASE a = Handler
      <4>1. files.guard = args[a].old
        BY <1>1, <3>1, KnownBefore DEF WrittenBy, Late
      <4> QED
        BY <1>1, <2>2, <4>1 DEF GuardKnown, Agrees, installVars
    <3>2. CASE a \in Provisioners
      <4>1. guard.cfg.model = files.guard.model
        BY <1>1, <2>1, <2>2, <3>2 DEF GuardAgrees, ThreadRestores, Late
      <4> QED
        BY <1>1, <2>2, <4>1 DEF GuardKnown, Agrees, installVars
    <3> QED
      BY <3>1, <3>2 DEF Actors
  <2>4. \A b \in Actors : at'[b] = at[b] \/ at'[b] = "off"
    BY <1>1 DEF OthersStay
  <2>5. ChangesAlone' /\ Replaceable'
    BY <1>1, <2>1, <2>4
    DEF GuardAgrees, ChangesAlone, Replaceable, Applying, Undoing, Actors, installVars
  <2>6. ThreadRestores'
    <3>1. ASSUME NEW q \in Provisioners, at'[q] \in Late
          PROVE  at[q] \in Late /\ args'[q] = args[q]
      BY <1>1, <3>1 DEF OthersStay, Late, Actors
    <3> QED
      BY <1>1, <2>1, <3>1 DEF GuardAgrees, ThreadRestores, installVars
  <2> QED
    BY <2>3, <2>5, <2>6 DEF GuardAgrees
<1> QED
  BY <1>1, <1>2, <1>3, <1>4, ActorChanges DEF installVars, Late

(* Everything that apply_model does.                                       *)
LEMMA ApplyStepChanges ==
  ASSUME Before, NEW a \in Actors, ApplyStep(a)
  PROVE  ChangeInvariant'
<1>1. CASE Apply(a)
  BY <1>1, ApplyWrites, ApplySwaps DEF Apply
<1>2. CASE Undo(a)
  BY <1>2, UndoWrites, UndoSwaps DEF Undo
<1> QED
  BY <1>1, <1>2, BeginApplyChanges, RefuseIsQuiet, AppliedChanges, ApplyFailsChanges,
     UndoneChanges
  DEF ApplyStep

(* A step of open_budget beside which a thread may be at the end of its    *)
(* rollback: the files keep the model, and the guard gets no other.        *)
LEMMA RenewAgrees ==
  ASSUME Before, OthersStay(Handler), unsure' = unsure,
         at[Handler] \in Renewing, at'[Handler] \in Renewing \cup {"arm"},
         files'.guard.model = files.guard.model,
         files'.env.model = files.env.model \/ files'.env.model = files.guard.model,
         guard'.exists =>
           \/ guard.exists /\ guard'.cfg = guard.cfg
           \/ guard'.cfg.model = files.guard.model,
         \A r \in Runs : ledger[r] = "closed" => ledger'[r] = "closed",
         GuardKnown => GuardKnown'
  PROVE  unsure' \/ GuardAgrees'
<1> SUFFICES ASSUME GuardAgrees PROVE GuardAgrees'
  BY DEF Before, ChangeInvariant
<1>1. \A p \in Provisioners : at'[p] = at[p] /\ args'[p] = args[p]
  BY ServiceAssumption DEF OthersStay, Actors
<1>2. ChangesAlone'
  BY DEF ChangesAlone, Applying, Undoing, Renewing
<1>3. \A b \in Actors : at'[b] \notin {"file", "env", "swap"}
  <2>1. at'[Handler] \notin {"file", "env", "swap"} /\ at[Handler] # "off"
    BY DEF Renewing
  <2>2. \A p \in Provisioners : at[p] \in Late \cup {"off"}
    BY <2>1 DEF Before, ChangeInvariant, ThreadsLate
  <2> QED
    BY <1>1, <2>1, <2>2 DEF Late, Actors
<1>4. ThreadRestores'
  BY <1>1 DEF GuardAgrees, ThreadRestores
<1>5. (\A b \in Actors : at'[b] \notin Undoing) => \A b \in Actors : at[b] \notin Undoing
  <2>1. at[Handler] \notin Undoing
    BY DEF Undoing, Renewing
  <2> QED
    BY <1>1, <2>1 DEF Actors
<1> QED
  BY <1>2, <1>3, <1>4, <1>5 DEF GuardAgrees, Replaceable, Actors

(* open_budget finds the saved model in the files.                         *)
LEMMA BeginOpenChanges ==
  ASSUME Before, BeginOpen
  PROVE  ChangeInvariant'
<1>1. /\ at[Handler] = "open" /\ phase' = phase /\ unsure' = unsure
      /\ UNCHANGED <<files, guard, ledger, platform>>
      /\ files.guard.model = StoredModel /\ files.guard \in Configs
      /\ args[Handler] \in ArgRows /\ args \in [Actors -> ArgRows] /\ at \in [Actors -> Stages]
      /\ Handler \in Actors
  BY ActorFacts, RealConfigs DEF BeginOpen, PendingApply, Actors, Files, Prepared
<1>2. GuardAsBefore /\ files'.guard.model = StoredModel'
  BY <1>1, SameGuard DEF StoredModel
<1>3. CASE Finish(Handler) /\ UNCHANGED lastRun
  <2>1. /\ OthersStay(Handler) /\ at'[Handler] = "off"
        /\ args'[Handler].old = NoConfig /\ args'[Handler].new = NoConfig
    BY <1>1, <1>3, GivesUp
  <2> QED
    BY <1>1, <1>2, <1>3, <2>1, HandlerQuiet DEF Applying, Undoing
<1>4. CASE Goto(Handler, "arm") /\ UNCHANGED <<args, lastRun>>
  <2>1. OthersStay(Handler) /\ at'[Handler] = "arm" /\ args' = args
    BY <1>1, <1>4, ActorGoesOn
  <2> QED
    BY <1>1, <1>2, <1>4, <2>1, HandlerQuiet DEF Applying, Undoing
<1>5. CASE /\ lastRun' = lastRun + 1 /\ Goto(Handler, "new file")
           /\ args' = [args EXCEPT ![Handler].new = [files.guard EXCEPT !.run = lastRun + 1]]
  <2> PICK fresh : fresh = [files.guard EXCEPT !.run = lastRun + 1]
    OBVIOUS
  <2> PICK x : x = [args[Handler] EXCEPT !.new = fresh]
    OBVIOUS
  <2>1. fresh.run = lastRun + 1 /\ fresh.model = files.guard.model
    BY <1>1 DEF Configs
  <2>2. x.old = args[Handler].old /\ x.new = fresh
    BY <1>1 DEF ArgRows
  <2>3. args' = [args EXCEPT ![Handler] = x]
    BY <1>5
  <2>4. OthersStay(Handler) /\ at'[Handler] = "new file" /\ args'[Handler] = x
    BY <1>1, <1>5, <2>3 DEF Goto, OthersStay
  <2>5. RunsTold'
    <3>1. {args'[Handler].old, args'[Handler].new, files'.guard, files'.env, guard'.cfg} \subseteq
            {args[Handler].old, args[Handler].new, files.guard, files.env, guard.cfg,
             NoConfig, fresh}
      BY <1>1, <2>2, <2>4
    <3>2. guard'.exists => ledger'[guard'.cfg.run] # "none"
      BY <1>1, LedgerKept
    <3>3. lastRun' = lastRun + 1
      BY <1>5
    <3> QED
      BY <1>1, <2>1, <2>4, <3>1, <3>2, <3>3, RunsStayTold
  <2>6. WrittenBy(Handler)'
    BY <1>1, <1>2, <2>1, <2>2, <2>4 DEF WrittenBy, Late
  <2>7. unsure' \/ GuardAgrees'
    BY <1>1, <1>2, <2>4, QuietAgrees DEF Applying, Undoing
  <2> QED
    BY <1>1, <2>4, <2>5, <2>6, <2>7, HandlerChanges
<1> QED
  BY <1>3, <1>4, <1>5 DEF BeginOpen

(* budget.py new-run: the run is new, the model is the one of the files.   *)
LEMMA NewRunWrites ==
  ASSUME Before,
         \/ WriteFile(Handler, "new file", "new env", args[Handler].new)
         \/ WriteEnv(Handler, "new env", "new swap", args[Handler].new)
  PROVE  ChangeInvariant'
<1>1. Handler \in Actors
  BY DEF Actors
<1>2. /\ at[Handler] \in {"new file", "new env"} /\ OthersStay(Handler)
      /\ at'[Handler] = IF at[Handler] = "new file" THEN "new env" ELSE "new swap"
      /\ phase' = phase /\ unsure' = unsure /\ args' = args
      /\ UNCHANGED <<guard, ledger, platform, lastRun>>
  BY <1>1, ActorGoesOn DEF WriteFile, WriteEnv, Keep
<1>3. /\ files'.guard \in {files.guard, args[Handler].new}
      /\ files'.env \in {files.env, args[Handler].new}
      /\ files'.stored = files.stored
      /\ at[Handler] = "new env" => files'.env = args[Handler].new
      /\ files'.guard.model = files.guard.model
      /\ files'.env.model = files.env.model \/ files'.env.model = files.guard.model
      /\ files.guard.model = StoredModel
      /\ files'.env # files.env => files'.env.model = files.guard.model
      /\ args[Handler].new.model = files.guard.model
  <2>1. args[Handler].new.model = files.guard.model /\ files.guard.model = StoredModel
    BY <1>1, <1>2, KnownBefore DEF WrittenBy, Renewing
  <2> QED
    BY <1>1, <1>2, <2>1, ActorFacts DEF WriteFile, WriteEnv, Files
<1>4. RunsTold'
  BY <1>1, <1>2, <1>3, SameRuns
<1>5. WrittenBy(Handler)'
  BY <1>2, <1>3 DEF WrittenBy, Late, Renewing, StoredModel
<1>6. unsure' \/ GuardAgrees'
  <2>1. GuardKnown => GuardKnown'
    BY <1>2, <1>3 DEF GuardKnown, Agrees
  <2>2. at[Handler] \in Renewing /\ at'[Handler] \in Renewing
    BY <1>2 DEF Renewing
  <2> QED
    BY <1>2, <1>3, <2>1, <2>2, RenewAgrees
<1> QED
  BY <1>2, <1>4, <1>5, <1>6, HandlerChanges

(* ... and the guard of the new run replaces the old one.                  *)
LEMMA NewRunSwaps ==
  ASSUME Before,
         Swap(Handler, "new swap", "new start") \/ StartNew(Handler, "new start", "arm")
  PROVE  ChangeInvariant'
<1>1. Handler \in Actors
  BY DEF Actors
<1>2. /\ at[Handler] \in {"new swap", "new start"} /\ OthersStay(Handler)
      /\ at'[Handler] \in {"new start", "arm"}
      /\ phase' = phase /\ unsure' = unsure /\ args' = args
      /\ files' = files /\ lastRun' = lastRun
  BY <1>1, ActorGoesOn DEF Swap, StartNew, Keep
<1>3. \/ RunGuard
      \/ UNCHANGED ledger /\ StopGuard(TRUE)
  BY DEF Swap, StartNew
<1>4. /\ files.env = args[Handler].new /\ files.env.model = files.guard.model
      /\ files.guard.model = StoredModel /\ args[Handler].new.model = files.guard.model
  BY <1>1, <1>2, KnownBefore DEF WrittenBy, Renewing
<1>5. RunsTold'
  BY <1>1, <1>2, <1>3, SameRuns
<1>6. WrittenBy(Handler)'
  BY <1>2, <1>4 DEF WrittenBy, Late, Renewing, StoredModel
<1>7. unsure' \/ GuardAgrees'
  <2>1. /\ guard'.exists => guard'.cfg.model = files.guard.model
        /\ \A r \in Runs : ledger[r] = "closed" => ledger'[r] = "closed"
    <3>1. CASE RunGuard
      <4>1. PICK c : c = files.env
        OBVIOUS
      <4>2. c \in Configs /\ Started(c) /\ InstallTypeOK
        BY <3>1, <4>1, RunsOfGuard, InstallationFacts DEF Before, RunGuard
      <4> QED
        BY <1>4, <4>1, <4>2, GuardStarted
    <3>2. CASE UNCHANGED ledger /\ StopGuard(TRUE)
      BY <3>2 DEF StopGuard, NoContainer
    <3> QED
      BY <1>3, <3>1, <3>2
  <2>2. GuardKnown'
    BY <1>2, <1>4, <2>1 DEF GuardKnown, Agrees
  <2>3. at[Handler] \in Renewing /\ at'[Handler] \in Renewing \cup {"arm"}
    BY <1>2 DEF Renewing
  <2> QED
    BY <1>2, <2>1, <2>2, <2>3, RenewAgrees
<1> QED
  BY <1>2, <1>5, <1>6, <1>7, HandlerChanges

(* Everything the handler does.                                            *)
LEMMA HandlerStepChanges ==
  ASSUME Before, HandlerStep
  PROVE  ChangeInvariant'
<1>1. ASSUME NEW m \in Models, SaveModel(m) \/ ApplyModel(m)
      PROVE  ChangeInvariant'
  BY <1>1, RequestIsQuiet DEF SaveModel, ApplyModel
<1>2. CASE OpenBudget
  BY <1>2, RequestIsQuiet DEF OpenBudget
<1>3. CASE NewRun
  BY <1>3, NewRunWrites, NewRunSwaps DEF NewRun
<1> QED
  BY <1>1, <1>2, <1>3, BeginOpenChanges, OpenEndsAreQuiet, StoreIsQuiet, InitializeIsQuiet
  DEF HandlerStep

(* A thread before its change, alone at work: the guard is known after its *)
(* step.                                                                   *)
LEMMA ThreadSettles ==
  ASSUME Before, NEW p \in Provisioners, OthersStay(p),
         at[p] \in {"begin", "wait guard", "config"}, at'[p] \in {"off", "wait guard", "check", "team"},
         at'[p] = "off" \/ phase' = phase,
         RunsTold',
         unsure' \/ GuardKnown' \/ (unsure /\ unsure')
  PROVE  ChangeInvariant'
<1>1. p \in Actors /\ p # Handler /\ at[p] \notin Late \cup {"off"}
  BY ServiceAssumption DEF Actors, Late
<1>2. \A b \in Actors : b # p => at[b] = "off"
  BY <1>1, ThreadAlone
<1>3. at'[p] \notin Late \cup {"file", "env", "swap"}
  BY DEF Late
<1>4. unsure' \/ GuardAgrees'
  BY <1>1, <1>2, <1>3, AgreesAlone
<1>5. WrittenBy(p)'
  BY <1>1 DEF WrittenBy
<1> QED
  BY <1>1, <1>4, <1>5, ThreadChanges

(* While a thread is alone at work before its change, the guard is known.  *)
LEMMA ThreadKnows ==
  ASSUME Before, NEW p \in Provisioners, at[p] \in {"begin", "wait guard", "config"}
  PROVE  unsure \/ GuardKnown
<1>1. at[p] \notin Late \cup {"off"} /\ at[p] \notin Undoing
  BY DEF Late, Undoing
<1>2. \A b \in Actors : at[b] \notin Undoing
  BY <1>1, ThreadAlone DEF Undoing
<1> QED
  BY <1>2, KnownBefore DEF GuardAgrees, Actors

(* restore_guard starts the guard that is there, or the one of the file.   *)
LEMMA RestoreChanges ==
  ASSUME Before, NEW p \in Provisioners, Restore(p)
  PROVE  ChangeInvariant'
<1> PICK x : x = [args[p] EXCEPT !.model = StoredModel]
  OBVIOUS
<1>1. p \in Actors
  BY DEF Actors
<1>2. x.old = args[p].old /\ x.new = args[p].new /\ args' = [args EXCEPT ![p] = x]
  BY <1>1, ActorFacts DEF Restore, ArgRows
<1>3. PICK stage \in {"check", "wait guard"} : Goto(p, stage)
  BY DEF Restore
<1>4. OthersStay(p) /\ at'[p] \in {"check", "wait guard"} /\ args'[p] = x
  BY <1>1, <1>2, <1>3, ActorFacts DEF Goto, OthersStay
<1>5. at[p] = "begin" /\ phase' = phase /\ unsure' = unsure /\ files' = files /\ lastRun' = lastRun
  BY DEF Restore
<1>6. CASE UNCHANGED <<guard, ledger>> \/ RunGuard
  <2>1. RunsTold'
    BY <1>1, <1>2, <1>4, <1>5, <1>6, SameRuns
  <2>2. GuardKnown => GuardKnown'
    BY <1>5, <1>6, RunStarts DEF GuardKnown, Agrees, RunGuard
  <2> QED
    BY <1>4, <1>5, <2>1, <2>2, ThreadKnows, ThreadSettles
<1>7. CASE StartGuard
  <2> PICK c : c = guard.cfg
    OBVIOUS
  <2>1. c \in Configs /\ c.run \in Runs /\ Started(c) /\ InstallTypeOK /\ guard.exists
    BY <1>7, RunsOfGuard, InstallationFacts DEF Before, StartGuard
  <2>2. /\ guard'.exists /\ guard'.cfg = guard.cfg
        /\ ledger'[c.run] = IF ledger[c.run] = "none" THEN "open" ELSE ledger[c.run]
    BY <2>1, GuardStarted
  <2>3. ledger[c.run] # "none"
    BY <2>1, KnownBefore, <1>1 DEF RunsTold
  <2>4. GuardKnown => GuardKnown'
    BY <1>5, <2>1, <2>2, <2>3 DEF GuardKnown, Agrees
  <2>5. RunsTold'
    <3> PICK fresh : fresh = NoConfig
      OBVIOUS
    <3>1. {args'[p].old, args'[p].new, files'.guard, files'.env, guard'.cfg} \subseteq
            {args[p].old, args[p].new, files.guard, files.env, guard.cfg, NoConfig, fresh}
      BY <1>2, <1>4, <1>5, <2>2
    <3>2. guard'.exists => ledger'[guard'.cfg.run] # "none"
      BY <2>2, <2>3
    <3> QED
      BY <1>1, <1>4, <1>5, <3>1, <3>2, RunsStayTold
  <2> QED
    BY <1>4, <1>5, <2>4, <2>5, ThreadKnows, ThreadSettles
<1> QED
  BY <1>6, <1>7 DEF Restore

(* The guard that answers is the one of the files.                         *)
LEMMA RestoredChanges ==
  ASSUME Before, NEW p \in Provisioners, Restored(p)
  PROVE  ChangeInvariant'
<1>1. /\ at[p] = "wait guard" /\ at'[p] = "check" /\ OthersStay(p)
      /\ phase' = phase /\ args' = args /\ UNCHANGED installVars
  BY ActorGoesOn DEF Restored, Actors
<1>2. guard.exists /\ guard.cfg = files.guard
  BY AnswersTell DEF Restored, InUse
<1>3. GuardKnown'
  BY <1>1, <1>2 DEF GuardKnown, Agrees, installVars
<1>4. RunsTold'
  BY <1>1, SameRuns DEF installVars, Actors
<1> QED
  BY <1>1, <1>3, <1>4, ThreadSettles

(* prepare-native-team.py, whole or in part: the guard, if it was started, *)
(* is the one of the files.                                                *)
LEMMA PrepareChanges ==
  ASSUME Before, NEW p \in Provisioners, at[p] = "config", OthersStay(p),
         NEW done \in 0..4, PrepareTeam(args[p].model, done),
         at'[p] \in {"off", "team"}, at'[p] = "off" \/ phase' = phase,
         {args'[p].old, args'[p].new} \subseteq {args[p].old, args[p].new, NoConfig},
         unsure' = unsure
  PROVE  ChangeInvariant'
<1>1. PICK m : m = args[p].model
  OBVIOUS
<1> PICK fresh : fresh = [run |-> lastRun + 1, model |-> m]
  OBVIOUS
<1>2. m \in Models /\ p \in Actors
  BY <1>1 DEF Before, InstallationInvariant, InHand, Actors
<1>3. /\ files' = [files EXCEPT !.planned = TRUE,
                                !.plan  = IF done >= 1 THEN fresh ELSE @,
                                !.guard = IF done >= 2 THEN fresh ELSE @,
                                !.env   = IF done >= 3 THEN fresh ELSE @]
      /\ IF done = 4 THEN ~guard.exists /\ Started(fresh) ELSE UNCHANGED <<guard, ledger>>
      /\ lastRun' = lastRun + 1 /\ lastRun < MaxRun /\ ~Prepared
  BY <1>1 DEF PrepareTeam
<1>4. /\ files'.guard = IF done >= 2 THEN fresh ELSE files.guard
      /\ files'.env = IF done >= 3 THEN fresh ELSE files.env
      /\ fresh.run = lastRun + 1 /\ InstallTypeOK
  BY <1>3, ActorFacts, InstallationFacts DEF Before, Files, Actors
<1>5. ~guard.exists /\ files.env = NoConfig
  BY <1>3 DEF Before, InstallationInvariant, InOrder
<1>6. fresh \in Configs /\ fresh # NoConfig
  BY <1>2, <1>3, <1>4, RealConfigs, InstallationAssumption DEF InstallTypeOK, Runs
<1>7. /\ guard'.exists => done = 4 /\ guard'.cfg = fresh /\ ledger'[fresh.run] # "none"
      /\ guard'.cfg \in {guard.cfg, fresh}
  <2>1. CASE done = 4
    BY <1>3, <1>4, <1>6, <2>1, GuardStarted
  <2>2. CASE done # 4
    BY <1>3, <1>5, <2>2
  <2> QED
    BY <2>1, <2>2
<1>8. GuardKnown'
  BY <1>4, <1>5, <1>7 DEF GuardKnown, Agrees
<1>9. RunsTold'
  <2>1. {args'[p].old, args'[p].new, files'.guard, files'.env, guard'.cfg} \subseteq
          {args[p].old, args[p].new, files.guard, files.env, guard.cfg, NoConfig, fresh}
    BY <1>4, <1>7
  <2>2. guard'.exists => ledger'[guard'.cfg.run] # "none"
    BY <1>7
  <2> QED
    BY <1>2, <1>3, <1>4, <2>1, <2>2, RunsStayTold
<1> QED
  BY <1>8, <1>9, ThreadSettles

(* A step of provision fails.                                              *)
LEMMA ProvisionFailsChanges ==
  ASSUME Before, NEW p \in Provisioners, ProvisionFails(p)
  PROVE  ChangeInvariant'
<1>1. /\ OthersStay(p) /\ at'[p] = "off"
      /\ args'[p].old = NoConfig /\ args'[p].new = NoConfig
      /\ unsure' = unsure /\ at[p] \notin {"off", "apply"} \cup Applying \cup Undoing
  BY GivesUp DEF ProvisionFails, Fail, Actors
<1>2. CASE /\ at[p] = "config" /\ \E done \in 0..3 : PrepareTeam(args[p].model, done)
  <2>1. PICK done \in 0..4 : PrepareTeam(args[p].model, done)
    BY <1>2
  <2> QED
    BY <1>1, <1>2, <2>1, PrepareChanges
<1>3. CASE ~ (at[p] = "config" /\ \E done \in 0..3 : PrepareTeam(args[p].model, done))
  <2>1. GuardAsBefore /\ lastRun' = lastRun
    <3>1. CASE UNCHANGED installVars
      BY <3>1, SameGuard DEF installVars
    <3>2. ASSUME NEW done \in SUBSET Roles, RegisterRoutes(done), UNCHANGED files
          PROVE  GuardAsBefore /\ lastRun' = lastRun
      BY <3>2, SameGuard DEF RegisterRoutes
    <3>3. ASSUME NEW done \in SUBSET Roles, NEW audit \in BOOLEAN,
                 CreateTeam(done, FALSE, audit)
          PROVE  GuardAsBefore /\ lastRun' = lastRun
      BY <3>3, ActorFacts DEF CreateTeam, GuardAsBefore, Files, Actors
    <3>4. CASE ConfigureTeam(FALSE)
      BY <3>4, ActorFacts DEF ConfigureTeam, GuardAsBefore, Files, Actors
    <3> QED
      BY <1>3, <3>1, <3>2, <3>3, <3>4 DEF ProvisionFails, HalfDone
  <2> QED
    BY <1>1, <2>1, ThreadQuiet DEF Applying, Undoing
<1> QED
  BY <1>2, <1>3

(* Everything a provisioning thread does.                                  *)
LEMMA ProvisionStepChanges ==
  ASSUME Before, NEW p \in Provisioners, ProvisionStep(p)
  PROVE  ChangeInvariant'
<1>1. CASE Prepare(p)
  <2>1. OthersStay(p) /\ at'[p] = "team" /\ args' = args
    BY <1>1, ActorGoesOn DEF Prepare, Keep, Actors
  <2>2. 4 \in 0..4
    OBVIOUS
  <2> QED
    BY <1>1, <2>1, <2>2, PrepareChanges DEF Prepare, Keep
<1> QED
  BY <1>1, RestoreChanges, RestoredChanges, ThreadStepsAreQuiet, CompleteIsQuiet,
     ProvisionFailsChanges
  DEF ProvisionStep

(* The service dies: a change that was to be undone leaves the guard       *)
(* unsure.                                                                 *)
LEMMA RestartChanges ==
  ASSUME Before, Restart
  PROVE  ChangeInvariant'
<1>1. /\ \A a \in Actors : at'[a] = "off" /\ args'[a] = NoArgs
      /\ UNCHANGED <<files, guard, ledger, lastRun>>
  BY DEF Restart, installVars
<1>2. ThreadsLate'
  BY <1>1 DEF ThreadsLate, Actors
<1>3. RunsTold'
  <2>1. InUse' \subseteq InUse \cup {NoConfig}
    BY <1>1 DEF InUse, NoArgs, Actors
  <2>2. RunsTold /\ InUse \subseteq Configs \cup {NoConfig} /\ lastRun \in Nat
    BY DEF Before, ChangeInvariant, InstallationInvariant, OnboardingTypeOK, InstallTypeOK,
       Files, Containers, InUse, Actors
  <2>3. /\ \A c \in InUse : c.run \in Nat /\ (c.run = 0 => c = NoConfig)
        /\ NoConfig.run = 0
    BY <2>2, RealConfigs DEF Runs
  <2>4. \A c \in InUse \cup {NoConfig} : c.run <= lastRun
    BY <2>2, <2>3 DEF RunsTold
  <2>5. \A c, d \in InUse \cup {NoConfig} : c.run = d.run => c = d
    BY <2>2, <2>3 DEF RunsTold
  <2> QED
    BY <1>1, <2>1, <2>2, <2>4, <2>5 DEF RunsTold
<1>4. \A a \in Actors : WrittenBy(a)'
  BY <1>1 DEF WrittenBy, Late, Renewing
<1>5. ASSUME ~unsure'
      PROVE  GuardAgrees'
  <2>1. GuardAgrees /\ \A a \in Actors : at[a] \notin Undoing
    BY <1>5 DEF Restart, Before, ChangeInvariant
  <2>2. GuardKnown'
    BY <1>1, <2>1 DEF GuardAgrees, GuardKnown, Agrees
  <2> QED
    BY <1>1, <2>2
    DEF GuardAgrees, ChangesAlone, Replaceable, ThreadRestores, Applying, Undoing, Late, Actors
<1> QED
  BY <1>2, <1>3, <1>4, <1>5 DEF ChangeInvariant, Actors

(* Others arm, close, restart and stop: what is known stays known.         *)
LEMMA OthersChange ==
  ASSUME Before, OthersStep \/ UNCHANGED installVars, UNCHANGED serviceVars
  PROVE  ChangeInvariant'
<1>1. UNCHANGED <<phase, at, args, unsure>> /\ files' = files /\ lastRun' = lastRun
  BY DEF serviceVars, installVars, OthersStep, OperatorArms, RunCloses, GuardRestarts, HostStops
<1>2. GuardAsBefore
  BY ActorFacts, RunsOfGuard
  DEF OthersStep, OperatorArms, RunCloses, GuardRestarts, HostStops, ArmGuard, GuardAsBefore,
      installVars, Containers, Actors, Before
<1>3. RunsTold'
  <2>1. Handler \in Actors /\ OthersStay(Handler)
    BY <1>1 DEF Actors, OthersStay
  <2> QED
    BY <1>1, <1>2, <2>1, QuietRuns
<1>4. ThreadsLate' /\ \A a \in Actors : WrittenBy(a)'
  BY <1>1 DEF Before, ChangeInvariant, ThreadsLate, WrittenBy, StoredModel
<1>5. GuardAgrees => GuardAgrees'
  <2>1. /\ guard.exists => guard.cfg.run \in Runs
        /\ files.env # NoConfig => files.env.run \in Runs
    BY RunsOfGuard DEF Before
  <2>2. /\ ChangesAlone => ChangesAlone'
        /\ ThreadRestores => ThreadRestores'
    BY <1>1, <1>2 DEF ChangesAlone, ThreadRestores, GuardAsBefore
  <2>3. Replaceable => Replaceable'
    BY <1>1, <1>2, <2>1 DEF Replaceable, GuardAsBefore, Actors
  <2>4. GuardKnown => GuardKnown'
    BY <1>2, <2>1 DEF GuardKnown, Agrees, GuardAsBefore
  <2> QED
    BY <1>1, <2>2, <2>3, <2>4 DEF GuardAgrees, Actors
<1> QED
  BY <1>1, <1>3, <1>4, <1>5 DEF Before, ChangeInvariant, Actors

(* It holds at first.                                                      *)
LEMMA ChangesStart ==
  ASSUME OnboardingInit
  PROVE  ChangeInvariant
<1>1. InstallationInvariant
  BY InstallationStarts
<1>2. /\ \A a \in Actors : at[a] = "off" /\ args[a] = NoArgs
      /\ ~guard.exists /\ guard.cfg = NoConfig /\ files.guard = NoConfig
      /\ files.env = NoConfig /\ lastRun = 0
  BY DEF OnboardingInit, FreshInit, ServiceInit, NoContainer
<1>3. RunsTold
  <2>1. InUse \subseteq {NoConfig}
    BY <1>2 DEF InUse, NoArgs
  <2> QED
    BY <1>2, <2>1, RealConfigs DEF RunsTold
<1>4. ThreadsLate /\ \A a \in Actors : WrittenBy(a)
  BY <1>2 DEF ThreadsLate, WrittenBy, Late, Renewing, Actors
<1>5. GuardAgrees
  BY <1>2
  DEF GuardAgrees, ChangesAlone, Replaceable, ThreadRestores, GuardKnown, Applying, Undoing,
      Late, Actors
<1> QED
  BY <1>3, <1>4, <1>5 DEF ChangeInvariant

(* Every step keeps it, where no two threads provision.                    *)
LEMMA ChangesStep ==
  ASSUME Before, [ServiceStep]_onboardingVars
  PROVE  ChangeInvariant'
<1>1. CASE UNCHANGED onboardingVars
  BY <1>1, OthersChange DEF onboardingVars
<1> QED
  BY <1>1, HandlerStepChanges, ApplyStepChanges, ProvisionStepChanges, RestartChanges,
     OthersChange
  DEF ServiceStep

(* The guard that is armed runs the saved model.                           *)
LEMMA ArmsSavedModel ==
  ASSUME InstallationInvariant, ChangeInvariant, Arm
  PROVE  \/ guard.cfg.model = StoredModel
         \/ unsure
         \/ \E p \in Provisioners : at[p] # "off"
<1> SUFFICES ASSUME ~unsure, \A p \in Provisioners : at[p] = "off"
             PROVE  guard.cfg.model = StoredModel
  OBVIOUS
<1>1. at[Handler] = "arm" /\ guard.up /\ ledger[guard.cfg.run] = "open" /\ guard.exists
  BY DEF Arm, ArmGuard, RunOpen, InstallationInvariant, InOrder
<1>2. files.guard.model = StoredModel
  BY <1>1 DEF ChangeInvariant, WrittenBy, Actors
<1>3. \A a \in Actors : at[a] \notin Undoing
  BY <1>1 DEF Actors, Undoing
<1> QED
  BY <1>1, <1>2, <1>3 DEF ChangeInvariant, GuardAgrees, GuardKnown, Agrees

(* While no two threads provision, the guard that open_budget arms runs    *)
(* the saved model, unless a thread is at work or a change was not undone. *)
THEOREM SavedModelIsOpened == OnboardingSpec /\ []OneProvisioner => OpensSavedModel
<1>1. OnboardingSpec => []InstallationInvariant
  BY InstallationHolds
<1>2. OnboardingInit => ChangeInvariant
  BY ChangesStart
<1>3. /\ InstallationInvariant /\ InstallationInvariant' /\ OneProvisioner /\ OneProvisioner'
      /\ ChangeInvariant /\ [ServiceStep]_onboardingVars
      => ChangeInvariant'
  <2> SUFFICES ASSUME InstallationInvariant, InstallationInvariant', OneProvisioner,
                      OneProvisioner', ChangeInvariant, [ServiceStep]_onboardingVars
               PROVE  ChangeInvariant'
    OBVIOUS
  <2>1. OneAtATime /\ OneAtATime'
    BY OneThread, PTL
  <2> QED
    BY <2>1, ChangesStep DEF Before
<1>4. InstallationInvariant /\ ChangeInvariant =>
        [Arm => \/ guard.cfg.model = StoredModel
                \/ unsure
                \/ \E p \in Provisioners : at[p] # "off"]_onboardingVars
  BY ArmsSavedModel
<1> QED
  BY <1>1, <1>2, <1>3, <1>4, PTL DEF OnboardingSpec, OpensSavedModel

-----------------------------------------------------------------------------
(* The sensor's adapter.                                                   *)

(* A set of numbers that is not empty has a least member...                *)
LEMMA NoLess ==
  ASSUME NEW T \in SUBSET Nat, T # {}
  PROVE  \E x \in T : \A y \in T : ~ (y < x)
<1> PICK R : R = OpToRel(<, Nat)
  OBVIOUS
<1>1. IsWellFoundedOn(R, Nat)
  BY NatLessThanWellFounded
<1>2. PICK x \in T : \A y \in T : ~ (<<y, x>> \in R)
  BY <1>1, WFMin
<1>3. \A y \in T : y < x => <<y, x>> \in R
  BY DEF OpToRel
<1> QED
  BY <1>2, <1>3

LEMMA Least ==
  ASSUME NEW T \in SUBSET Nat, T # {}
  PROVE  \E x \in T : \A y \in T : x <= y
<1>1. PICK x \in T : \A y \in T : ~ (y < x)
  BY NoLess
<1>2. \A y \in T : x <= y
  BY <1>1
<1> QED
  BY <1>2

(* ... and, if it is bounded, a greatest one.                              *)
LEMMA Greatest ==
  ASSUME NEW n \in Nat, NEW T \in SUBSET (1..n), T # {}
  PROVE  Max(T) \in T
<1> PICK U : U = {k \in 0..n : n - k \in T}
  OBVIOUS
<1>1. U \in SUBSET Nat /\ U # {}
  <2>1. PICK t : t \in T
    OBVIOUS
  <2>2. t \in 1..n /\ n - t \in 0..n /\ n - (n - t) = t
    BY <2>1
  <2>3. n - t \in U
    BY <2>1, <2>2
  <2>4. U \subseteq Nat
    OBVIOUS
  <2> QED
    BY <2>3, <2>4
<1>2. PICK u \in U : \A v \in U : u <= v
  BY <1>1, Least
<1>3. n - u \in T /\ \A t \in T : n - u >= t
  <2>1. ASSUME NEW t \in T
        PROVE  n - u >= t
    <3>1. t \in 1..n /\ n - t \in 0..n /\ n - (n - t) = t /\ u \in Nat
      OBVIOUS
    <3>2. n - t \in U
      BY <3>1
    <3>3. u <= n - t
      BY <1>2, <3>2
    <3> QED
      BY <3>1, <3>3
  <2> QED
    BY <2>1
<1> QED
  BY <1>3 DEF Max

(* The members of a bounded set of numbers are numbered by how many come   *)
(* up to them.                                                             *)
UpTo(F, f) == {g \in F : g <= f}
Rank(F, f) == Cardinality(UpTo(F, f))

LEMMA Numbered ==
  ASSUME NEW m \in Nat, NEW F \in SUBSET (1..m)
  PROVE  /\ Cardinality(F) \in Nat
         /\ \A f \in F : Rank(F, f) \in 1..Cardinality(F)
         /\ \A f, g \in F : Rank(F, f) = Rank(F, g) => f = g
         /\ \A k \in 1..Cardinality(F) : \E f \in F : Rank(F, f) = k
<1> PICK rank : rank = [f \in F |-> Rank(F, f)]
  OBVIOUS
<1>1. \A f \in F : f \in Nat
  OBVIOUS
<1>2. IsFiniteSet(F)
  <2>1. IsFiniteSet(1..m)
    BY FS_Interval
  <2> PICK M : M = 1..m
    OBVIOUS
  <2> QED
    BY <2>1, FS_Subset
<1>3. PICK n : n = Cardinality(F)
  OBVIOUS
<1>4. n \in Nat
  BY <1>2, <1>3, FS_CardinalityType
<1>5. ASSUME NEW f \in F
      PROVE  rank[f] \in 1..n
  <2> PICK B : B = UpTo(F, f)
    OBVIOUS
  <2>1. IsFiniteSet(B) /\ Cardinality(B) <= n /\ Cardinality(B) \in Nat
    <3>1. B \subseteq F
      BY DEF UpTo
    <3>2. IsFiniteSet(B) /\ Cardinality(B) <= Cardinality(F)
      BY <1>2, <3>1, FS_Subset
    <3> QED
      BY <1>3, <3>2, FS_CardinalityType
  <2>2. f \in B
    BY <1>1 DEF UpTo
  <2>3. Cardinality(B) # 0
    BY <2>1, <2>2, FS_EmptySet
  <2>4. rank[f] = Cardinality(B)
    BY DEF Rank
  <2> QED
    BY <1>3, <1>4, <2>1, <2>3, <2>4
<1>6. ASSUME NEW f \in F, NEW g \in F, f < g
      PROVE  rank[f] # rank[g]
  <2> PICK B : B = UpTo(F, f)
    OBVIOUS
  <2> PICK C : C = UpTo(F, g)
    OBVIOUS
  <2>1. B \subseteq C /\ g \in C /\ g \notin B /\ C \subseteq F
    <3>1. f \in Nat /\ g \in Nat /\ \A h \in F : h \in Nat
      BY <1>1
    <3>2. \A h \in F : h <= f => h <= g
      BY <1>6, <3>1
    <3>3. g \in C /\ g \notin B
      BY <1>6, <3>1 DEF UpTo
    <3> QED
      BY <3>2, <3>3 DEF UpTo
  <2>2. IsFiniteSet(C)
    BY <1>2, <2>1, FS_Subset
  <2>3. Cardinality(B) # Cardinality(C)
    BY <2>1, <2>2, FS_Subset
  <2>4. rank[f] = Cardinality(B) /\ rank[g] = Cardinality(C)
    BY DEF Rank
  <2> QED
    BY <2>3, <2>4
<1>7. rank \in Injection(F, 1..n)
  <2>1. ASSUME NEW f \in F, NEW g \in F, rank[f] = rank[g]
        PROVE  f = g
    <3>1. f \in Nat /\ g \in Nat
      BY <1>1
    <3>2. ~ (f < g) /\ ~ (g < f)
      BY <1>6, <2>1
    <3> QED
      BY <3>1, <3>2
  <2> QED
    BY <1>5, <2>1 DEF Injection, IsInjective
<1>8. rank \in Surjection(F, 1..n)
  <2>1. IsFiniteSet(1..n) /\ Cardinality(1..n) = n
    BY <1>4, FS_Interval
  <2> PICK T : T = 1..n
    OBVIOUS
  <2> QED
    BY <1>3, <1>7, <2>1, FS_Injection
<1>9. /\ \A f \in F : rank[f] \in 1..n
      /\ \A f, g \in F : rank[f] = rank[g] => f = g
  BY <1>7 DEF Injection, IsInjective
<1>10. \A k \in 1..n : \E f \in F : rank[f] = k
  BY <1>8 DEF Surjection
<1>11. \A f \in F : rank[f] = Rank(F, f)
  OBVIOUS
<1> QED
  BY <1>3, <1>4, <1>9, <1>10, <1>11

(* So each has a place in their order, and each number one at its place.   *)
Place(F, k) == CHOOSE f \in F : Rank(F, f) = k

LEMMA Placed ==
  ASSUME NEW m \in Nat, NEW F \in SUBSET (1..m), NEW n, n = Cardinality(F)
  PROVE  /\ n \in Nat
         /\ \A k \in 1..n : Place(F, k) \in F /\ Rank(F, Place(F, k)) = k
         /\ \A f \in F : Rank(F, f) \in 1..n /\ Place(F, Rank(F, f)) = f
<1>1. /\ Cardinality(F) \in Nat
      /\ \A f \in F : Rank(F, f) \in 1..Cardinality(F)
      /\ \A f, g \in F : Rank(F, f) = Rank(F, g) => f = g
      /\ \A k \in 1..Cardinality(F) : \E f \in F : Rank(F, f) = k
  BY Numbered, Zenon
<1>2. ASSUME NEW k \in 1..n
      PROVE  Place(F, k) \in F /\ Rank(F, Place(F, k)) = k
  <2>1. \E f \in F : Rank(F, f) = k
    BY <1>1
  <2> QED
    BY <2>1 DEF Place
<1>3. ASSUME NEW f \in F
      PROVE  Rank(F, f) \in 1..n /\ Place(F, Rank(F, f)) = f
  <2>1. Rank(F, f) \in 1..n
    BY <1>1
  <2>2. /\ Place(F, Rank(F, f)) \in F
        /\ Rank(F, Place(F, Rank(F, f))) = Rank(F, f)
    BY <1>2, <2>1
  <2> QED
    BY <1>1, <2>1, <2>2
<1> QED
  BY <1>1, <1>2, <1>3

(* The first places of the wanted elements of a sequence, numbered in      *)
(* their order: every wanted element once.                                 *)
Firsts(s, N) ==
  {k \in DOMAIN s : s[k] \in N /\ \A j \in 1..(k - 1) : s[j] # s[k]}
Listed(s, F) == [k \in 1..Cardinality(F) |-> s[Place(F, k)]]

ListsOnce(out, s, N) ==
  /\ \A k \in DOMAIN out : out[k] \in N
  /\ \A j, k \in DOMAIN out : out[j] = out[k] => j = k
  /\ \A k \in DOMAIN s : s[k] \in N => \E j \in DOMAIN out : out[j] = s[k]

LEMMA FirstsListed ==
  ASSUME NEW s \in Seq(Sensed), NEW N
  PROVE  /\ Listed(s, Firsts(s, N)) \in Seq(Sensed)
         /\ ListsOnce(Listed(s, Firsts(s, N)), s, N)
<1> PICK F : F = Firsts(s, N)
  OBVIOUS
<1> PICK out : out = Listed(s, F)
  OBVIOUS
<1> PICK m : m = Len(s)
  OBVIOUS
<1>1. m \in Nat /\ DOMAIN s = 1..m /\ F \in SUBSET (1..m)
  BY DEF Firsts
<1>2. /\ \A k \in F : s[k] \in N /\ s[k] \in Sensed
      /\ \A k \in F : \A j \in 1..(k - 1) : s[j] # s[k]
      /\ \A k \in DOMAIN s : s[k] \in N /\ (\A j \in 1..(k - 1) : s[j] # s[k]) => k \in F
  BY DEF Firsts
<1> PICK n : n = Cardinality(F)
  OBVIOUS
<1>3. /\ n \in Nat
      /\ \A k \in 1..n : Place(F, k) \in F /\ Rank(F, Place(F, k)) = k
      /\ \A f \in F : Rank(F, f) \in 1..n /\ Place(F, Rank(F, f)) = f
  BY <1>1, Placed
<1>4. DOMAIN out = 1..n /\ \A k \in 1..n : out[k] = s[Place(F, k)]
  BY DEF Listed
<1>5. out \in Seq(Sensed)
  <2>1. out = [k \in 1..n |-> s[Place(F, k)]]
    BY DEF Listed
  <2>2. \A k \in 1..n : s[Place(F, k)] \in Sensed
    BY <1>2, <1>3
  <2> QED
    BY <1>3, <2>1, <2>2
<1>6. \A k \in DOMAIN out : out[k] \in N
  BY <1>2, <1>3, <1>4
<1>7. ASSUME NEW f \in F, NEW g \in F, s[f] = s[g]
      PROVE  f = g
  <2>1. f \in 1..m /\ g \in 1..m
    BY <1>1
  <2>2. ~ (f < g)
    <3> SUFFICES ASSUME f < g PROVE FALSE
      OBVIOUS
    <3>1. f \in 1..(g - 1)
      BY <1>1, <2>1
    <3> QED
      BY <1>2, <1>7, <3>1
  <2>3. ~ (g < f)
    <3> SUFFICES ASSUME g < f PROVE FALSE
      OBVIOUS
    <3>1. g \in 1..(f - 1)
      BY <1>1, <2>1
    <3> QED
      BY <1>2, <1>7, <3>1
  <2> QED
    BY <1>1, <2>1, <2>2, <2>3
<1>8. ASSUME NEW j \in DOMAIN out, NEW k \in DOMAIN out, out[j] = out[k]
      PROVE  j = k
  <2>1. Place(F, j) = Place(F, k)
    BY <1>3, <1>4, <1>7, <1>8
  <2> QED
    BY <1>3, <1>4, <2>1
<1>9. ASSUME NEW k \in DOMAIN s, s[k] \in N
      PROVE  \E j \in DOMAIN out : out[j] = s[k]
  <2> PICK K : K = {j \in DOMAIN s : s[j] = s[k]}
    OBVIOUS
  <2>1. K \in SUBSET Nat /\ k \in K
    BY <1>1
  <2>2. PICK f \in K : \A j \in K : f <= j
    BY <2>1, Least
  <2>3. f \in DOMAIN s /\ s[f] = s[k] /\ f \in Nat
    BY <1>1
  <2>4. ASSUME NEW j \in 1..(f - 1), s[j] = s[f]
        PROVE  FALSE
    <3>1. j \in DOMAIN s /\ j < f /\ j \in Nat
      BY <1>1, <2>3
    <3>2. j \in K
      BY <2>3, <2>4, <3>1
    <3> QED
      BY <2>2, <2>3, <3>1, <3>2
  <2>5. f \in F
    BY <1>2, <1>9, <2>3, <2>4
  <2>6. Rank(F, f) \in 1..n /\ Place(F, Rank(F, f)) = f
    BY <1>3, <2>5
  <2>7. out[Rank(F, f)] = s[k]
    BY <1>4, <2>3, <2>6
  <2> QED
    BY <1>4, <2>6, <2>7
<1>10. ListsOnce(out, s, N)
  BY <1>6, <1>8, <1>9 DEF ListsOnce
<1> QED
  BY <1>5, <1>10

-----------------------------------------------------------------------------
(* What holds of the evidence file, the runs and the workflow.             *)

Pieces == [event : Sensed \cup {TheGateway}, by : Adapters \cup {TheGateway},
           part : {"whole", "head", "tail"}]

Writing == {"write", "tail"}
Opening == {"received", "investigating"}
AdapterRuns == [step : {"convert", "workflow", "done", "failed"} \cup Writing \cup Opening,
          export : Seq(Sensed), flows : BOOLEAN, dry : BOOLEAN, workflow : BOOLEAN,
          known : SUBSET (Sensed \cup {TheGateway}), since : Nat, out : Seq(Sensed)]

(* The shape of the state.  A transition names whatever states it found.   *)
IngestShape ==
  /\ pieces \in Seq(Pieces)
  /\ adapters \in [Adapters -> AdapterRuns \cup {Unstarted}]
  /\ \E E : journal \in Seq(E)
  /\ \E F : transit \in [Movers -> F]

(* A piece that ends a line by i, decoded or not.                          *)
EndedBy(i, k) == pieces[k].by = i /\ pieces[k].part # "head"

(* What a run has read of the file is there and is all there was.          *)
ReadTrue(i) ==
  adapters[i] # Unstarted =>
    /\ adapters[i].since <= Len(pieces)
    /\ \A e \in adapters[i].known : \E k \in Decoded : pieces[k].event = e
    /\ \A k \in Decoded : k <= adapters[i].since =>
         pieces[k].event \in adapters[i].known

(* It writes what it did not know, each event once.                        *)
WritesNew(i) ==
  \A k \in DOMAIN pieces : pieces[k].by = i =>
    /\ adapters[i] # Unstarted /\ adapters[i].step # "convert"
    /\ adapters[i].since < k
    /\ pieces[k].event \in Sensed \ adapters[i].known
WritesOnce(i) ==
  \A k \in DOMAIN pieces : EndedBy(i, k) =>
    /\ \A j \in DOMAIN pieces :
         EndedBy(i, j) /\ pieces[j].event = pieces[k].event => j = k
    /\ \A n \in DOMAIN adapters[i].out : adapters[i].out[n] # pieces[k].event

(* Its buffer holds new events, once each, and is written in the end.      *)
Buffered(i) ==
  adapters[i] # Unstarted =>
    /\ \A n \in DOMAIN adapters[i].out : adapters[i].out[n] \notin adapters[i].known
    /\ \A m, n \in DOMAIN adapters[i].out :
         adapters[i].out[m] = adapters[i].out[n] => m = n
    /\ adapters[i].step \notin Writing \cup {"failed"} => adapters[i].out = <<>>
    /\ adapters[i].step = "tail" => adapters[i].out # <<>>

(* Nothing it was asked for is forgotten.                                  *)
NoneLost(i) ==
  /\ adapters[i] # Unstarted
  /\ adapters[i].step \notin {"convert", "failed"} /\ ~adapters[i].dry
  => \A e \in Wanted(i) :
       \/ e \in adapters[i].known
       \/ \E n \in DOMAIN adapters[i].out : adapters[i].out[n] = e
       \/ \E k \in DOMAIN pieces : EndedBy(i, k) /\ pieces[k].event = e

RunTrue(i) ==
  ReadTrue(i) /\ WritesNew(i) /\ WritesOnce(i) /\ Buffered(i) /\ NoneLost(i)

GatewayAlone ==
  \A k \in DOMAIN pieces : pieces[k].by = TheGateway => pieces[k].event = TheGateway

(* The journal is opened by the runs alone, and by each before it is done. *)
OpenedBy(i) ==
  /\ transit[i] # NoEvent =>
       /\ adapters[i] # Unstarted /\ adapters[i].step \in Opening
       /\ transit[i].state = adapters[i].step
  /\ adapters[i] # Unstarted /\ adapters[i].step = "done"
     /\ adapters[i].workflow /\ ~adapters[i].dry =>
       \E k \in DOMAIN journal : journal[k].state = "investigating"
JournalOpened ==
  /\ \A k \in DOMAIN journal : journal[k].state \in Opening
  /\ \A i \in Adapters : OpenedBy(i)

IngestInvariant ==
  /\ IngestShape /\ GatewayAlone /\ JournalOpened
  /\ \A i \in Adapters : RunTrue(i)

-----------------------------------------------------------------------------
(* The file grows.                                                         *)

(* A piece more changes nothing of the lines before it.                    *)
LEMMA LinesStay ==
  ASSUME pieces \in Seq(Pieces), NEW p \in Pieces, pieces' = Append(pieces, p)
  PROVE  /\ pieces' \in Seq(Pieces) /\ Len(pieces) \in Nat /\ Len(pieces') = Len(pieces) + 1
         /\ DOMAIN pieces = 1..Len(pieces) /\ DOMAIN pieces' = 1..(Len(pieces) + 1)
         /\ \A k \in DOMAIN pieces : pieces'[k] = pieces[k]
         /\ pieces'[Len(pieces) + 1] = p
         /\ \A k \in DOMAIN pieces : k \in Decoded' <=> k \in Decoded
<1>1. /\ pieces' \in Seq(Pieces) /\ Len(pieces) \in Nat /\ Len(pieces') = Len(pieces) + 1
      /\ DOMAIN pieces = 1..Len(pieces) /\ DOMAIN pieces' = 1..(Len(pieces) + 1)
      /\ \A k \in DOMAIN pieces : pieces'[k] = pieces[k]
      /\ pieces'[Len(pieces) + 1] = p
  OBVIOUS
<1>2. ASSUME NEW k \in DOMAIN pieces
      PROVE  /\ StartsLine(k)' <=> StartsLine(k)
             /\ k > 1 => (StartsLine(k - 1)' <=> StartsLine(k - 1))
  BY <1>1 DEF StartsLine
<1>3. ASSUME NEW k \in DOMAIN pieces
      PROVE  k \in Decoded' <=> k \in Decoded
  <2>1. k \in DOMAIN pieces' /\ pieces'[k] = pieces[k]
    BY <1>1
  <2>2. k > 1 => pieces'[k - 1] = pieces[k - 1]
    BY <1>1
  <2> QED
    BY <1>2, <2>1, <2>2 DEF Decoded, Piece
<1> QED
  BY <1>1, <1>3

(* Lines that can be decoded end on no head.                               *)
LEMMA DecodedEnds ==
  ASSUME NEW k \in Decoded
  PROVE  k \in DOMAIN pieces /\ pieces[k].part # "head"
BY DEF Decoded

(* A piece by another leaves a run what it knows and has written.          *)
LEMMA OthersRunOn ==
  ASSUME IngestShape, NEW i \in Adapters, RunTrue(i), adapters'[i] = adapters[i],
         \/ pieces' = pieces
         \/ \E p \in Pieces : pieces' = Append(pieces, p) /\ p.by # i
  PROVE  RunTrue(i)'
<1>1. CASE pieces' = pieces
  <2>1. Decoded' = Decoded /\ Wanted(i)' = Wanted(i)
    BY <1>1 DEF Decoded, StartsLine, Wanted
  <2>2. \A k : EndedBy(i, k)' <=> EndedBy(i, k)
    BY <1>1 DEF EndedBy
  <2>3. ReadTrue(i)' /\ WritesNew(i)' /\ Buffered(i)'
    BY <1>1, <2>1 DEF RunTrue, ReadTrue, WritesNew, Buffered
  <2>4. WritesOnce(i)' /\ NoneLost(i)'
    BY <1>1, <2>1, <2>2 DEF RunTrue, WritesOnce, NoneLost
  <2> QED
    BY <2>3, <2>4 DEF RunTrue
<1>2. ASSUME NEW p \in Pieces, pieces' = Append(pieces, p), p.by # i
      PROVE  RunTrue(i)'
  <2> PICK n : n = Len(pieces)
    OBVIOUS
  <2>1. /\ n \in Nat /\ Len(pieces') = n + 1
        /\ DOMAIN pieces = 1..n /\ DOMAIN pieces' = 1..(n + 1)
        /\ \A k \in DOMAIN pieces : pieces'[k] = pieces[k]
        /\ pieces'[n + 1] = p
        /\ \A k \in DOMAIN pieces : k \in Decoded' <=> k \in Decoded
    BY <1>2, LinesStay DEF IngestShape
  <2>2. /\ Decoded \subseteq DOMAIN pieces /\ Decoded' \subseteq DOMAIN pieces'
        /\ \A k \in DOMAIN pieces' : k \in DOMAIN pieces \/ k = n + 1
    BY <2>1 DEF Decoded
  <2>3. adapters[i] # Unstarted => adapters[i].since \in Nat
    BY DEF IngestShape, AdapterRuns
  <2>4. ReadTrue(i)'
    <3> SUFFICES ASSUME adapters[i] # Unstarted
                 PROVE  ReadTrue(i)'
      BY DEF ReadTrue
    <3>1. /\ adapters[i].since <= n
          /\ \A e \in adapters[i].known : \E k \in Decoded : pieces[k].event = e
          /\ \A k \in Decoded : k <= adapters[i].since =>
               pieces[k].event \in adapters[i].known
      BY DEF RunTrue, ReadTrue
    <3>2. \A e \in adapters[i].known : \E k \in Decoded' : pieces'[k].event = e
      BY <2>1, <2>2, <3>1
    <3>3. \A k \in Decoded' : k <= adapters[i].since =>
            pieces'[k].event \in adapters[i].known
      BY <2>1, <2>2, <2>3, <3>1
    <3> QED
      BY <2>1, <2>3, <3>1, <3>2, <3>3 DEF ReadTrue
  <2>5. \A k \in DOMAIN pieces' : pieces'[k].by = i => k \in DOMAIN pieces
    BY <1>2, <2>1, <2>2
  <2>6. \A k \in DOMAIN pieces' : EndedBy(i, k)' <=> k \in DOMAIN pieces /\ EndedBy(i, k)
    BY <2>1, <2>2, <2>5 DEF EndedBy
  <2>7. WritesNew(i)'
    BY <2>1, <2>5 DEF RunTrue, WritesNew
  <2>8. WritesOnce(i)'
    BY <2>1, <2>6 DEF RunTrue, WritesOnce
  <2>9. Buffered(i)'
    BY DEF RunTrue, Buffered
  <2>10. Wanted(i)' = Wanted(i)
    BY DEF Wanted
  <2>11. \A k \in DOMAIN pieces : k \in DOMAIN pieces'
    BY <2>1
  <2>12. NoneLost(i)'
    BY <2>1, <2>6, <2>10, <2>11 DEF RunTrue, NoneLost
  <2> QED
    BY <2>4, <2>7, <2>8, <2>9, <2>12 DEF RunTrue
<1> QED
  BY <1>1, <1>2

-----------------------------------------------------------------------------
(* The steps of a run.                                                     *)

SameRun(q, r) ==
  /\ r.export = q.export /\ r.flows = q.flows /\ r.dry = q.dry
  /\ r.workflow = q.workflow /\ r.known = q.known /\ r.since = q.since

(* Steps are no runs that were not started.                                *)
LEMMA RunsAreStarted == Unstarted \notin AdapterRuns
<1>1. Unstarted.step = "off"
  BY DEF Unstarted
<1>2. \A r \in AdapterRuns : r.step # "off"
  BY DEF AdapterRuns, Writing, Opening
<1> QED
  BY <1>1, <1>2

(* A run that is at a step was started.                                    *)
LEMMA AtStep ==
  ASSUME IngestShape, NEW i \in Adapters, adapters[i].step # "off"
  PROVE  adapters[i] \in AdapterRuns /\ adapters[i] # Unstarted
<1>1. adapters[i] \in AdapterRuns \cup {Unstarted}
  BY DEF IngestShape
<1>2. Unstarted.step = "off"
  BY DEF Unstarted
<1> QED
  BY <1>1, <1>2

(* A run put in the place of another.                                      *)
LEMMA Replaced ==
  ASSUME IngestShape, NEW i \in Adapters, NEW r \in AdapterRuns,
         adapters' = [adapters EXCEPT ![i] = r]
  PROVE  /\ adapters' \in [Adapters -> AdapterRuns \cup {Unstarted}]
         /\ adapters'[i] = r /\ r # Unstarted
         /\ \A b \in Adapters : b # i => adapters'[b] = adapters[b]
BY RunsAreStarted DEF IngestShape

(* Only the step and the buffer change.                                    *)
With(q, s, out) == [q EXCEPT !.step = s, !.out = out]

LEMMA NewStep ==
  ASSUME NEW q \in AdapterRuns,
         NEW s \in {"convert", "workflow", "done", "failed"} \cup Writing \cup Opening,
         NEW out \in Seq(Sensed)
  PROVE  /\ With(q, s, out) \in AdapterRuns /\ SameRun(q, With(q, s, out))
         /\ With(q, s, out).step = s /\ With(q, s, out).out = out
BY DEF AdapterRuns, SameRun, With

Stepped(q, s, out) ==
  /\ With(q, s, out) \in AdapterRuns /\ SameRun(q, With(q, s, out))
  /\ With(q, s, out).step = s /\ With(q, s, out).out = out

(* The same, of all of them.                                               *)
LEMMA NewSteps ==
  \A q \in AdapterRuns :
    \A s \in {"convert", "workflow", "done", "failed"} \cup Writing \cup Opening :
      \A out \in Seq(Sensed) : Stepped(q, s, out)
BY NewStep DEF Stepped

(* A run that was not started has written nothing; it reads all there is.  *)
LEMMA StartRuns ==
  ASSUME IngestShape, NEW i \in Adapters, RunTrue(i),
         NEW export \in Exports, NEW flows \in BOOLEAN, NEW dry \in BOOLEAN,
         NEW workflow \in BOOLEAN, StartAdapter(i, export, flows, dry, workflow)
  PROVE  /\ adapters' \in [Adapters -> AdapterRuns \cup {Unstarted}]
         /\ RunTrue(i)' /\ adapters'[i].step = "convert"
         /\ \A b \in Adapters : b # i => adapters'[b] = adapters[b]
<1> PICK r : r = [step |-> "convert", export |-> export, flows |-> flows, dry |-> dry,
                  workflow |-> workflow, known |-> KnownEvents,
                  since |-> Len(pieces), out |-> <<>>]
  OBVIOUS
<1>1. adapters' = [adapters EXCEPT ![i] = r] /\ pieces' = pieces /\ adapters[i].step = "off"
  BY DEF StartAdapter, Adapter
<1>2. Len(pieces) \in Nat /\ Decoded \subseteq DOMAIN pieces /\ DOMAIN pieces = 1..Len(pieces)
  BY DEF IngestShape, Decoded
<1>3. \A k \in DOMAIN pieces : pieces[k].event \in Sensed \cup {TheGateway}
  <2>1. \A k \in DOMAIN pieces : pieces[k] \in Pieces
    BY DEF IngestShape
  <2> QED
    BY <2>1 DEF Pieces
<1>4. KnownEvents \in SUBSET (Sensed \cup {TheGateway})
  BY <1>2, <1>3 DEF KnownEvents
<1>5. export \in Seq(Sensed)
  BY IngestAssumption
<1>6. r \in AdapterRuns
  BY <1>2, <1>4, <1>5 DEF AdapterRuns
<1>7. /\ adapters' \in [Adapters -> AdapterRuns \cup {Unstarted}]
      /\ adapters'[i] = r /\ r # Unstarted
      /\ \A b \in Adapters : b # i => adapters'[b] = adapters[b]
  BY <1>1, <1>6, Replaced
<1>8. /\ r.step = "convert" /\ r.known = KnownEvents /\ r.since = Len(pieces)
      /\ r.out = <<>>
  OBVIOUS
<1>9. adapters[i] = Unstarted
  <2>1. \A q \in AdapterRuns : q.step # "off"
    BY DEF AdapterRuns, Writing, Opening
  <2> QED
    BY <1>1, <2>1 DEF IngestShape
<1>10. \A k \in DOMAIN pieces : pieces[k].by # i
  BY <1>9 DEF RunTrue, WritesNew
<1>11. Decoded' = Decoded
  BY <1>1 DEF Decoded, StartsLine
<1>12. ReadTrue(i)'
  <2>1. \A e \in KnownEvents : \E k \in Decoded : pieces[k].event = e
    BY DEF KnownEvents
  <2>2. \A k \in Decoded : pieces[k].event \in KnownEvents
    BY DEF KnownEvents
  <2> QED
    BY <1>1, <1>2, <1>7, <1>8, <1>11, <2>1, <2>2 DEF ReadTrue
<1>13. WritesNew(i)' /\ WritesOnce(i)'
  BY <1>1, <1>10 DEF WritesNew, WritesOnce, EndedBy
<1>14. Buffered(i)' /\ NoneLost(i)'
  BY <1>7, <1>8 DEF Buffered, NoneLost, Writing
<1> QED
  BY <1>7, <1>8, <1>12, <1>13, <1>14 DEF RunTrue

(* A dry run buffers nothing and is done, unless a record was refused.     *)
Buffering(dry, list) == IF dry THEN <<>> ELSE list
Converted(new, dry) ==
  IF \E e \in new : ClassOf[e] = "violating" THEN "failed"
  ELSE IF dry THEN "done" ELSE "write"

LEMMA DryOrNot ==
  ASSUME NEW dry \in BOOLEAN, NEW list, NEW new
  PROVE  /\ dry => /\ Buffering(dry, list) = <<>>
                   /\ DOMAIN Buffering(dry, list) = {}
                   /\ Converted(new, dry) # "write"
         /\ ~dry => Buffering(dry, list) = list /\ Converted(new, dry) # "done"
         /\ Converted(new, dry) \in {"done", "failed", "write"}
BY DEF Buffering, Converted

(* What is listed for writing is what is new, once each.                   *)
LEMMA ConvertRuns ==
  ASSUME IngestShape, NEW i \in Adapters, RunTrue(i), Convert(i)
  PROVE  /\ adapters' \in [Adapters -> AdapterRuns \cup {Unstarted}]
         /\ RunTrue(i)' /\ adapters'[i].step \in {"write", "failed", "done"}
         /\ adapters'[i].step = "done" => adapters'[i].dry
         /\ \A b \in Adapters : b # i => adapters'[b] = adapters[b]
<1> PICK q : q = adapters[i]
  OBVIOUS
<1> PICK new : new = Wanted(i) \ q.known
  OBVIOUS
<1> PICK list : list = Listed(q.export, Firsts(q.export, new))
  OBVIOUS
<1> PICK out : out = Buffering(q.dry, list)
  OBVIOUS
<1> PICK s : s = Converted(new, q.dry)
  OBVIOUS
<1>1. adapters[i].step = "convert" /\ pieces' = pieces
  BY DEF Convert, Adapter
<1>2. q \in AdapterRuns /\ q # Unstarted /\ q.export \in Seq(Sensed) /\ q.dry \in BOOLEAN
  <2>1. q \in AdapterRuns /\ q # Unstarted
    BY <1>1, AtStep
  <2> QED
    BY <2>1 DEF AdapterRuns
<1>3. list \in Seq(Sensed) /\ ListsOnce(list, q.export, new)
  BY <1>2, FirstsListed
<1>4. adapters' = [adapters EXCEPT ![i].out = out, ![i].step = s]
  BY DEF Convert, Listed, Firsts, Place, Rank, UpTo, Buffering, Converted
<1> PICK r : r = With(q, s, out)
  OBVIOUS
<1>5. /\ q.dry => DOMAIN out = {} /\ s # "write"
      /\ ~q.dry => out = list /\ s # "done"
      /\ s \in {"done", "failed", "write"}
  BY <1>2, DryOrNot
<1>16. q.dry => out = <<>>
  BY <1>2, DryOrNot
<1>17. out \in Seq(Sensed)
  <2>1. CASE q.dry
    <3>1. <<>> \in Seq(Sensed)
      OBVIOUS
    <3> QED
      BY <1>16, <2>1, <3>1, Zenon
  <2>2. CASE ~q.dry
    BY <1>3, <1>5, <2>2
  <2> QED
    BY <2>1, <2>2
<1>6. r \in AdapterRuns /\ SameRun(q, r) /\ r.step = s /\ r.out = out
  <2>1. s \in {"convert", "workflow", "done", "failed"} \cup Writing \cup Opening
    BY <1>5 DEF Writing
  <2>2. /\ With(q, s, out) \in AdapterRuns /\ SameRun(q, With(q, s, out))
        /\ With(q, s, out).step = s /\ With(q, s, out).out = out
    BY <1>2, <1>17, <2>1, NewStep
  <2> QED
    BY <2>2, Zenon
<1>7. adapters' = [adapters EXCEPT ![i] = r]
  <2>1. adapters \in [Adapters -> AdapterRuns \cup {Unstarted}]
    BY DEF IngestShape
  <2>2. r = [q EXCEPT !.out = out, !.step = s]
    BY <1>2 DEF AdapterRuns, With
  <2> QED
    BY <1>4, <2>1, <2>2, Zenon
<1>8. /\ adapters' \in [Adapters -> AdapterRuns \cup {Unstarted}]
      /\ adapters'[i] = r /\ r # Unstarted
      /\ \A b \in Adapters : b # i => adapters'[b] = adapters[b]
  BY <1>6, <1>7, Replaced
<1>9. Decoded' = Decoded /\ Wanted(i)' = Wanted(i)
  <2>1. Decoded' = Decoded
    BY <1>1 DEF Decoded, StartsLine
  <2>2. adapters'[i].export = adapters[i].export /\ adapters'[i].flows = adapters[i].flows
    BY <1>6, <1>8 DEF SameRun
  <2>3. Wanted(i)' = Wanted(i)
    BY <2>2, Zenon DEF Wanted
  <2> QED
    BY <2>1, <2>3
<1>10. ReadTrue(i)'
  BY <1>1, <1>2, <1>6, <1>8, <1>9 DEF RunTrue, ReadTrue, SameRun
<1>11. \A k \in DOMAIN pieces : pieces[k].by # i
  BY <1>1 DEF RunTrue, WritesNew
<1>12. WritesNew(i)' /\ WritesOnce(i)'
  BY <1>1, <1>11 DEF WritesNew, WritesOnce, EndedBy
<1>13. Buffered(i)'
  <2>1. CASE q.dry
    <3>1. adapters'[i].out = out /\ adapters'[i].step = s /\ s # "tail"
      BY <1>5, <1>6, <1>8
    <3> QED
      BY <1>5, <1>16, <2>1, <3>1, Zenon DEF Buffered
  <2>2. CASE ~q.dry
    <3>1. /\ \A k \in DOMAIN list : list[k] \notin q.known
          /\ \A j, k \in DOMAIN list : list[j] = list[k] => j = k
      BY <1>3 DEF ListsOnce
    <3>2. /\ adapters'[i].known = q.known /\ adapters'[i].out = list
          /\ adapters'[i].step \in Writing \cup {"failed"} /\ adapters'[i].step # "tail"
      BY <1>5, <1>6, <1>8, <2>2 DEF SameRun, Writing
    <3> QED
      BY <3>1, <3>2, Zenon DEF Buffered
  <2> QED
    BY <2>1, <2>2
<1>14. NoneLost(i)'
  <2>1. ASSUME NEW e \in Wanted(i), e \notin q.known
        PROVE  \E n \in DOMAIN list : list[n] = e
    <3>1. PICK k \in DOMAIN q.export : q.export[k] = e
      BY DEF Wanted
    <3>2. q.export[k] \in new
      BY <2>1, <3>1
    <3>3. \E n \in DOMAIN list : list[n] = q.export[k]
      BY <1>3, <3>2, Zenon DEF ListsOnce
    <3> QED
      BY <3>1, <3>3, Zenon
  <2>2. CASE q.dry
    <3>1. adapters'[i].dry
      BY <1>6, <1>8, <2>2 DEF SameRun
    <3> QED
      BY <3>1, Zenon DEF NoneLost
  <2>3. CASE ~q.dry
    <3>1. adapters'[i].known = q.known /\ adapters'[i].out = list
      BY <1>5, <1>6, <1>8, <2>3 DEF SameRun
    <3>2. \A e \in Wanted(i)' : e \in adapters'[i].known
                                \/ \E n \in DOMAIN adapters'[i].out : adapters'[i].out[n] = e
      BY <1>9, <2>1, <3>1, Zenon
    <3> QED
      BY <3>2, Zenon DEF NoneLost
  <2> QED
    BY <2>2, <2>3
<1>15. s = "done" => r.dry
  BY <1>5, <1>6 DEF SameRun
<1> QED
  BY <1>5, <1>6, <1>8, <1>10, <1>12, <1>13, <1>14, <1>15 DEF RunTrue

(* What a run has read stays true of a file that grows.                    *)
LEMMA StaysRead ==
  ASSUME IngestShape, NEW i \in Adapters, ReadTrue(i), adapters[i] \in AdapterRuns,
         adapters[i] # Unstarted, SameRun(adapters[i], adapters'[i]),
         \/ pieces' = pieces
         \/ \E p \in Pieces : pieces' = Append(pieces, p)
  PROVE  ReadTrue(i)'
<1> PICK q : q = adapters[i]
  OBVIOUS
<1>1. /\ q.since \in Nat /\ q.since <= Len(pieces)
      /\ \A e \in q.known : \E k \in Decoded : pieces[k].event = e
      /\ \A k \in Decoded : k <= q.since => pieces[k].event \in q.known
  BY DEF ReadTrue, AdapterRuns
<1>2. adapters'[i].since = q.since /\ adapters'[i].known = q.known
  BY DEF SameRun
<1>3. CASE pieces' = pieces
  <2>1. Decoded' = Decoded
    BY <1>3 DEF Decoded, StartsLine
  <2> QED
    BY <1>1, <1>2, <1>3, <2>1 DEF ReadTrue
<1>4. ASSUME NEW p \in Pieces, pieces' = Append(pieces, p)
      PROVE  ReadTrue(i)'
  <2> PICK n : n = Len(pieces)
    OBVIOUS
  <2>1. /\ n \in Nat /\ Len(pieces') = n + 1
        /\ DOMAIN pieces = 1..n /\ DOMAIN pieces' = 1..(n + 1)
        /\ \A k \in DOMAIN pieces : pieces'[k] = pieces[k]
        /\ \A k \in DOMAIN pieces : k \in Decoded' <=> k \in Decoded
    BY <1>4, LinesStay DEF IngestShape
  <2>2. /\ Decoded \subseteq DOMAIN pieces /\ Decoded' \subseteq DOMAIN pieces'
        /\ \A k \in DOMAIN pieces' : k \in DOMAIN pieces \/ k = n + 1
    BY <2>1 DEF Decoded
  <2>3. \A e \in q.known : \E k \in Decoded' : pieces'[k].event = e
    BY <1>1, <2>1, <2>2
  <2>4. \A k \in Decoded' : k <= q.since => pieces'[k].event \in q.known
    BY <1>1, <2>1, <2>2
  <2> QED
    BY <1>1, <1>2, <2>1, <2>3, <2>4 DEF ReadTrue
<1> QED
  BY <1>3, <1>4

(* The first of a sequence that is not empty, and the others.              *)
LEMMA HeadAndTail ==
  ASSUME NEW E, NEW s \in Seq(E), s # <<>>
  PROVE  /\ Len(s) \in Nat /\ Len(s) >= 1 /\ DOMAIN s = 1..Len(s)
         /\ Head(s) \in E /\ Head(s) = s[1]
         /\ Tail(s) \in Seq(E) /\ DOMAIN Tail(s) = 1..(Len(s) - 1)
         /\ \A n \in DOMAIN Tail(s) : Tail(s)[n] = s[n + 1] /\ n + 1 \in DOMAIN s
OBVIOUS

(* The line, or its tail, is written.                                      *)
LEMMA LineEnds ==
  ASSUME IngestShape, NEW i \in Adapters, RunTrue(i), adapters[i] \in AdapterRuns,
         adapters[i].step \in Writing, adapters[i].out # <<>>,
         NEW p \in Pieces, p.by = i, p.event = Head(adapters[i].out), p.part # "head",
         pieces' = Append(pieces, p),
         adapters'[i] # Unstarted, SameRun(adapters[i], adapters'[i]),
         adapters'[i].step = "write", adapters'[i].out = Tail(adapters[i].out)
  PROVE  RunTrue(i)'
<1> PICK q : q = adapters[i]
  OBVIOUS
<1> PICK r : r = adapters'[i]
  OBVIOUS
<1> PICK out : out = q.out
  OBVIOUS
<1> PICK rest : rest = Tail(out)
  OBVIOUS
<1> PICK n : n = Len(pieces)
  OBVIOUS
<1>1. q # Unstarted /\ out \in Seq(Sensed) /\ out # <<>> /\ q.since \in Nat
  BY RunsAreStarted DEF AdapterRuns
<1>2. /\ n \in Nat /\ DOMAIN pieces = 1..n /\ DOMAIN pieces' = 1..(n + 1)
      /\ \A k \in DOMAIN pieces : pieces'[k] = pieces[k]
      /\ pieces'[n + 1] = p
      /\ \A k \in DOMAIN pieces' : k \in DOMAIN pieces \/ k = n + 1
      /\ n + 1 \notin DOMAIN pieces /\ n + 1 \in DOMAIN pieces'
  BY LinesStay DEF IngestShape
<1>3. /\ 1 \in DOMAIN out /\ Head(out) = out[1] /\ out[1] \in Sensed
      /\ \A m \in DOMAIN rest : rest[m] = out[m + 1] /\ m + 1 \in DOMAIN out /\ m + 1 # 1
      /\ \A m \in DOMAIN out : m = 1 \/ (m - 1 \in DOMAIN rest /\ rest[m - 1] = out[m])
  <2>1. /\ Len(out) \in Nat /\ Len(out) >= 1 /\ DOMAIN out = 1..Len(out)
        /\ Head(out) = out[1]
        /\ DOMAIN rest = 1..(Len(out) - 1)
        /\ \A m \in DOMAIN rest : rest[m] = out[m + 1] /\ m + 1 \in DOMAIN out
    BY <1>1, HeadAndTail
  <2>2. 1 \in DOMAIN out /\ out[1] \in Sensed
    BY <1>1, <2>1
  <2>3. \A m \in DOMAIN rest : m + 1 # 1
    BY <2>1
  <2>4. ASSUME NEW m \in DOMAIN out, m # 1
        PROVE  m - 1 \in DOMAIN rest /\ rest[m - 1] = out[m]
    <3>1. m - 1 \in DOMAIN rest /\ (m - 1) + 1 = m
      BY <2>1, <2>4
    <3>2. rest[m - 1] = out[(m - 1) + 1]
      BY <2>1, <3>1
    <3> QED
      BY <3>1, <3>2
  <2> QED
    BY <2>1, <2>2, <2>3, <2>4
<1>4. p.event = out[1]
  BY <1>3
<1>5. /\ \A m \in DOMAIN out : out[m] \notin q.known
      /\ \A l, m \in DOMAIN out : out[l] = out[m] => l = m
  BY <1>1 DEF RunTrue, Buffered
<1>6. r.known = q.known /\ r.since = q.since /\ r.out = rest /\ r.step = "write"
      /\ r.dry = q.dry /\ r # Unstarted
  BY DEF SameRun
<1>7. ReadTrue(i)'
  BY <1>1, StaysRead DEF RunTrue
<1>8. q.since <= n
  BY <1>1 DEF RunTrue, ReadTrue
<1>9. WritesNew(i)'
  <2>1. \A k \in DOMAIN pieces : pieces[k].by = i =>
          q.since < k /\ pieces[k].event \in Sensed \ q.known
    BY DEF RunTrue, WritesNew
  <2>2. q.since < n + 1 /\ p.event \in Sensed \ q.known
    BY <1>1, <1>2, <1>3, <1>4, <1>5, <1>8
  <2> QED
    BY <1>2, <1>6, <2>1, <2>2 DEF WritesNew
<1>10. \A k \in DOMAIN pieces : EndedBy(i, k)' <=> EndedBy(i, k)
  BY <1>2 DEF EndedBy
<1>11. EndedBy(i, n + 1)'
  BY <1>2 DEF EndedBy
<1>12. \A k \in DOMAIN pieces : EndedBy(i, k) => \A m \in DOMAIN out : out[m] # pieces[k].event
  BY DEF RunTrue, WritesOnce
<1>13. WritesOnce(i)'
  <2>1. ASSUME NEW k \in DOMAIN pieces', EndedBy(i, k)', NEW j \in DOMAIN pieces',
               EndedBy(i, j)', pieces'[j].event = pieces'[k].event
        PROVE  j = k
    <3>1. \A h \in DOMAIN pieces : EndedBy(i, h) => pieces[h].event # p.event
      BY <1>3, <1>4, <1>12
    <3>2. \A h \in DOMAIN pieces : EndedBy(i, h)' => pieces'[h].event # pieces'[n + 1].event
      BY <1>2, <1>10, <3>1
    <3>3. CASE j \in DOMAIN pieces /\ k \in DOMAIN pieces
      BY <1>2, <1>10, <2>1, <3>3 DEF RunTrue, WritesOnce
    <3> QED
      BY <1>2, <2>1, <3>2, <3>3
  <2>2. ASSUME NEW k \in DOMAIN pieces', EndedBy(i, k)', NEW m \in DOMAIN rest
        PROVE  rest[m] # pieces'[k].event
    <3>1. rest[m] = out[m + 1] /\ m + 1 \in DOMAIN out /\ m + 1 # 1
      BY <1>3
    <3>2. rest[m] # p.event
      BY <1>3, <1>4, <1>5, <3>1
    <3>3. k \in DOMAIN pieces => rest[m] # pieces[k].event
      BY <1>10, <1>12, <2>2, <3>1
    <3> QED
      BY <1>2, <3>2, <3>3
  <2> QED
    BY <1>6, <2>1, <2>2 DEF WritesOnce
<1>14. Buffered(i)'
  <2>1. \A m \in DOMAIN rest : rest[m] \notin q.known
    BY <1>3, <1>5
  <2>2. ASSUME NEW l \in DOMAIN rest, NEW m \in DOMAIN rest, rest[l] = rest[m]
        PROVE  l = m
    <3>1. l + 1 = m + 1
      BY <1>3, <1>5, <2>2
    <3>2. l \in Nat /\ m \in Nat
      <4>1. DOMAIN rest = 1..(Len(out) - 1) /\ Len(out) \in Nat
        BY <1>1, HeadAndTail
      <4> QED
        BY <4>1
    <3> QED
      BY <3>1, <3>2
  <2> QED
    BY <1>6, <2>1, <2>2 DEF Buffered, Writing
<1>15. NoneLost(i)'
  <2> SUFFICES ASSUME ~q.dry, NEW e \in Wanted(i), e \notin q.known
               PROVE  \/ \E m \in DOMAIN rest : rest[m] = e
                      \/ \E k \in DOMAIN pieces' : EndedBy(i, k)' /\ pieces'[k].event = e
    <3>1. Wanted(i)' = Wanted(i)
      BY DEF Wanted, SameRun
    <3> QED
      BY <1>6, <3>1 DEF NoneLost
  <2>1. q.step \notin {"convert", "failed"}
    BY DEF Writing
  <2>2. \/ \E m \in DOMAIN out : out[m] = e
        \/ \E k \in DOMAIN pieces : EndedBy(i, k) /\ pieces[k].event = e
    BY <1>1, <2>1 DEF RunTrue, NoneLost
  <2>3. ASSUME NEW m \in DOMAIN out, out[m] = e, m # 1
        PROVE  \E l \in DOMAIN rest : rest[l] = e
    BY <1>3, <2>3
  <2>4. out[1] = e => EndedBy(i, n + 1)' /\ pieces'[n + 1].event = e
    BY <1>2, <1>4, <1>11
  <2>5. ASSUME NEW k \in DOMAIN pieces, EndedBy(i, k), pieces[k].event = e
        PROVE  k \in DOMAIN pieces' /\ EndedBy(i, k)' /\ pieces'[k].event = e
    BY <1>2, <1>10, <2>5
  <2> QED
    BY <1>2, <2>2, <2>3, <2>4, <2>5
<1> QED
  BY <1>7, <1>9, <1>13, <1>14, <1>15 DEF RunTrue

(* Only the head of the line is written.                                   *)
LEMMA LineBreaks ==
  ASSUME IngestShape, NEW i \in Adapters, RunTrue(i), adapters[i] \in AdapterRuns,
         adapters[i].step = "write", adapters[i].out # <<>>,
         NEW p \in Pieces, p.by = i, p.event = Head(adapters[i].out), p.part = "head",
         pieces' = Append(pieces, p),
         adapters'[i] # Unstarted, SameRun(adapters[i], adapters'[i]),
         adapters'[i].step = "tail", adapters'[i].out = adapters[i].out
  PROVE  RunTrue(i)'
<1> PICK q : q = adapters[i]
  OBVIOUS
<1> PICK r : r = adapters'[i]
  OBVIOUS
<1> PICK out : out = q.out
  OBVIOUS
<1> PICK n : n = Len(pieces)
  OBVIOUS
<1>1. q # Unstarted /\ out \in Seq(Sensed) /\ out # <<>> /\ q.since \in Nat
  BY RunsAreStarted DEF AdapterRuns
<1>2. /\ n \in Nat /\ DOMAIN pieces = 1..n /\ DOMAIN pieces' = 1..(n + 1)
      /\ \A k \in DOMAIN pieces : pieces'[k] = pieces[k]
      /\ pieces'[n + 1] = p
      /\ \A k \in DOMAIN pieces' : k \in DOMAIN pieces \/ k = n + 1
      /\ \A k \in DOMAIN pieces : k \in DOMAIN pieces'
  BY LinesStay DEF IngestShape
<1>3. 1 \in DOMAIN out /\ Head(out) = out[1] /\ out[1] \in Sensed
  <2>1. Len(out) \in Nat /\ Len(out) >= 1 /\ DOMAIN out = 1..Len(out) /\ Head(out) = out[1]
    BY <1>1, HeadAndTail
  <2> QED
    BY <1>1, <2>1
<1>4. p.event = out[1]
  BY <1>3
<1>5. r.known = q.known /\ r.since = q.since /\ r.out = out /\ r.step = "tail"
      /\ r.dry = q.dry /\ r # Unstarted
  BY DEF SameRun
<1>6. ReadTrue(i)'
  BY <1>1, StaysRead DEF RunTrue
<1>7. q.since <= n /\ \A m \in DOMAIN out : out[m] \notin q.known
  BY <1>1 DEF RunTrue, ReadTrue, Buffered
<1>8. WritesNew(i)'
  <2>1. \A k \in DOMAIN pieces : pieces[k].by = i =>
          q.since < k /\ pieces[k].event \in Sensed \ q.known
    BY DEF RunTrue, WritesNew
  <2>2. q.since < n + 1 /\ p.event \in Sensed \ q.known
    BY <1>1, <1>2, <1>3, <1>4, <1>7
  <2> QED
    BY <1>2, <1>5, <2>1, <2>2 DEF WritesNew
<1>9. \A k \in DOMAIN pieces' : EndedBy(i, k)' <=> k \in DOMAIN pieces /\ EndedBy(i, k)
  <2>1. ~EndedBy(i, n + 1)'
    BY <1>2 DEF EndedBy
  <2>2. \A k \in DOMAIN pieces : EndedBy(i, k)' <=> EndedBy(i, k)
    BY <1>2 DEF EndedBy
  <2>3. n + 1 \notin DOMAIN pieces
    BY <1>2
  <2> QED
    BY <1>2, <2>1, <2>2, <2>3
<1>10. WritesOnce(i)'
  BY <1>2, <1>5, <1>9 DEF RunTrue, WritesOnce
<1>11. Buffered(i)'
  BY <1>1, <1>5 DEF RunTrue, Buffered, Writing
<1>12. NoneLost(i)'
  <2>1. Wanted(i)' = Wanted(i)
    BY DEF Wanted, SameRun
  <2>2. q.step \notin {"convert", "failed"}
    OBVIOUS
  <2> QED
    BY <1>1, <1>2, <1>5, <1>9, <2>1, <2>2 DEF RunTrue, NoneLost
<1> QED
  BY <1>6, <1>8, <1>10, <1>11, <1>12 DEF RunTrue

(* Writing a line, its head or its tail.                                   *)
LEMMA WriteRuns ==
  ASSUME IngestShape, NEW i \in Adapters, RunTrue(i), WriteLine(i) \/ WriteTail(i)
  PROVE  /\ adapters' \in [Adapters -> AdapterRuns \cup {Unstarted}]
         /\ RunTrue(i)' /\ adapters'[i].step \in Writing
         /\ \A b \in Adapters : b # i => adapters'[b] = adapters[b]
         /\ \E p \in Pieces : pieces' = Append(pieces, p) /\ p.by = i
<1> PICK q : q = adapters[i]
  OBVIOUS
<1>1. adapters[i].step \in Writing /\ UNCHANGED wfVars
  BY DEF WriteLine, WriteTail, Adapter, Writing
<1>2. q \in AdapterRuns /\ q # Unstarted /\ q.out \in Seq(Sensed)
  <2>1. q \in AdapterRuns /\ q # Unstarted
    BY <1>1, AtStep DEF Writing
  <2> QED
    BY <2>1 DEF AdapterRuns
<1>3. q.out # <<>>
  BY <1>2 DEF WriteLine, WriteTail, Adapter, RunTrue, Buffered
<1>4. Head(q.out) \in Sensed /\ Tail(q.out) \in Seq(Sensed)
  BY <1>2, <1>3, HeadAndTail
<1> PICK e : e = Head(q.out)
  OBVIOUS
<1> PICK rest : rest = Tail(q.out)
  OBVIOUS
<1> PICK out : out = q.out
  OBVIOUS
<1>5. ASSUME NEW part \in {"whole", "head", "tail"}
      PROVE  /\ Piece(e, i, part) \in Pieces
             /\ Piece(e, i, part).event = e /\ Piece(e, i, part).by = i
             /\ Piece(e, i, part).part = part
  BY <1>4 DEF Piece, Pieces
<1>6. adapters \in [Adapters -> AdapterRuns \cup {Unstarted}]
  BY DEF IngestShape
<1>11. /\ With(q, "write", rest) \in AdapterRuns /\ SameRun(q, With(q, "write", rest))
       /\ With(q, "write", rest).step = "write" /\ With(q, "write", rest).out = rest
       /\ With(q, "tail", out) \in AdapterRuns /\ SameRun(q, With(q, "tail", out))
       /\ With(q, "tail", out).step = "tail" /\ With(q, "tail", out).out = out
  <2>1. /\ "write" \in {"convert", "workflow", "done", "failed"} \cup Writing \cup Opening
        /\ "tail" \in {"convert", "workflow", "done", "failed"} \cup Writing \cup Opening
    BY DEF Writing
  <2>2. q \in AdapterRuns /\ rest \in Seq(Sensed) /\ out \in Seq(Sensed)
    BY <1>2, <1>4
  <2>3. /\ With(q, "write", rest) \in AdapterRuns /\ SameRun(q, With(q, "write", rest))
        /\ With(q, "write", rest).step = "write" /\ With(q, "write", rest).out = rest
    <3>1. \A x \in Seq(Sensed) :
            /\ With(q, "write", x) \in AdapterRuns /\ SameRun(q, With(q, "write", x))
            /\ With(q, "write", x).step = "write" /\ With(q, "write", x).out = x
      BY <2>1, <2>2, NewStep
    <3> QED
      BY <2>2, <3>1, Zenon
  <2>4. /\ With(q, "tail", out) \in AdapterRuns /\ SameRun(q, With(q, "tail", out))
        /\ With(q, "tail", out).step = "tail" /\ With(q, "tail", out).out = out
    BY <2>1, <2>2, NewStep
  <2> QED
    BY <2>3, <2>4
<1>7. ASSUME NEW part \in {"whole", "tail"}, Put(i, part),
             \/ /\ q.step = "write"
                /\ adapters' = [adapters EXCEPT ![i].out = Tail(@)]
             \/ adapters' = [adapters EXCEPT ![i].step = "write", ![i].out = Tail(@)]
      PROVE  /\ adapters' \in [Adapters -> AdapterRuns \cup {Unstarted}]
             /\ RunTrue(i)' /\ adapters'[i].step \in Writing
             /\ \A b \in Adapters : b # i => adapters'[b] = adapters[b]
             /\ \E p \in Pieces : pieces' = Append(pieces, p) /\ p.by = i
  <2> PICK r : r = With(q, "write", rest)
    OBVIOUS
  <2>1. r \in AdapterRuns /\ SameRun(q, r) /\ r.step = "write" /\ r.out = rest
    BY <1>11, Zenon
  <2>2. adapters' = [adapters EXCEPT ![i] = r]
    <3>1. ASSUME q.step = "write", adapters' = [adapters EXCEPT ![i].out = Tail(@)]
          PROVE  adapters' = [adapters EXCEPT ![i] = r]
      <4>1. r = [q EXCEPT !.out = rest]
        BY <1>2, <3>1 DEF AdapterRuns, With
      <4> QED
        BY <1>6, <3>1, <4>1, Zenon
    <3>2. ASSUME adapters' = [adapters EXCEPT ![i].step = "write", ![i].out = Tail(@)]
          PROVE  adapters' = [adapters EXCEPT ![i] = r]
      BY <1>6, <3>2, Zenon DEF With
    <3> QED
      BY <1>7, <3>1, <3>2
  <2>3. /\ adapters' \in [Adapters -> AdapterRuns \cup {Unstarted}]
        /\ adapters'[i] = r /\ r # Unstarted
        /\ \A b \in Adapters : b # i => adapters'[b] = adapters[b]
    BY <2>1, <2>2, Replaced
  <2> PICK p : p = Piece(e, i, part)
    OBVIOUS
  <2>4. p \in Pieces /\ p.event = e /\ p.by = i /\ p.part # "head"
    BY <1>5
  <2>5. pieces' = Append(pieces, p)
    BY <1>7 DEF Put
  <2>6. RunTrue(i)'
    BY <1>1, <1>2, <1>3, <2>1, <2>3, <2>4, <2>5, LineEnds
  <2> QED
    BY <2>1, <2>3, <2>4, <2>5, <2>6 DEF Writing
<1>8. ASSUME q.step = "write", Put(i, "head"),
             adapters' = [adapters EXCEPT ![i].step = "tail"]
      PROVE  /\ adapters' \in [Adapters -> AdapterRuns \cup {Unstarted}]
             /\ RunTrue(i)' /\ adapters'[i].step \in Writing
             /\ \A b \in Adapters : b # i => adapters'[b] = adapters[b]
             /\ \E p \in Pieces : pieces' = Append(pieces, p) /\ p.by = i
  <2> PICK r : r = With(q, "tail", out)
    OBVIOUS
  <2>1. r \in AdapterRuns /\ SameRun(q, r) /\ r.step = "tail" /\ r.out = q.out
    BY <1>11, Zenon
  <2>2. adapters' = [adapters EXCEPT ![i] = r]
    <3>1. r = [q EXCEPT !.step = "tail"]
      BY <1>2 DEF AdapterRuns, With
    <3> QED
      BY <1>6, <1>8, <3>1, Zenon
  <2>3. /\ adapters' \in [Adapters -> AdapterRuns \cup {Unstarted}]
        /\ adapters'[i] = r /\ r # Unstarted
        /\ \A b \in Adapters : b # i => adapters'[b] = adapters[b]
    BY <2>1, <2>2, Replaced
  <2> PICK p : p = Piece(e, i, "head")
    OBVIOUS
  <2>4. p \in Pieces /\ p.event = e /\ p.by = i /\ p.part = "head"
    BY <1>5
  <2>5. pieces' = Append(pieces, p)
    BY <1>8 DEF Put
  <2>6. RunTrue(i)'
    BY <1>2, <1>3, <1>8, <2>1, <2>3, <2>4, <2>5, LineBreaks
  <2> QED
    BY <2>1, <2>3, <2>4, <2>5, <2>6 DEF Writing
<1>9. CASE WriteLine(i)
  BY <1>7, <1>8, <1>9 DEF WriteLine, Adapter
<1>10. CASE WriteTail(i)
  BY <1>7, <1>10 DEF WriteTail
<1> QED
  BY <1>9, <1>10

(* What has been written, or is to be written by nobody, goes on.          *)
LEMMA StepRuns ==
  ASSUME IngestShape, NEW i \in Adapters, RunTrue(i),
         adapters[i].step \in {"write", "workflow"} \cup Opening,
         adapters[i].step = "write" => adapters[i].out = <<>>,
         NEW s \in {"workflow", "done", "failed"} \cup Opening,
         adapters' = [adapters EXCEPT ![i].step = s], pieces' = pieces
  PROVE  /\ adapters' \in [Adapters -> AdapterRuns \cup {Unstarted}]
         /\ RunTrue(i)' /\ adapters'[i].step = s
         /\ adapters'[i].workflow = adapters[i].workflow
         /\ adapters'[i].dry = adapters[i].dry
         /\ \A b \in Adapters : b # i => adapters'[b] = adapters[b]
<1> PICK q : q = adapters[i]
  OBVIOUS
<1>1. q \in AdapterRuns /\ q # Unstarted /\ q.out \in Seq(Sensed)
  <2>1. q \in AdapterRuns /\ q # Unstarted
    BY AtStep DEF Opening
  <2> QED
    BY <2>1 DEF AdapterRuns
<1>2. q.out = <<>>
  BY <1>1 DEF RunTrue, Buffered, Opening, Writing
<1> PICK out : out = q.out
  OBVIOUS
<1> PICK r : r = With(q, s, out)
  OBVIOUS
<1>3. r \in AdapterRuns /\ SameRun(q, r) /\ r.step = s /\ r.out = <<>>
  <2>1. s \in {"convert", "workflow", "done", "failed"} \cup Writing \cup Opening
    OBVIOUS
  <2>2. /\ With(q, s, out) \in AdapterRuns /\ SameRun(q, With(q, s, out))
        /\ With(q, s, out).step = s /\ With(q, s, out).out = out
    <3>1. q \in AdapterRuns /\ out \in Seq(Sensed)
      BY <1>1
    <3>2. Stepped(q, s, out)
      BY <2>1, <3>1, NewSteps, Zenon
    <3> QED
      BY <3>2, Zenon DEF Stepped
  <2> QED
    BY <1>1, <1>2, <2>2
<1>4. adapters' = [adapters EXCEPT ![i] = r]
  <2>1. adapters \in [Adapters -> AdapterRuns \cup {Unstarted}]
    BY DEF IngestShape
  <2>2. r = [q EXCEPT !.step = s]
    BY <1>1 DEF AdapterRuns, With
  <2> QED
    BY <2>1, <2>2, Zenon
<1>5. /\ adapters' \in [Adapters -> AdapterRuns \cup {Unstarted}]
      /\ adapters'[i] = r /\ r # Unstarted
      /\ \A b \in Adapters : b # i => adapters'[b] = adapters[b]
  BY <1>3, <1>4, Replaced
<1>6. ReadTrue(i)'
  BY <1>1, <1>3, <1>5, StaysRead DEF RunTrue
<1>7. WritesNew(i)' /\ WritesOnce(i)'
  BY <1>3, <1>5 DEF RunTrue, WritesNew, WritesOnce, EndedBy, SameRun, Opening
<1>8. Buffered(i)'
  <2>1. s # "tail"
    BY DEF Opening
  <2>2. \A n \in DOMAIN r.out : FALSE
    BY <1>3
  <2> QED
    BY <1>3, <1>5, <2>1, <2>2, Zenon DEF Buffered
<1>9. NoneLost(i)'
  <2>1. Wanted(i)' = Wanted(i)
    BY <1>3, <1>5 DEF Wanted, SameRun
  <2>2. q.step \notin {"convert", "failed"}
    BY DEF Opening
  <2>3. \A n \in DOMAIN q.out : FALSE
    BY <1>2
  <2> QED
    BY <1>1, <1>3, <1>5, <2>1, <2>2, <2>3 DEF RunTrue, NoneLost, EndedBy, SameRun
<1> QED
  BY <1>3, <1>5, <1>6, <1>7, <1>8, <1>9 DEF RunTrue, SameRun

-----------------------------------------------------------------------------
(* The workflow.                                                           *)

(* A session that is neither new nor received is being investigated.       *)
LEMMA LooksOpened ==
  ASSUME IngestShape, JournalOpened, NEW s, StateOf(s) \notin {"none", "received"}
  PROVE  \E k \in DOMAIN journal : journal[k].state = "investigating"
<1> PICK n : n = Len(journal)
  OBVIOUS
<1> PICK mine : mine = {k \in DOMAIN journal : journal[k].session = s}
  OBVIOUS
<1>1. n \in Nat /\ mine \in SUBSET (1..n) /\ mine \subseteq DOMAIN journal
  BY DEF IngestShape
<1>2. mine # {}
  BY DEF StateOf
<1>3. Max(mine) \in mine
  BY <1>1, <1>2, Greatest
<1>4. StateOf(s) = journal[Max(mine)].state
  BY <1>2 DEF StateOf
<1>5. journal[Max(mine)].state \in Opening
  BY <1>1, <1>3 DEF JournalOpened
<1> QED
  BY <1>1, <1>3, <1>4, <1>5 DEF Opening

(* Beside a run that is not opening the workflow nothing is on its way.    *)
LEMMA OthersOpened ==
  ASSUME IngestShape, NEW i \in Adapters, OpenedBy(i), adapters'[i] = adapters[i],
         transit'[i] = transit[i],
         journal' = journal \/ \E e : journal' = Append(journal, e)
  PROVE  OpenedBy(i)'
<1>1. \A k \in DOMAIN journal : k \in DOMAIN journal' /\ journal'[k] = journal[k]
  BY DEF IngestShape
<1> QED
  BY <1>1 DEF OpenedBy

(* The store is asked to append, appends, or refuses.                      *)
LEMMA OpenRuns ==
  ASSUME IngestShape, JournalOpened, NEW i \in Adapters, RunTrue(i), OpenWorkflow(i)
  PROVE  /\ adapters' \in [Adapters -> AdapterRuns \cup {Unstarted}]
         /\ RunTrue(i)' /\ pieces' = pieces
         /\ \E E : journal' \in Seq(E)
         /\ \E F : transit' \in [Movers -> F]
         /\ \A b \in Adapters : b # i => adapters'[b] = adapters[b]
         /\ JournalOpened'
<1>1. /\ adapters[i].step \in Opening /\ pieces' = pieces /\ i \in Movers
      /\ adapters[i] \in AdapterRuns /\ adapters[i] # Unstarted
  BY AtStep, IngestAssumption DEF OpenWorkflow, Opening
<1>2. PICK E, F : journal \in Seq(E) /\ transit \in [Movers -> F]
  BY DEF IngestShape
<1>3. /\ OpenedBy(i) /\ \A b \in Adapters : OpenedBy(b)
      /\ \A k \in DOMAIN journal : journal[k].state \in Opening
  BY DEF JournalOpened
<1>4. ASSUME CheckTransition(i, IngestSession, adapters[i].step), UNCHANGED adapters
      PROVE  /\ journal' = journal /\ \E G : transit' \in [Movers -> G]
             /\ \A b \in Adapters : b # i => transit'[b] = transit[b]
             /\ RunTrue(i)' /\ OpenedBy(i)'
  <2> PICK t : t = [session |-> IngestSession, previous |-> StateOf(IngestSession),
                    state |-> adapters[i].step]
    OBVIOUS
  <2>1. journal' = journal /\ transit' = [transit EXCEPT ![i] = t]
    BY <1>4 DEF CheckTransition
  <2>2. transit' \in [Movers -> F \cup {t}] /\ transit'[i] = t
    BY <1>1, <1>2, <2>1
  <2>3. t.state = adapters[i].step
    OBVIOUS
  <2>4. RunTrue(i)'
    BY <1>1, <1>4, OthersRunOn
  <2>5. OpenedBy(i)'
    BY <1>1, <1>4, <2>2, <2>3 DEF OpenedBy, Opening
  <2>6. \A b \in Adapters : b # i => transit'[b] = transit[b]
    BY <1>2, <2>1, IngestAssumption
  <2> QED
    BY <2>1, <2>2, <2>4, <2>5, <2>6
<1>5. ASSUME AppendTransition(i),
             adapters' = [adapters EXCEPT ![i].step =
               IF @ = "received" THEN "investigating" ELSE "done"]
      PROVE  /\ journal' = Append(journal, transit[i]) /\ transit[i].state \in Opening
             /\ \E G : transit' \in [Movers -> G]
             /\ \A b \in Adapters : b # i => transit'[b] = transit[b]
             /\ RunTrue(i)' /\ OpenedBy(i)'
             /\ adapters' \in [Adapters -> AdapterRuns \cup {Unstarted}]
             /\ \A b \in Adapters : b # i => adapters'[b] = adapters[b]
  <2> PICK s : s = IF adapters[i].step = "received" THEN "investigating" ELSE "done"
    OBVIOUS
  <2>1. adapters' = [adapters EXCEPT ![i].step = s]
    BY <1>5
  <2>2. s \in {"workflow", "done", "failed"} \cup Opening
    BY DEF Opening
  <2>3. /\ adapters' \in [Adapters -> AdapterRuns \cup {Unstarted}]
        /\ RunTrue(i)' /\ adapters'[i].step = s
        /\ \A b \in Adapters : b # i => adapters'[b] = adapters[b]
    <3>1. adapters[i].step # "write" /\ adapters[i].step \in {"write", "workflow"} \cup Opening
      BY <1>1 DEF Opening
    <3> QED
      BY <1>1, <2>1, <2>2, <3>1, StepRuns
  <2>4. /\ transit[i] # NoEvent /\ journal' = Append(journal, transit[i])
        /\ transit' = [transit EXCEPT ![i] = NoEvent]
    BY <1>5 DEF AppendTransition
  <2>5. transit' \in [Movers -> F \cup {NoEvent}] /\ transit'[i] = NoEvent
    BY <1>1, <1>2, <2>4
  <2>6. transit[i].state = adapters[i].step
    BY <1>3, <2>4 DEF OpenedBy
  <2>7. s = "done" => transit[i].state = "investigating"
    BY <1>1, <2>6 DEF Opening
  <2>8. Len(journal) + 1 \in DOMAIN journal' /\ journal'[Len(journal) + 1] = transit[i]
    BY <1>2, <2>4
  <2>9. OpenedBy(i)'
    BY <2>3, <2>5, <2>7, <2>8 DEF OpenedBy
  <2>10. \A b \in Adapters : b # i => transit'[b] = transit[b]
    BY <1>2, <2>4, IngestAssumption
  <2> QED
    BY <1>1, <2>3, <2>4, <2>5, <2>6, <2>9, <2>10
<1>6. ASSUME transit[i] = NoEvent, adapters' = [adapters EXCEPT ![i].step = "failed"],
             UNCHANGED wfVars
      PROVE  /\ journal' = journal /\ transit' = transit
             /\ RunTrue(i)' /\ OpenedBy(i)'
             /\ adapters' \in [Adapters -> AdapterRuns \cup {Unstarted}]
             /\ \A b \in Adapters : b # i => adapters'[b] = adapters[b]
  <2>1. adapters[i].step # "write" /\ adapters[i].step \in {"write", "workflow"} \cup Opening
    BY <1>1 DEF Opening
  <2>2. /\ adapters' \in [Adapters -> AdapterRuns \cup {Unstarted}]
        /\ RunTrue(i)' /\ adapters'[i].step = "failed"
        /\ \A b \in Adapters : b # i => adapters'[b] = adapters[b]
    BY <1>1, <1>6, <2>1, StepRuns
  <2>3. OpenedBy(i)'
    BY <1>6, <2>2 DEF OpenedBy, wfVars
  <2> QED
    BY <1>6, <2>2, <2>3 DEF wfVars
<1>7. ASSUME journal' = journal \/ (journal' = Append(journal, transit[i])
                                      /\ transit[i].state \in Opening)
      PROVE  /\ \E G : journal' \in Seq(G)
             /\ \A k \in DOMAIN journal' : journal'[k].state \in Opening
  <2>1. CASE journal' = journal
    BY <1>2, <1>3, <2>1
  <2>2. ASSUME journal' = Append(journal, transit[i]), transit[i].state \in Opening
        PROVE  /\ \E G : journal' \in Seq(G)
               /\ \A k \in DOMAIN journal' : journal'[k].state \in Opening
    <3> PICK t : t = transit[i]
      OBVIOUS
    <3>1. journal \in Seq(E \cup {t}) /\ t \in E \cup {t}
      BY <1>2
    <3>2. journal' \in Seq(E \cup {t})
      BY <2>2, <3>1
    <3>3. \A k \in DOMAIN journal' : (k \in DOMAIN journal /\ journal'[k] = journal[k])
                                     \/ journal'[k] = t
      BY <1>2, <2>2
    <3> QED
      BY <1>3, <2>2, <3>2, <3>3
  <2> QED
    BY <1>7, <2>1, <2>2
<1>8. ASSUME \A b \in Adapters : b # i => adapters'[b] = adapters[b],
             \A b \in Adapters : b # i => transit'[b] = transit[b],
             journal' = journal \/ \E e : journal' = Append(journal, e),
             OpenedBy(i)'
      PROVE  \A b \in Adapters : OpenedBy(b)'
  BY <1>3, <1>8, OthersOpened
<1>9. /\ CheckTransition(i, IngestSession, adapters[i].step) /\ UNCHANGED adapters
      => /\ adapters' \in [Adapters -> AdapterRuns \cup {Unstarted}]
         /\ \A b \in Adapters : b # i => adapters'[b] = adapters[b]
  BY DEF IngestShape
<1>10. ASSUME CheckTransition(i, IngestSession, adapters[i].step), UNCHANGED adapters
       PROVE  JournalOpened'
  BY <1>4, <1>7, <1>8, <1>9, <1>10 DEF JournalOpened
<1>11. ASSUME AppendTransition(i),
              adapters' = [adapters EXCEPT ![i].step =
                IF @ = "received" THEN "investigating" ELSE "done"]
       PROVE  JournalOpened' /\ \E G : journal' \in Seq(G)
  BY <1>5, <1>7, <1>8, <1>11 DEF JournalOpened
<1>12. ASSUME transit[i] = NoEvent, adapters' = [adapters EXCEPT ![i].step = "failed"],
              UNCHANGED wfVars
       PROVE  JournalOpened'
  BY <1>6, <1>7, <1>8, <1>12 DEF JournalOpened
<1>13. \/ CheckTransition(i, IngestSession, adapters[i].step) /\ UNCHANGED adapters
       \/ /\ AppendTransition(i)
          /\ adapters' = [adapters EXCEPT ![i].step =
               IF @ = "received" THEN "investigating" ELSE "done"]
       \/ /\ transit[i] = NoEvent
          /\ adapters' = [adapters EXCEPT ![i].step = "failed"]
          /\ UNCHANGED wfVars
  BY DEF OpenWorkflow
<1> QED
  BY <1>1, <1>2, <1>4, <1>5, <1>6, <1>9, <1>10, <1>11, <1>12, <1>13

-----------------------------------------------------------------------------
(* All steps.                                                              *)

(* A run that neither waits for the store nor says that it is done keeps   *)
(* the workflow's side.                                                    *)
LEMMA RunKeepsOpened ==
  ASSUME IngestShape, JournalOpened, NEW i \in Adapters, UNCHANGED wfVars,
         adapters[i].step \notin Opening, transit[i] = NoEvent,
         \/ adapters'[i].step # "done"
         \/ ~adapters'[i].workflow \/ adapters'[i].dry
         \/ \E k \in DOMAIN journal : journal[k].state = "investigating",
         \A b \in Adapters : b # i => adapters'[b] = adapters[b]
  PROVE  JournalOpened'
<1>1. journal' = journal /\ transit' = transit
  BY DEF wfVars
<1>2. OpenedBy(i)'
  BY <1>1 DEF OpenedBy
<1>3. \A b \in Adapters : b # i => OpenedBy(b)'
  BY <1>1, OthersOpened DEF JournalOpened
<1> QED
  BY <1>1, <1>2, <1>3 DEF JournalOpened

(* Nothing is on its way for a run that is not opening the workflow.       *)
LEMMA NothingOnItsWay ==
  ASSUME JournalOpened, NEW i \in Adapters, adapters[i].step \notin Opening
  PROVE  transit[i] = NoEvent
BY DEF JournalOpened, OpenedBy

(* What a step of run i must bring.                                        *)
RunMoves(i) ==
  /\ adapters' \in [Adapters -> AdapterRuns \cup {Unstarted}]
  /\ RunTrue(i)'
  /\ \A b \in Adapters : b # i => adapters'[b] = adapters[b]

LEMMA RunsKeep ==
  ASSUME IngestInvariant, NEW i \in Adapters, RunMoves(i), JournalOpened',
         \/ pieces' = pieces
         \/ \E p \in Pieces : pieces' = Append(pieces, p) /\ p.by = i,
         \E E : journal' \in Seq(E), \E F : transit' \in [Movers -> F]
  PROVE  IngestInvariant'
<1>1. IngestShape /\ GatewayAlone /\ \A b \in Adapters : RunTrue(b)
  BY DEF IngestInvariant
<1>2. ASSUME NEW b \in Adapters, b # i
      PROVE  RunTrue(b)'
  <2>1. adapters'[b] = adapters[b] /\ RunTrue(b)
    BY <1>1, <1>2 DEF RunMoves
  <2>2. \/ pieces' = pieces
        \/ \E p \in Pieces : pieces' = Append(pieces, p) /\ p.by # b
    BY <1>2
  <2> QED
    BY <1>1, <2>1, <2>2, OthersRunOn
<1>3. pieces' \in Seq(Pieces) /\ GatewayAlone'
  <2>1. CASE pieces' = pieces
    BY <1>1, <2>1 DEF IngestShape, GatewayAlone
  <2>2. ASSUME NEW p \in Pieces, pieces' = Append(pieces, p), p.by = i
        PROVE  pieces' \in Seq(Pieces) /\ GatewayAlone'
    <3>1. /\ pieces' \in Seq(Pieces)
          /\ \A k \in DOMAIN pieces' : \/ k \in DOMAIN pieces /\ pieces'[k] = pieces[k]
                                       \/ pieces'[k] = p
      BY <1>1, <2>2, LinesStay DEF IngestShape
    <3>2. p.by # TheGateway
      BY <2>2, IngestAssumption
    <3> QED
      BY <1>1, <3>1, <3>2 DEF GatewayAlone
  <2> QED
    BY <2>1, <2>2
<1>4. IngestShape'
  BY <1>3 DEF IngestShape, RunMoves
<1>5. \A b \in Adapters : RunTrue(b)'
  BY <1>2 DEF RunMoves
<1> QED
  BY <1>3, <1>4, <1>5 DEF IngestInvariant

(* The gateway appends a line of its own.                                  *)
LEMMA GatewayKeeps ==
  ASSUME IngestInvariant, GatewayAppends
  PROVE  IngestInvariant'
<1> PICK p : p = Piece(TheGateway, TheGateway, "whole")
  OBVIOUS
<1>1. p \in Pieces /\ p.by = TheGateway /\ p.event = TheGateway
  BY DEF Piece, Pieces
<1>2. /\ IngestShape /\ GatewayAlone /\ JournalOpened
      /\ \A b \in Adapters : RunTrue(b)
      /\ pieces' = Append(pieces, p) /\ UNCHANGED <<adapters, wfVars>>
  BY DEF IngestInvariant, GatewayAppends
<1>3. /\ pieces' \in Seq(Pieces)
      /\ \A k \in DOMAIN pieces' : \/ k \in DOMAIN pieces /\ pieces'[k] = pieces[k]
                                   \/ pieces'[k] = p
  BY <1>1, <1>2, LinesStay DEF IngestShape
<1>4. GatewayAlone'
  BY <1>1, <1>2, <1>3 DEF GatewayAlone
<1>5. \A b \in Adapters : p.by # b
  BY <1>1, IngestAssumption
<1>6. \A b \in Adapters : RunTrue(b)'
  BY <1>1, <1>2, <1>5, OthersRunOn
<1>7. JournalOpened'
  BY <1>2 DEF JournalOpened, OpenedBy, wfVars
<1>8. IngestShape'
  BY <1>2, <1>3 DEF IngestShape, wfVars
<1> QED
  BY <1>4, <1>6, <1>7, <1>8 DEF IngestInvariant

(* A run starts, converts, writes, or looks at the workflow.               *)
LEMMA RunKeeps ==
  ASSUME IngestInvariant, NEW i \in Adapters,
         \/ \E export \in Exports, flows, dry, workflow \in BOOLEAN :
              StartAdapter(i, export, flows, dry, workflow)
         \/ Convert(i) \/ WriteLine(i) \/ WriteTail(i) \/ Written(i) \/ LookAtWorkflow(i)
  PROVE  IngestInvariant'
<1>1. /\ IngestShape /\ JournalOpened /\ RunTrue(i)
      /\ adapters[i].step \notin Opening /\ UNCHANGED wfVars
  BY DEF IngestInvariant, StartAdapter, Convert, WriteLine, WriteTail, Written,
         LookAtWorkflow, Adapter, Opening
<1>2. transit[i] = NoEvent
  BY <1>1, NothingOnItsWay
<1>3. /\ RunMoves(i)
      /\ \/ pieces' = pieces
         \/ \E p \in Pieces : pieces' = Append(pieces, p) /\ p.by = i
      /\ \/ adapters'[i].step # "done"
         \/ ~adapters'[i].workflow \/ adapters'[i].dry
         \/ \E k \in DOMAIN journal : journal[k].state = "investigating"
  <2>1. ASSUME NEW export \in Exports, NEW flows \in BOOLEAN, NEW dry \in BOOLEAN,
               NEW workflow \in BOOLEAN, StartAdapter(i, export, flows, dry, workflow)
        PROVE  RunMoves(i) /\ pieces' = pieces /\ adapters'[i].step # "done"
    <3>1. pieces' = pieces
      BY <2>1 DEF StartAdapter
    <3> QED
      BY <1>1, <2>1, <3>1, StartRuns DEF RunMoves
  <2>2. ASSUME Convert(i)
        PROVE  /\ RunMoves(i) /\ pieces' = pieces
               /\ adapters'[i].step # "done" \/ adapters'[i].dry
    <3>1. pieces' = pieces
      BY <2>2 DEF Convert
    <3> QED
      BY <1>1, <2>2, <3>1, ConvertRuns DEF RunMoves
  <2>3. ASSUME WriteLine(i) \/ WriteTail(i)
        PROVE  /\ RunMoves(i) /\ adapters'[i].step # "done"
               /\ \E p \in Pieces : pieces' = Append(pieces, p) /\ p.by = i
    BY <1>1, <2>3, WriteRuns DEF RunMoves, Writing
  <2>4. ASSUME Written(i)
        PROVE  /\ RunMoves(i) /\ pieces' = pieces
               /\ adapters'[i].step # "done" \/ ~adapters'[i].workflow
    <3> PICK s : s = IF adapters[i].workflow THEN "workflow" ELSE "done"
      OBVIOUS
    <3>1. /\ adapters[i].step = "write" /\ adapters[i].out = <<>> /\ pieces' = pieces
          /\ adapters' = [adapters EXCEPT ![i].step = s]
      BY <2>4 DEF Written, Adapter
    <3>2. s \in {"workflow", "done", "failed"} \cup Opening
      OBVIOUS
    <3>3. RunMoves(i) /\ adapters'[i].step = s /\ adapters'[i].workflow = adapters[i].workflow
      BY <1>1, <3>1, <3>2, StepRuns DEF RunMoves
    <3> QED
      BY <3>1, <3>3
  <2>5. ASSUME LookAtWorkflow(i)
        PROVE  /\ RunMoves(i) /\ pieces' = pieces
               /\ \/ adapters'[i].step # "done"
                  \/ \E k \in DOMAIN journal : journal[k].state = "investigating"
    <3> PICK found : found = StateOf(IngestSession)
      OBVIOUS
    <3> PICK s : s = CASE found = "none" -> "received"
                       [] found = "received" -> "investigating"
                       [] OTHER -> "done"
      OBVIOUS
    <3>1. /\ adapters[i].step = "workflow" /\ pieces' = pieces
          /\ adapters' = [adapters EXCEPT ![i].step = s]
      BY <2>5 DEF LookAtWorkflow, Adapter
    <3>2. /\ s \in {"workflow", "done", "failed"} \cup Opening
          /\ s = "done" => found \notin {"none", "received"}
      BY DEF Opening
    <3>3. RunMoves(i) /\ adapters'[i].step = s
      BY <1>1, <3>1, <3>2, StepRuns DEF RunMoves
    <3>4. s = "done" => \E k \in DOMAIN journal : journal[k].state = "investigating"
      BY <1>1, <3>2, LooksOpened
    <3> QED
      BY <3>1, <3>3, <3>4
  <2> QED
    BY <2>1, <2>2, <2>3, <2>4, <2>5
<1>4. JournalOpened'
  BY <1>1, <1>2, <1>3, RunKeepsOpened DEF RunMoves
<1>5. (\E E : journal' \in Seq(E)) /\ (\E F : transit' \in [Movers -> F])
  BY <1>1 DEF IngestShape, wfVars
<1> QED
  BY <1>3, <1>4, <1>5, RunsKeep

(* The store opens the workflow for a run.                                 *)
LEMMA OpeningKeeps ==
  ASSUME IngestInvariant, NEW i \in Adapters, OpenWorkflow(i)
  PROVE  IngestInvariant'
<1>1. IngestShape /\ JournalOpened /\ RunTrue(i)
  BY DEF IngestInvariant
<1>2. /\ RunMoves(i) /\ pieces' = pieces /\ JournalOpened'
      /\ \E E : journal' \in Seq(E)
      /\ \E F : transit' \in [Movers -> F]
  BY <1>1, OpenRuns DEF RunMoves
<1> QED
  BY <1>2, RunsKeep

(* Before any run has started.                                             *)
LEMMA IngestStarts ==
  ASSUME IngestInit
  PROVE  IngestInvariant
<1>1. /\ pieces = <<>> /\ journal = <<>>
      /\ adapters = [i \in Adapters |-> Unstarted]
      /\ transit = [m \in Movers |-> NoEvent]
  BY DEF IngestInit, WorkflowInit
<1>2. DOMAIN pieces = {} /\ DOMAIN journal = {}
  BY <1>1
<1>3. IngestShape
  <2>1. pieces \in Seq(Pieces)
    BY <1>1
  <2>2. adapters \in [Adapters -> AdapterRuns \cup {Unstarted}]
    BY <1>1
  <2>3. journal \in Seq({})
    BY <1>1
  <2>4. transit \in [Movers -> {NoEvent}]
    BY <1>1
  <2> QED
    BY <2>1, <2>2, <2>3, <2>4 DEF IngestShape
<1>4. ASSUME NEW i \in Adapters
      PROVE  RunTrue(i) /\ OpenedBy(i)
  <2>1. adapters[i] = Unstarted
    BY <1>1
  <2>2. transit[i] = NoEvent
    BY <1>1, IngestAssumption
  <2> QED
    BY <1>2, <2>1, <2>2 DEF RunTrue, ReadTrue, WritesNew, WritesOnce, Buffered,
                           NoneLost, OpenedBy
<1> QED
  BY <1>2, <1>3, <1>4 DEF IngestInvariant, GatewayAlone, JournalOpened

(* No step, or one of those above.                                         *)
LEMMA IngestSteps ==
  ASSUME IngestInvariant, [IngestStep]_ingestVars
  PROVE  IngestInvariant'
<1>1. CASE UNCHANGED ingestVars
  <2>1. pieces' = pieces /\ adapters' = adapters /\ journal' = journal /\ transit' = transit
    BY <1>1 DEF ingestVars, wfVars
  <2>2. \A i \in Adapters : RunTrue(i)'
    BY <2>1, OthersRunOn DEF IngestInvariant
  <2> QED
    BY <2>1, <2>2 DEF IngestInvariant, IngestShape, GatewayAlone, JournalOpened, OpenedBy
<1>2. CASE IngestStep
  BY <1>2, GatewayKeeps, RunKeeps, OpeningKeeps DEF IngestStep
<1> QED
  BY <1>1, <1>2

(* The invariant says that running the adapter again is safe and enough.   *)
LEMMA IngestsOnce ==
  ASSUME IngestInvariant
  PROVE  IngestedOnce
<1>1. /\ IngestShape /\ GatewayAlone /\ JournalOpened
      /\ \A i \in Adapters : RunTrue(i)
  BY DEF IngestInvariant
<1>2. ASSUME NEW i \in Adapters, Adapter(i, "done"), ~adapters[i].dry
      PROVE  /\ \A e \in Wanted(i) : LinesOf(e) # {} \/ WroteOver(i, e)
             /\ adapters[i].workflow =>
                  \E k \in DOMAIN journal : journal[k].state = "investigating"
  <2>1. /\ adapters[i] # Unstarted /\ adapters[i].step = "done"
        /\ adapters[i].out = <<>>
    <3>1. adapters[i].step = "done"
      BY <1>2 DEF Adapter
    <3>2. adapters[i] # Unstarted
      BY <1>1, <3>1, AtStep
    <3> QED
      BY <1>1, <3>1, <3>2 DEF RunTrue, Buffered, Writing
  <2>2. adapters[i].workflow =>
          \E k \in DOMAIN journal : journal[k].state = "investigating"
    BY <1>1, <1>2, <2>1 DEF JournalOpened, OpenedBy
  <2>3. ASSUME NEW e \in Wanted(i)
        PROVE  LinesOf(e) # {} \/ WroteOver(i, e)
    <3>1. \/ e \in adapters[i].known
          \/ \E k \in DOMAIN pieces : EndedBy(i, k) /\ pieces[k].event = e
      BY <1>1, <1>2, <2>1 DEF RunTrue, NoneLost
    <3>2. CASE e \in adapters[i].known
      <4>1. \E k \in Decoded : pieces[k].event = e
        BY <1>1, <2>1, <3>2 DEF RunTrue, ReadTrue
      <4> QED
        BY <4>1 DEF LinesOf
    <3>3. ASSUME NEW k \in DOMAIN pieces, EndedBy(i, k), pieces[k].event = e
          PROVE  LinesOf(e) # {} \/ WroteOver(i, e)
      BY <3>3 DEF LinesOf, WroteOver, EndedBy
    <3> QED
      BY <3>1, <3>2, <3>3
  <2> QED
    BY <2>2, <2>3
<1>3. ASSUME NEW e \in Sensed, NEW j \in LinesOf(e), NEW k \in LinesOf(e), j < k
      PROVE  adapters[pieces[k].by].since < j /\ pieces[k].by # pieces[j].by
  <2>1. /\ j \in Decoded /\ k \in Decoded /\ j \in DOMAIN pieces /\ k \in DOMAIN pieces
        /\ pieces[j].event = e /\ pieces[k].event = e
        /\ pieces[j].part # "head" /\ pieces[k].part # "head"
    BY DecodedEnds DEF LinesOf
  <2> PICK i : i = pieces[k].by
    OBVIOUS
  <2>2. i \in Adapters
    <3>1. pieces[k] \in Pieces
      BY <1>1, <2>1 DEF IngestShape
    <3>2. i # TheGateway
      BY <1>1, <2>1, IngestAssumption DEF GatewayAlone
    <3> QED
      BY <3>1, <3>2 DEF Pieces
  <2>3. /\ adapters[i] # Unstarted /\ pieces[k].event \notin adapters[i].known
    BY <1>1, <2>1, <2>2 DEF RunTrue, WritesNew
  <2>4. ~ (j <= adapters[i].since)
    BY <1>1, <2>1, <2>2, <2>3 DEF RunTrue, ReadTrue
  <2>5. adapters[i].since \in Nat /\ j \in Nat
    <3>1. adapters[i] \in AdapterRuns
      BY <1>1, <2>2, <2>3 DEF IngestShape
    <3>2. j \in 1..Len(pieces)
      BY <1>1, <2>1 DEF IngestShape
    <3> QED
      BY <3>1, <3>2 DEF AdapterRuns
  <2>6. pieces[j].by # i
    <3> SUFFICES ASSUME pieces[j].by = i PROVE FALSE
      OBVIOUS
    <3>1. j = k
      BY <1>1, <2>1, <2>2 DEF RunTrue, WritesOnce, EndedBy
    <3> QED
      BY <1>3, <2>5, <3>1
  <2> QED
    BY <2>4, <2>5, <2>6
<1> QED
  BY <1>2, <1>3 DEF IngestedOnce

(* Any runs of the adapter over one evidence file, beside the gateway.     *)
IngestSpec == IngestInit /\ [][IngestStep]_ingestVars

(* What each run has read, has yet to write and has written agrees with    *)
(* the file, whatever is torn or written beside it.                        *)
THEOREM IngestHolds == IngestSpec => []IngestInvariant
<1>1. IngestInit => IngestInvariant
  BY IngestStarts
<1>2. IngestInvariant /\ [IngestStep]_ingestVars => IngestInvariant'
  BY IngestSteps
<1> QED
  BY <1>1, <1>2, PTL DEF IngestSpec

(* Running the adapter again loses nothing, and repeats only what another  *)
(* run wrote meanwhile, for any exports, runs and torn lines.              *)
THEOREM EventsIngestedOnce == IngestSpec => []IngestedOnce
<1>1. IngestInvariant => IngestedOnce
  BY IngestsOnce
<1> QED
  BY <1>1, IngestHolds, PTL
=============================================================================
