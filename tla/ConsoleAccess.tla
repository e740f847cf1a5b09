--------------------------- MODULE ConsoleAccess ----------------------------
(***************************************************************************)
(* Who may use the Console: accounts, login with its lock, sessions, the   *)
(* first-boot setup, members and API keys (auth.py, apikeys.py, the pages  *)
(* and API handlers that call them).                                       *)
(*                                                                         *)
(* Every statement is a transaction of its own.  A login derives a key     *)
(* from the password between its reads and its writes; a handler that      *)
(* changes something checks its principal, then waits for the form, then   *)
(* acts.  Roles other than admin do not matter here.  CSRF tokens, the     *)
(* origin check and the audit rows other than logins are left out.         *)
(***************************************************************************)
EXTENDS Naturals, Sequences, FiniteSets

CONSTANTS
  Users, Sids, ApiKeys,
  Logins,       \* threads at work on a login
  Changes,      \* handlers at work on a change
  Threshold,    \* LOCKOUT_THRESHOLD
  Window,       \* LOCKOUT_WINDOW_SECONDS, in ticks of the clock
  IdleTime,     \* SESSION_IDLE_SECONDS
  Lifetime,     \* SESSION_ABSOLUTE_SECONDS
  KeyTime,      \* what a new key is given, when it is to expire
  MaxClock      \* bound on the clock

ASSUME AccessAssumption ==
  /\ IsFiniteSet(Logins) /\ IsFiniteSet(Users)
  /\ Users \cap ApiKeys = {}
  /\ Threshold \in Nat \ {0}
  /\ Window \in Nat /\ IdleTime \in Nat /\ Lifetime \in Nat
  /\ KeyTime \in Nat /\ MaxClock \in Nat

VARIABLES
  accounts,   \* [user -> its row]
  failures,   \* [user -> times of the failures after its last success]
  sessions,   \* [session -> its row]
  apiKeys,    \* [key -> its row]
  setupUsed,  \* organization.setup_used
  logins,     \* [login -> what it found out]
  changes,    \* [handler -> who asks for what]
  clock,
  overtaken   \* a change was made for one no longer entitled to it

accessVars == <<accounts, failures, sessions, apiKeys, setupUsed, logins,
                changes, clock, overtaken>>

NoAccount == [exists |-> FALSE, admin |-> FALSE, enabled |-> FALSE]
NoSession == [open |-> FALSE]
NoKeyRow  == [state |-> "none"]
NoLogin   == [step |-> "off"]
NoChange  == [kind |-> "off"]

AccessInit ==
  /\ accounts = [u \in Users |-> NoAccount]
  /\ failures = [u \in Users |-> <<>>]
  /\ sessions = [s \in Sids |-> NoSession]
  /\ apiKeys = [k \in ApiKeys |-> NoKeyRow]
  /\ setupUsed = FALSE
  /\ logins = [t \in Logins |-> NoLogin]
  /\ changes = [r \in Changes |-> NoChange]
  /\ clock = 0
  /\ overtaken = FALSE

-----------------------------------------------------------------------------
(* Login.                                                                  *)

(* recent_login_failures: which of the failures are within the window.     *)
Recent(u) == {i \in DOMAIN failures[u] : failures[u][i] + Window >= clock}

(* Mutant: the lock comes one failure late.                                *)
LockedLate(u) == Cardinality(Recent(u)) > Threshold

Locked(u) == Cardinality(Recent(u)) >= Threshold

(* The lock is looked up and the account read; then the key derivation     *)
(* and the backoff take their time.                                        *)
BeginLogin(t, u, right) ==
  /\ logins[t] = NoLogin
  /\ ~Locked(u)
  /\ logins' = [logins EXCEPT ![t] =
       [step |-> IF accounts[u].enabled /\ right THEN "enter" ELSE "refuse",
        user |-> u]]
  /\ UNCHANGED <<accounts, failures, sessions, apiKeys, setupUsed, changes,
                 clock, overtaken>>

RecordFailure(t) ==
  /\ logins[t].step = "refuse"
  /\ failures' = [failures EXCEPT ![logins[t].user] = Append(@, clock)]
  /\ logins' = [logins EXCEPT ![t] = NoLogin]
  /\ UNCHANGED <<accounts, sessions, apiKeys, setupUsed, changes, clock,
                 overtaken>>

CreateSession(t, s) ==
  /\ logins[t].step = "enter"
  /\ sessions[s] = NoSession
  /\ sessions' = [sessions EXCEPT ![s] =
       [open |-> TRUE, user |-> logins[t].user, born |-> clock,
        seen |-> clock]]
  /\ logins' = [logins EXCEPT ![t].step = "success"]
  /\ UNCHANGED <<accounts, failures, apiKeys, setupUsed, changes, clock,
                 overtaken>>

RecordSuccess(t) ==
  /\ logins[t].step = "success"
  /\ failures' = [failures EXCEPT ![logins[t].user] = <<>>]
  /\ logins' = [logins EXCEPT ![t] = NoLogin]
  /\ UNCHANGED <<accounts, sessions, apiKeys, setupUsed, changes, clock,
                 overtaken>>

LoginStep ==
  \E t \in Logins :
    \/ \E u \in Users, right \in BOOLEAN : BeginLogin(t, u, right)
    \/ RecordFailure(t)
    \/ \E s \in Sids : CreateSession(t, s)
    \/ RecordSuccess(t)

-----------------------------------------------------------------------------
(* Principals.                                                             *)

Fresh(s) ==
  /\ clock < sessions[s].born + Lifetime
  /\ clock <= sessions[s].seen + IdleTime

ValidSession(s) ==
  sessions[s].open /\ Fresh(s) /\ accounts[sessions[s].user].enabled

ValidKey(k) == apiKeys[k].state = "live" /\ clock < apiKeys[k].until

IsAdmin(u) == accounts[u].enabled /\ accounts[u].admin

(* A request with a session touches it, or drops it when it is no longer   *)
(* valid.                                                                  *)
UseSession(s) ==
  /\ sessions[s].open
  /\ sessions' = [sessions EXCEPT ![s] =
                    IF ValidSession(s) THEN [@ EXCEPT !.seen = clock]
                    ELSE NoSession]
  /\ UNCHANGED <<accounts, failures, apiKeys, setupUsed, logins, changes,
                 clock, overtaken>>

Logout(s) ==
  /\ ValidSession(s)
  /\ sessions' = [sessions EXCEPT ![s] = NoSession]
  /\ UNCHANGED <<accounts, failures, apiKeys, setupUsed, logins, changes,
                 clock, overtaken>>

-----------------------------------------------------------------------------
(* Changes.  by is the user or the key that asks, on what is changed.      *)

MemberKinds == {"create", "role", "disable"}
KeyKinds    == {"new key", "revoke"}

Asks(by) ==
  [kind : MemberKinds, by : {by}, on : Users, flag : BOOLEAN] \cup
  [kind : KeyKinds, by : {by}, on : ApiKeys, flag : BOOLEAN]

(* auth.require("admin"), then the form is awaited.                        *)
BeginChange(r, s, ask) ==
  /\ changes[r] = NoChange
  /\ ValidSession(s) /\ IsAdmin(sessions[s].user)
  /\ ask \in Asks(sessions[s].user)
  /\ changes' = [changes EXCEPT ![r] = ask]
  /\ sessions' = [sessions EXCEPT ![s].seen = clock]
  /\ UNCHANGED <<accounts, failures, apiKeys, setupUsed, logins, clock,
                 overtaken>>

(* A key with the scope keys:admin manages keys.                           *)
BeginKeyChange(r, k, ask) ==
  /\ changes[r] = NoChange
  /\ ValidKey(k)
  /\ ask \in Asks(k) /\ ask.kind \in KeyKinds
  /\ changes' = [changes EXCEPT ![r] = ask]
  /\ UNCHANGED <<accounts, failures, sessions, apiKeys, setupUsed, logins,
                 clock, overtaken>>

Entitled(by) == IF by \in Users THEN IsAdmin(by) ELSE ValidKey(by)

Done(r) ==
  /\ changes' = [changes EXCEPT ![r] = NoChange]
  /\ overtaken' = (overtaken \/ ~Entitled(changes[r].by))

WithoutSessions(u) ==
  [s \in Sids |-> IF sessions[s].open /\ sessions[s].user = u
                  THEN NoSession ELSE sessions[s]]

(* Administrators do not demote or disable themselves.                     *)
CreateMember(r) ==
  LET c == changes[r] IN
  /\ c.kind = "create"
  /\ ~accounts[c.on].exists
  /\ accounts' = [accounts EXCEPT ![c.on] =
                    [exists |-> TRUE, admin |-> c.flag, enabled |-> TRUE]]
  /\ Done(r)
  /\ UNCHANGED <<failures, sessions, apiKeys, setupUsed, logins, clock>>

SetRole(r) ==
  LET c == changes[r] IN
  /\ c.kind = "role"
  /\ accounts[c.on].exists
  /\ c.on = c.by => c.flag
  /\ accounts' = [accounts EXCEPT ![c.on].admin = c.flag]
  /\ sessions' = WithoutSessions(c.on)
  /\ Done(r)
  /\ UNCHANGED <<failures, apiKeys, setupUsed, logins, clock>>

(* Mutant: administrators may disable themselves.                          *)
SetAnyDisabled(r) ==
  LET c == changes[r] IN
  /\ c.kind = "disable"
  /\ accounts[c.on].exists
  /\ accounts' = [accounts EXCEPT ![c.on].enabled = ~c.flag]
  /\ sessions' = IF c.flag THEN WithoutSessions(c.on) ELSE sessions
  /\ Done(r)
  /\ UNCHANGED <<failures, apiKeys, setupUsed, logins, clock>>

SetDisabled(r) ==
  LET c == changes[r] IN
  /\ c.kind = "disable"
  /\ accounts[c.on].exists
  /\ c.on = c.by => ~c.flag
  /\ accounts' = [accounts EXCEPT ![c.on].enabled = ~c.flag]
  /\ sessions' = IF c.flag THEN WithoutSessions(c.on) ELSE sessions
  /\ Done(r)
  /\ UNCHANGED <<failures, apiKeys, setupUsed, logins, clock>>

CreateKey(r) ==
  LET c == changes[r] IN
  /\ c.kind = "new key"
  /\ apiKeys[c.on] = NoKeyRow
  /\ apiKeys' = [apiKeys EXCEPT ![c.on] =
       [state |-> "live",
        until |-> IF c.flag THEN clock + KeyTime ELSE MaxClock + 1]]
  /\ Done(r)
  /\ UNCHANGED <<accounts, failures, sessions, setupUsed, logins, clock>>

RevokeKey(r) ==
  LET c == changes[r] IN
  /\ c.kind = "revoke"
  /\ apiKeys[c.on].state = "live"
  /\ apiKeys' = [apiKeys EXCEPT ![c.on].state = "revoked"]
  /\ Done(r)
  /\ UNCHANGED <<accounts, failures, sessions, setupUsed, logins, clock>>

(* The form is refused, or names what is not there.                        *)
RefuseChange(r) ==
  /\ changes[r] # NoChange
  /\ changes' = [changes EXCEPT ![r] = NoChange]
  /\ UNCHANGED <<accounts, failures, sessions, apiKeys, setupUsed, logins,
                 clock, overtaken>>

-----------------------------------------------------------------------------
(* The first administrator, by /setup or by the command line.              *)

NoUsers == \A u \in Users : ~accounts[u].exists

(* setup_state is read before the form is awaited.                         *)
BeginSetup(r, u) ==
  /\ changes[r] = NoChange
  /\ NoUsers /\ ~setupUsed
  /\ changes' = [changes EXCEPT ![r] =
       [kind |-> "setup", by |-> u, on |-> u, flag |-> TRUE]]
  /\ UNCHANGED <<accounts, failures, sessions, apiKeys, setupUsed, logins,
                 clock, overtaken>>

NewAdmin(u) ==
  /\ ~accounts[u].exists
  /\ accounts' = [accounts EXCEPT ![u] =
                    [exists |-> TRUE, admin |-> TRUE, enabled |-> TRUE]]

(* create_user and finish_setup.                                           *)
FinishSetup(r) ==
  /\ changes[r].kind = "setup"
  /\ NewAdmin(changes[r].on)
  /\ setupUsed' = TRUE
  /\ changes' = [changes EXCEPT ![r] = NoChange]
  /\ UNCHANGED <<failures, sessions, apiKeys, logins, clock, overtaken>>

(* python -m app.bootstrap admin: the first one closes the setup.          *)
BootstrapAdmin(u) ==
  /\ NewAdmin(u)
  /\ setupUsed' = (setupUsed \/ NoUsers)
  /\ UNCHANGED <<failures, sessions, apiKeys, logins, changes, clock,
                 overtaken>>

(* The Console dies with what it is doing, perhaps between the two         *)
(* transactions of the setup.                                              *)
ConsoleRestarts ==
  /\ logins' = [t \in Logins |-> NoLogin]
  /\ changes' = [r \in Changes |-> NoChange]
  /\ \/ UNCHANGED accounts
     \/ \E r \in Changes : changes[r].kind = "setup" /\ NewAdmin(changes[r].on)
  /\ UNCHANGED <<failures, sessions, apiKeys, setupUsed, clock, overtaken>>

ChangeStep ==
  \E r \in Changes :
    \/ \E s \in Sids : sessions[s].open /\
         \E ask \in Asks(sessions[s].user) : BeginChange(r, s, ask)
    \/ \E k \in ApiKeys, ask \in UNION {Asks(k) : k \in ApiKeys} :
         BeginKeyChange(r, k, ask)
    \/ CreateMember(r) \/ SetRole(r) \/ SetDisabled(r)
    \/ CreateKey(r) \/ RevokeKey(r) \/ RefuseChange(r)
    \/ \E u \in Users : BeginSetup(r, u)
    \/ FinishSetup(r)

ClockTick ==
  /\ clock < MaxClock
  /\ clock' = clock + 1
  /\ UNCHANGED <<accounts, failures, sessions, apiKeys, setupUsed, logins,
                 changes, overtaken>>

AccessStep ==
  \/ LoginStep \/ ChangeStep
  \/ \E s \in Sids : UseSession(s) \/ Logout(s)
  \/ \E u \in Users : BootstrapAdmin(u)
  \/ ConsoleRestarts \/ ClockTick

-----------------------------------------------------------------------------
(* Properties.                                                             *)

(* "A 15-minute lock at the fifth": a login counts the failures before it  *)
(* derives the key and records its own after, so those at work together    *)
(* may go beyond the threshold, but by no more than there are of them.     *)
GuessesBounded ==
  \A u \in Users : Cardinality(Recent(u)) <= Threshold - 1 + Cardinality(Logins)

(* "Admins cannot demote themselves": whoever changes the members stays,   *)
(* so a Console with accounts has an administrator, unless two changes     *)
(* crossed and one was made for a user that the other had just demoted,    *)
(* disabled or revoked.                                                    *)
AdminRemains ==
  NoUsers \/ overtaken \/ \E u \in Users : IsAdmin(u)
=============================================================================
