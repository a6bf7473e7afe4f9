------------------------------ MODULE Accounts -------------------------------
(***************************************************************************)
(* Accounts and their sign-in sessions (users.service, auth.service,       *)
(* auth.guard).  A request is made on a live session, reads the account it *)
(* is about, checks, and writes; update writes the account and revokes its *)
(* sessions one after the other, without a transaction.  Accounts of a     *)
(* directory have no password here and change whenever a synchronisation   *)
(* says so.                                                                *)
(***************************************************************************)
EXTENDS Naturals

CONSTANTS
  Users,
  Directory,   \* those that come from LDAP or Entra ID
  Root,        \* the administrator of a fresh installation
  Sessions,    \* token hashes
  MaxSecret,   \* bound on the passwords an account goes through
  Requests,    \* requests that may be under way at once
  Absent       \* a field the body leaves out

AccountAssumption == /\ Root \in Users \ Directory
                     /\ Absent \notin {"ADMIN", "USER"} /\ Absent \notin BOOLEAN

VARIABLES
  account,  \* users rows: role, status, mustChangePassword, and the
            \* number of its password
  session,  \* auth_sessions rows: whose, signed in with which password, live
  job       \* what each request has read

vars == <<account, session, job>>
-----------------------------------------------------------------------------
Roles == {"ADMIN", "USER"}
NoUser    == [role |-> "none", active |-> FALSE, must |-> FALSE, secret |-> 0]
NoSession == [user |-> Root, secret |-> 0, live |-> FALSE]

Idle == [op |-> "idle"]
Jobs == {Idle}
  \cup [op : {"update"}, user : Users, role : Roles \cup {Absent}, active : BOOLEAN \cup {Absent}]
  \cup [op : {"revoke", "reset", "change"}, user : Users]
  \cup [op : {"login"}, user : Users, secret : Nat]

Created(u) == account[u].role # "none"
Admin(u)   == account[u].role = "ADMIN" /\ account[u].active

\* AuthGuard: the accounts on whose behalf a request can be made now, and
\* those that are not held to changing their password first.
SignedIn == {u \in Users : account[u].active /\ \E s \in Sessions : session[s].live /\ session[s].user = u}
Acting   == {u \in SignedIn : ~account[u].must /\ account[u].role = "ADMIN"}

Init ==
  /\ account = [u \in Users |-> IF u = Root
       THEN [role |-> "ADMIN", active |-> TRUE, must |-> TRUE, secret |-> 1] ELSE NoUser]
  /\ session = [s \in Sessions |-> NoSession]
  /\ job = [k \in Requests |-> Idle]

Begin(k, j) == job[k] = Idle /\ job' = [job EXCEPT ![k] = j]
End(k)      == job' = [job EXCEPT ![k] = Idle]

\* The live sessions of u, revoked. Mutant: only those not signed in with a
\* temporary password.
RevokedIfSettled(u) ==
  [s \in Sessions |-> IF session[s].user = u /\ ~account[u].must
                      THEN [session[s] EXCEPT !.live = FALSE] ELSE session[s]]
Revoked(u) ==
  [s \in Sessions |-> IF session[s].user = u THEN [session[s] EXCEPT !.live = FALSE] ELSE session[s]]
-----------------------------------------------------------------------------
Create(u, role) ==
  /\ Acting # {} /\ u \notin Directory /\ ~Created(u)
  /\ account' = [account EXCEPT ![u] = [role |-> role, active |-> TRUE, must |-> TRUE, secret |-> 1]]
  /\ UNCHANGED <<session, job>>

\* directory.service persistUsers.
Synchronise(u, role, active) ==
  /\ u \in Directory
  /\ account' = [account EXCEPT ![u] = [role |-> role, active |-> active, must |-> FALSE, secret |-> 0]]
  /\ UNCHANGED <<session, job>>

(***************************************************************************)
(* update: the last active administrator is protected, and so is the one   *)
(* who asks. Mutant: the latter is not.                                    *)
(***************************************************************************)
Takes(u, role, active) == role \notin {Absent, "ADMIN"} \/ active = FALSE

ProtectLastAdmin(u, role, active) ==
  account[u].role = "ADMIN" /\ Takes(u, role, active) => \E v, w \in Users : v # w /\ Admin(v) /\ Admin(w)

AllowedToAnyone(actor, u, role, active) == ProtectLastAdmin(u, role, active) /\ u \notin Directory
Allowed(actor, u, role, active) ==
  /\ ProtectLastAdmin(u, role, active)
  /\ u \notin Directory
  /\ ~(u = actor /\ Takes(u, role, active))

UpdateRead(k, actor, u, role, active) ==
  /\ actor \in Acting /\ Created(u) /\ Allowed(actor, u, role, active)
  /\ Begin(k, [op |-> "update", user |-> u, role |-> role, active |-> active])
  /\ UNCHANGED <<account, session>>

UpdateWrite(k) ==
  /\ job[k].op = "update"
  /\ account' = [account EXCEPT
       ![job[k].user].role = IF job[k].role = Absent THEN @ ELSE job[k].role,
       ![job[k].user].active = IF job[k].active = Absent THEN @ ELSE job[k].active]
  /\ IF job[k].active = FALSE
     THEN job' = [job EXCEPT ![k] = [op |-> "revoke", user |-> job[k].user]]
     ELSE End(k)
  /\ UNCHANGED session

UpdateRevoke(k) ==
  /\ job[k].op = "revoke"
  /\ session' = Revoked(job[k].user)
  /\ End(k) /\ UNCHANGED account
-----------------------------------------------------------------------------
\* A temporary password set by an administrator, or a new one by its owner:
\* the password and the sessions in one transaction.
ResetRead(k, u) ==
  /\ Acting # {} /\ Created(u) /\ u \notin Directory
  /\ Begin(k, [op |-> "reset", user |-> u]) /\ UNCHANGED <<account, session>>

ChangeRead(k, u) ==
  /\ u \in SignedIn
  /\ Begin(k, [op |-> "change", user |-> u]) /\ UNCHANGED <<account, session>>

NewPassword(k) ==
  /\ job[k].op \in {"reset", "change"}
  /\ account[job[k].user].secret < MaxSecret
  /\ account' = [account EXCEPT ![job[k].user].secret = @ + 1,
                                ![job[k].user].must = (job[k].op = "reset")]
  /\ session' = Revoked(job[k].user)
  /\ End(k)

LoginRead(k, u) ==
  /\ Created(u) /\ account[u].active /\ u \notin Directory
  /\ Begin(k, [op |-> "login", user |-> u, secret |-> account[u].secret])
  /\ UNCHANGED <<account, session>>

LoginCommit(k, s) ==
  /\ job[k].op = "login" /\ session[s] = NoSession
  /\ session' = [session EXCEPT ![s] = [user |-> job[k].user, secret |-> job[k].secret, live |-> TRUE]]
  /\ End(k) /\ UNCHANGED account

\* logout, or the session's time is up.
Leave(s) ==
  /\ session[s].live /\ session' = [session EXCEPT ![s].live = FALSE]
  /\ UNCHANGED <<account, job>>

\* The API stops: what was under way ends where it was.
Restart ==
  /\ \E k \in Requests : job[k] # Idle
  /\ job' = [k \in Requests |-> Idle] /\ UNCHANGED <<account, session>>
-----------------------------------------------------------------------------
Next ==
  \/ \E u \in Users, role \in Roles : Create(u, role) \/ \E a \in BOOLEAN : Synchronise(u, role, a)
  \/ \E k \in Requests :
       \/ \E actor, u \in Users, role \in Roles \cup {Absent}, a \in BOOLEAN \cup {Absent} :
            UpdateRead(k, actor, u, role, a)
       \/ \E u \in Users : ResetRead(k, u) \/ ChangeRead(k, u) \/ LoginRead(k, u)
       \/ UpdateWrite(k) \/ UpdateRevoke(k) \/ NewPassword(k)
       \/ \E s \in Sessions : LoginCommit(k, s)
  \/ \E s \in Sessions : Leave(s)
  \/ Restart

Spec == Init /\ [][Next]_vars
-----------------------------------------------------------------------------
TypeOK ==
  /\ account \in [Users -> [role : Roles \cup {"none"}, active : BOOLEAN, must : BOOLEAN, secret : Nat]]
  /\ session \in [Sessions -> [user : Users, secret : Nat, live : BOOLEAN]]
  /\ job \in [Requests -> Jobs]

(***************************************************************************)
(* src/docs/USER_MANAGEMENT.md:38, one request at a time: an administrator *)
(* remains who can sign in, also when those that a directory made          *)
(* administrators are taken away by it.                                    *)
(***************************************************************************)
AdminRemains == \E u \in Users \ Directory : Admin(u)

(***************************************************************************)
(* src/docs/USER_MANAGEMENT.md:27, one request at a time: a session that   *)
(* is live was opened with the password the account has now, whichever     *)
(* change of password, sign-in or restart came between.                    *)
(***************************************************************************)
SessionsFollowPassword ==
  \A s \in Sessions : session[s].live => session[s].secret = account[session[s].user].secret
=============================================================================
