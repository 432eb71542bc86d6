------------------------------ MODULE Accounts ------------------------------
(***************************************************************************)
(* member-service: registration and withdrawal, two transactions over the  *)
(* member table with calls to Keycloak in their middle.                    *)
(*                                                                         *)
(* Neither call can be taken back with the transaction.  Registration      *)
(* compensates one failure (the second flush) by deleting the account;     *)
(* withdrawal disables the account before it commits.  Each step between   *)
(* two calls is a separate action, so that two requests interleave and     *)
(* either may fail anywhere.  The e-mail column is unique: an insert waits *)
(* for the open transaction that holds the address.                        *)
(***************************************************************************)
EXTENDS Keycloak

VARIABLES
  row,          \* the member table, committed
  nextId,       \* the identity column's next value
  work,         \* [Requests -> the transaction the request runs]
  outbox        \* the members whose MemberWithdrawn has been committed (once or
                \* twice makes no difference to its consumer)

accounts == <<row, nextId, work, outbox>>

NoRow == [person |-> NoPerson, status |-> "none"]
NoWork == [op |-> "none", person |-> NoPerson, id |-> NoId]

Steps == {"insert", "create", "link", "undo", "commitRegister",
          "disable", "logout", "commitWithdraw"}

AccountsTypeOK ==
  /\ row \in [MemberId -> [person : People \cup {NoPerson},
                           status : {"none", "ACTIVE", "WITHDRAWN"}]]
  /\ nextId \in 1 .. MaxId + 1
  /\ work \in [Requests -> [op : Steps \cup {"none"}, person : People \cup {NoPerson},
                            id : MemberId \cup {NoId}]]
  /\ outbox \subseteq MemberId

AccountsInit ==
  /\ row = [id \in MemberId |-> NoRow]
  /\ nextId = 1
  /\ work = [r \in Requests |-> NoWork]
  /\ outbox = {}

-----------------------------------------------------------------------------
Goto(r, op) == work' = [work EXCEPT ![r].op = op]
Ends(r) == work' = [work EXCEPT ![r] = NoWork]

Registered(p) == \E id \in MemberId : row[id].person = p
HoldsAddress(r, p) ==
  work[r].person = p /\ work[r].op \in {"create", "link", "undo", "commitRegister"}

(* register(): the check that gives the nicer message.                     *)
BeginRegister(r, p) ==
  /\ IF Registered(p) THEN work' = work
     ELSE work' = [work EXCEPT ![r] = [op |-> "insert", person |-> p, id |-> NoId]]
  /\ UNCHANGED <<row, nextId, outbox, keycloak, spent>>

(* saveAndFlush: the unique column decides.                                *)
InsertMember(r) ==
  LET p == work[r].person IN
  /\ work[r].op = "insert"
  /\ ~\E q \in Requests : HoldsAddress(q, p)
  /\ IF Registered(p)
     THEN Ends(r) /\ nextId' = nextId
     ELSE /\ nextId <= MaxId
          /\ work' = [work EXCEPT ![r] = [op |-> "create", person |-> p, id |-> nextId]]
          /\ nextId' = nextId + 1
  /\ UNCHANGED <<row, outbox, keycloak, spent>>

(* Variant: an address that is taken counts as created.                    *)
CreateUser_TakenIsFine(r) ==
  LET p == work[r].person IN
  /\ work[r].op = "create"
  /\ IF AddressFree(p) THEN AddAccount(p, work[r].id) ELSE account' = account
  /\ Goto(r, "link")
  /\ UNCHANGED <<row, nextId, outbox, token, spent>>

(* createUser(): a taken address is refused, and the transaction is rolled *)
(* back.                                                                   *)
CreateUser(r) ==
  LET p == work[r].person IN
  /\ work[r].op = "create"
  /\ IF AddressFree(p)
     THEN AddAccount(p, work[r].id) /\ Goto(r, "link")
     ELSE account' = account /\ Ends(r)
  /\ UNCHANGED <<row, nextId, outbox, token, spent>>

(* The account is created, but the answer (or that of the query for its    *)
(* id) is lost: createUser throws.                                         *)
CreateUserUnheard(r) ==
  /\ work[r].op = "create"
  /\ AddressFree(work[r].person)
  /\ Fails("unheard")
  /\ AddAccount(work[r].person, work[r].id)
  /\ Ends(r)
  /\ UNCHANGED <<row, nextId, outbox, token>>

(* Variant: the failure of the second flush is only logged.                *)
LinkUser_NoCompensation(r) ==
  /\ work[r].op = "link"
  /\ \/ Goto(r, "commitRegister") /\ spent' = spent
     \/ Ends(r) /\ Fails("linkFails")
  /\ UNCHANGED <<row, nextId, outbox, keycloak>>

(* The second flush, with the Keycloak id.                                 *)
LinkUser(r) ==
  /\ work[r].op = "link"
  /\ \/ Goto(r, "commitRegister") /\ spent' = spent
     \/ Goto(r, "undo") /\ Fails("linkFails")
  /\ UNCHANGED <<row, nextId, outbox, keycloak>>

(* deleteUser(), the compensation; a failure is logged and swallowed.      *)
UndoUser(r) ==
  /\ work[r].op = "undo"
  /\ account' = [account EXCEPT ![work[r].person] = NoAccount]
  /\ EndSessions(work[r].id)
  /\ Ends(r)
  /\ UNCHANGED <<row, nextId, outbox, spent>>

CommitRegister(r) ==
  /\ work[r].op = "commitRegister"
  /\ row' = [row EXCEPT ![work[r].id] = [person |-> work[r].person, status |-> "ACTIVE"]]
  /\ Ends(r)
  /\ UNCHANGED <<nextId, outbox, keycloak, spent>>

-----------------------------------------------------------------------------
(* withdraw(): an unknown member is a 404, a withdrawn one is left as he is *)
(* and nothing is announced again.                                         *)
BeginWithdraw(r, id) ==
  /\ IF id \in MemberId /\ row[id].status = "ACTIVE"
     THEN work' = [work EXCEPT ![r] = [op |-> "disable", person |-> row[id].person, id |-> id]]
     ELSE work' = work
  /\ UNCHANGED <<row, nextId, outbox, keycloak, spent>>

DisableUser(r) ==
  /\ work[r].op = "disable"
  /\ DisableAccount(work[r].person)
  /\ Goto(r, "logout")
  /\ UNCHANGED <<row, nextId, outbox, token, spent>>

(* The account is disabled but the answer is lost: disableUser throws and  *)
(* the withdrawal is rolled back.                                          *)
DisableUserUnheard(r) ==
  /\ work[r].op = "disable"
  /\ Fails("unheard")
  /\ DisableAccount(work[r].person)
  /\ Ends(r)
  /\ UNCHANGED <<row, nextId, outbox, token>>

(* The logout call; its failure is swallowed.                              *)
LogoutUser(r) ==
  /\ work[r].op = "logout"
  /\ \/ EndSessions(work[r].id) /\ spent' = spent
     \/ token' = token /\ Fails("refused")
  /\ Goto(r, "commitWithdraw")
  /\ UNCHANGED <<row, nextId, outbox, account>>

(* The status and the event commit together.                               *)
CommitWithdraw(r) ==
  /\ work[r].op = "commitWithdraw"
  /\ row' = [row EXCEPT ![work[r].id].status = "WITHDRAWN"]
  /\ outbox' = outbox \cup {work[r].id}
  /\ Ends(r)
  /\ UNCHANGED <<nextId, keycloak, spent>>

-----------------------------------------------------------------------------
(* Variant: a withdrawal goes on although the account was not disabled.    *)
CallRefused_Swallowed(r) ==
  /\ work[r].op \in {"create", "disable", "undo"}
  /\ Fails("refused")
  /\ IF work[r].op = "disable" THEN Goto(r, "logout") ELSE Ends(r)
  /\ UNCHANGED <<row, nextId, outbox, keycloak>>

(* Keycloak refuses the call a request is about to make (its own token     *)
(* endpoint included): the exception rolls the transaction back.           *)
CallRefused(r) ==
  /\ work[r].op \in {"create", "disable", "undo"}
  /\ Fails("refused")
  /\ Ends(r)
  /\ UNCHANGED <<row, nextId, outbox, keycloak>>

(* The commit fails: nothing in the code runs after it.                    *)
CommitFails(r) ==
  /\ work[r].op \in {"commitRegister", "commitWithdraw"}
  /\ Fails("commitFails")
  /\ Ends(r)
  /\ UNCHANGED <<row, nextId, outbox, keycloak>>

(* member-service dies: open transactions are rolled back.                 *)
CrashMembers ==
  /\ \E r \in Requests : work[r] # NoWork
  /\ Fails("crash")
  /\ work' = [r \in Requests |-> NoWork]
  /\ UNCHANGED <<row, nextId, outbox, keycloak>>

MemberStep ==
  \/ \E r \in Requests :
       \/ InsertMember(r) \/ CreateUser(r) \/ CreateUserUnheard(r) \/ LinkUser(r)
       \/ UndoUser(r) \/ CommitRegister(r) \/ DisableUser(r) \/ DisableUserUnheard(r)
       \/ LogoutUser(r) \/ CommitWithdraw(r) \/ CallRefused(r) \/ CommitFails(r)
  \/ CrashMembers
=============================================================================
