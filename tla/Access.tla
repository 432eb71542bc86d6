------------------------------- MODULE Access -------------------------------
(***************************************************************************)
(* The way of a request: through the gateway to member-service, with       *)
(* Keycloak behind both.  A registration comes by the public path, a       *)
(* withdrawal with a user token.                                           *)
(***************************************************************************)
EXTENDS Accounts, Gateway

vars == <<keycloak, spent, accounts, gateway>>

Init == KeycloakInit /\ AccountsInit /\ GatewayInit

(* member-service takes the request if its service token is valid; else    *)
(* the resource server answers 401.                                        *)
Accepts(q) == q.left > 0

Arrive(r) ==
  /\ req[r].at = "transit"
  /\ req' = [req EXCEPT ![r] = Free]
  /\ IF ~Accepts(req[r]) THEN UNCHANGED <<accounts, keycloak, spent>>
     ELSE IF req[r].token = NoToken THEN BeginRegister(r, req[r].person)
     ELSE BeginWithdraw(r, token[req[r].token].id)
  /\ UNCHANGED <<verdicts, service>>

(* A client sends a request; the thread serves one at a time.              *)
Receive(r) ==
  /\ work[r] = NoWork
  /\ \/ \E p \in People : ReceivePublic(r, p)
     \/ \E t \in Tokens : ReceiveBearer(r, t)

Tick == KeycloakTick /\ GatewayTick /\ UNCHANGED accounts

Next ==
  \/ \E r \in Requests : Receive(r) /\ UNCHANGED accounts
  \/ GatewayStep /\ UNCHANGED accounts
  \/ \E r \in Requests : Arrive(r)
  \/ MemberStep /\ UNCHANGED gateway
  \/ \E p \in People, t \in Tokens : Login(p, t) /\ UNCHANGED <<accounts, gateway>>
  \/ Tick

Spec == Init /\ [][Next]_vars

-----------------------------------------------------------------------------
TypeOK == KeycloakTypeOK /\ AccountsTypeOK /\ GatewayTypeOK

(* A member who can be found has the account that was made for him: no     *)
(* registration, however it is interleaved with another one for the same   *)
(* address, leaves a row behind whose account was refused, or deleted by   *)
(* the compensation of the other.                                          *)
ProfileHasAccount ==
  \A id \in MemberId : row[id] # NoRow => account[row[id].person].id = id

(* Withdrawal is whole: a member is withdrawn exactly when his withdrawal  *)
(* is announced, and then his account is disabled (MemberService.withdraw  *)
(* disables it before the commit for that reason).                         *)
WithdrawnCannotLogIn ==
  \A id \in MemberId :
    /\ row[id].status = "WITHDRAWN" <=> id \in outbox
    /\ id \in outbox => ~account[row[id].person].enabled

(* A login without a profile has a cause nothing in the code can repair: a *)
(* crash, a failed commit, a lost answer, or a compensation that failed    *)
(* itself.  A failure of the second flush alone leaves nothing behind.     *)
Orphan(p) ==
  /\ account[p] # NoAccount
  /\ row[account[p].id] = NoRow
  /\ \A r \in Requests : work[r].person = p => work[r].id # account[p].id
OrphanHasCause ==
  (\E p \in People : Orphan(p)) =>
     \/ spent \cap {"crash", "commitFails", "unheard"} # {}
     \/ {"linkFails", "refused"} \subseteq spent

(* The gateway lets a request pass only if the session of its token was    *)
(* open less than the verdict's time to live ago, plus the age of the      *)
(* answer: the window TokenIntrospector promises.                          *)
Admitted(r) == req[r].token # NoToken /\ req[r].at \in {"fetching", "issued", "transit"}
AdmitsOnlyRecentlyLive ==
  [][\A r \in Requests : ~Admitted(r) /\ Admitted(r)' =>
       LET t == req'[r].token IN token[t].live \/ token[t].ended < VerdictTtl + AnswerDelay]_vars

(* A forwarded request still has a valid service token when it arrives,    *)
(* whichever request fetched the token and whenever: the refresh margin    *)
(* covers the age of the answer and the way.                               *)
ArrivesAuthenticated ==
  \A r \in Requests : req[r].at = "transit" => Accepts(req[r])
=============================================================================
