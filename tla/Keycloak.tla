------------------------------ MODULE Keycloak ------------------------------
(***************************************************************************)
(* The identity provider, as member-service and the gateway use it: one    *)
(* account per e-mail address carrying the member id it was created with,  *)
(* sessions that a logout ends, tokens that live for TokenLife ticks.      *)
(* Keycloak itself is not part of the repository.                          *)
(*                                                                         *)
(* A call may be refused or unheard, and the processes around it may fail; *)
(* every kind of failure happens at most once, and at most MaxFaults of    *)
(* them do.                                                                *)
(***************************************************************************)
EXTENDS Integers, FiniteSets

CONSTANTS
  People,       \* e-mail addresses
  NoPerson,     \* stands for "no e-mail address"
  Tokens,       \* the user tokens that may be issued, each once
  NoToken,      \* stands for "no token"
  Requests,     \* the request threads of the services that use it
  MaxId,        \* bound on the member ids handed out
  TokenLife,    \* life of a user token, in ticks
  Window,       \* how long the model counts the ticks since a session ended
  Faults,       \* the kinds of failure that may happen
  MaxFaults     \* how many of them may happen

ASSUME KeycloakAssumption ==
  /\ NoPerson \notin People /\ NoToken \notin Tokens
  /\ MaxId \in Nat \ {0} /\ TokenLife \in Nat \ {0} /\ Window \in Nat
  /\ Faults \subseteq {"refused", "unheard", "linkFails", "commitFails", "crash"}
  /\ MaxFaults \in Nat

VARIABLES
  account,      \* [People -> the account of that address]
  token,        \* [Tokens -> the user token]
  spent         \* the kinds of failure that have happened

keycloak == <<account, token>>

MemberId == 1 .. MaxId
NoId == 0

NoAccount == [id |-> NoId, enabled |-> FALSE]
Unissued == [id |-> NoId, live |-> FALSE, left |-> 0, ended |-> 0]

KeycloakTypeOK ==
  /\ account \in [People -> [id : MemberId \cup {NoId}, enabled : BOOLEAN]]
  /\ token \in [Tokens -> [id : MemberId \cup {NoId}, live : BOOLEAN,
                           left : 0 .. TokenLife, ended : 0 .. Window]]
  /\ spent \subseteq Faults

KeycloakInit ==
  /\ account = [p \in People |-> NoAccount]
  /\ token = [t \in Tokens |-> Unissued]
  /\ spent = {}

-----------------------------------------------------------------------------
(* A failure of the kind happens.                                          *)
Fails(kind) ==
  /\ kind \in Faults \ spent
  /\ Cardinality(spent) < MaxFaults
  /\ spent' = spent \cup {kind}

(* POST /users: the address is the user name, so it must be free.          *)
AddressFree(p) == account[p] = NoAccount
AddAccount(p, id) == account' = [account EXCEPT ![p] = [id |-> id, enabled |-> TRUE]]

(* PUT /users/{id} enabled=false: no new session can be opened; those that *)
(* are open stay open.                                                     *)
DisableAccount(p) == account' = [account EXCEPT ![p].enabled = FALSE]

(* The sessions of the member end, at logout or with the account.          *)
EndSessions(id) ==
  token' = [t \in Tokens |-> IF token[t].id = id /\ token[t].live
                             THEN [token[t] EXCEPT !.live = FALSE]
                             ELSE token[t]]

(* The answer of the introspection endpoint.                               *)
SessionLive(t) == token[t].live /\ token[t].left > 0

(* A person logs in at Keycloak and gets a token with the member_id claim. *)
Login(p, t) ==
  /\ account[p].enabled
  /\ token[t] = Unissued
  /\ token' = [token EXCEPT ![t] = [id |-> account[p].id, live |-> TRUE,
                                    left |-> TokenLife, ended |-> 0]]
  /\ UNCHANGED <<account, spent>>

Sooner(n) == IF n = 0 THEN 0 ELSE n - 1
Later(n, bound) == IF n = bound THEN bound ELSE n + 1

Older(k) ==
  [id |-> k.id, live |-> k.live, left |-> Sooner(k.left),
   ended |-> IF k.live THEN k.ended ELSE Later(k.ended, Window)]

KeycloakTick ==
  /\ token' = [t \in Tokens |-> IF token[t].id = NoId THEN token[t] ELSE Older(token[t])]
  /\ UNCHANGED <<account, spent>>
=============================================================================
