------------------------------ MODULE Gateway ------------------------------
(***************************************************************************)
(* The gateway's authentication filter with its two caches: verdicts of    *)
(* the introspection endpoint, kept for VerdictTtl ticks, and the service  *)
(* token that replaces the user's, renewed RefreshSkew ticks before it     *)
(* expires.                                                                *)
(*                                                                         *)
(* Requests interleave at every remote call.  Time passes in ticks; an     *)
(* answer of Keycloak is at most AnswerDelay ticks old when the gateway    *)
(* reads it, and a forwarded request travels for at most Transit ticks.    *)
(***************************************************************************)
EXTENDS Keycloak

CONSTANTS
  VerdictTtl,     \* keycloak.introspection.cache-ttl-seconds
  CacheLimit,     \* MAX_CACHE_ENTRIES
  ServiceLife,    \* expires_in of a service token
  RefreshSkew,    \* REFRESH_SKEW
  AnswerDelay,    \* bound on the age of an answer
  Transit         \* bound on the way from the gateway to a service

ASSUME GatewayAssumption ==
  /\ VerdictTtl \in Nat \ {0} /\ CacheLimit \in Nat \ {0}
  /\ RefreshSkew \in Nat /\ ServiceLife \in Nat /\ ServiceLife > RefreshSkew
  /\ AnswerDelay \in Nat /\ Transit \in Nat /\ AnswerDelay + Transit <= RefreshSkew
  /\ VerdictTtl + AnswerDelay <= Window

VARIABLES
  req,            \* [Requests -> the request, while the gateway handles it]
  verdicts,       \* activeUntil: [Tokens -> how long the token counts as active]
  service         \* the cached service token

gateway == <<req, verdicts, service>>

Free == [at |-> "free", token |-> NoToken, person |-> NoPerson,
         verdict |-> FALSE, left |-> 0, age |-> 0]
NoVerdict == [kept |-> FALSE, left |-> 0]
NoService == [left |-> 0, usable |-> 0]

GatewayTypeOK ==
  /\ req \in [Requests -> [at : {"free", "asking", "told", "fetching", "issued", "transit"},
                           token : Tokens \cup {NoToken}, person : People \cup {NoPerson},
                           verdict : BOOLEAN, left : 0 .. ServiceLife, age : Nat]]
  /\ verdicts \in [Tokens -> [kept : BOOLEAN, left : -1 .. VerdictTtl]]
  /\ service \in [left : 0 .. ServiceLife, usable : 0 .. ServiceLife - RefreshSkew]

GatewayInit ==
  /\ req = [r \in Requests |-> Free]
  /\ verdicts = [t \in Tokens |-> NoVerdict]
  /\ service = NoService

-----------------------------------------------------------------------------
(* The request at its next place, with the verdict and the life of the     *)
(* service token it now carries.                                           *)
Moved(q, place, verdict, left) ==
  [at |-> place, token |-> q.token, person |-> q.person,
   verdict |-> verdict, left |-> left, age |-> 0]

Public(p) == [Free EXCEPT !.person = p]
Bearer(t) == [Free EXCEPT !.token = t]

(* Variant: a remembered token is active for good.                         *)
CountsAsActive_ForGood(t) == verdicts[t].kept
CountsAsActive(t) == verdicts[t].kept /\ verdicts[t].left > 0

(* Variant: the cached service token is used until it expires.             *)
Forwarded_NoMargin(q) ==
  IF service.left > 0
  THEN Moved(q, "transit", FALSE, service.left)
  ELSE Moved(q, "fetching", FALSE, 0)

(* forward(): with the cached service token if it is usable, else it has   *)
(* to be fetched first.                                                    *)
Forwarded(q) ==
  IF service.usable > 0
  THEN Moved(q, "transit", FALSE, service.left)
  ELSE Moved(q, "fetching", FALSE, 0)

(* The public path POST /api/members: no user token is asked for.          *)
ReceivePublic(r, p) ==
  /\ req[r].at = "free"
  /\ req' = [req EXCEPT ![r] = Forwarded(Public(p))]
  /\ UNCHANGED <<verdicts, service, keycloak, spent>>

(* A request with a user token whose signature and expiry are good; any    *)
(* other is answered 401 on the spot.                                      *)
ReceiveBearer(r, t) ==
  /\ req[r].at = "free"
  /\ token[t].left > 0
  /\ req' = [req EXCEPT ![r] = IF CountsAsActive(t)
                               THEN Forwarded(Bearer(t))
                               ELSE [Bearer(t) EXCEPT !.at = "asking"]]
  /\ UNCHANGED <<verdicts, service, keycloak, spent>>

(* Keycloak decides; the answer is on its way.                             *)
Introspect(r) ==
  /\ req[r].at = "asking"
  /\ req' = [req EXCEPT ![r] = Moved(@, "told", SessionLive(req[r].token), 0)]
  /\ UNCHANGED <<verdicts, service, keycloak, spent>>

(* remember(): a full cache is rid of what is past its time first.         *)
Swept ==
  IF Cardinality({t \in Tokens : verdicts[t].kept}) < CacheLimit THEN verdicts
  ELSE [t \in Tokens |-> IF verdicts[t].left < 0 THEN NoVerdict ELSE verdicts[t]]
Remember(t) == verdicts' = [Swept EXCEPT ![t] = [kept |-> TRUE, left |-> VerdictTtl]]

(* Only an active verdict is kept; an inactive one is answered 401.        *)
Learn(r) ==
  /\ req[r].at = "told"
  /\ IF req[r].verdict
     THEN Remember(req[r].token) /\ req' = [req EXCEPT ![r] = Forwarded(req[r])]
     ELSE verdicts' = verdicts /\ req' = [req EXCEPT ![r] = Free]
  /\ UNCHANGED <<service, keycloak, spent>>

IssueService(r) ==
  /\ req[r].at = "fetching"
  /\ req' = [req EXCEPT ![r] = Moved(@, "issued", FALSE, ServiceLife)]
  /\ UNCHANGED <<verdicts, service, keycloak, spent>>

(* cache(): the validity is counted from the moment the answer is read; an *)
(* answer without expires_in is used once and not kept.                    *)
StoreService(r) ==
  /\ req[r].at = "issued"
  /\ req' = [req EXCEPT ![r] = Moved(@, "transit", FALSE, req[r].left)]
  /\ service' \in {service, [left |-> req[r].left, usable |-> ServiceLife - RefreshSkew]}
  /\ UNCHANGED <<verdicts, keycloak, spent>>

(* Keycloak cannot be asked: 503, whichever call it was.                   *)
KeycloakUnavailable(r) ==
  /\ req[r].at \in {"asking", "fetching"}
  /\ Fails("refused")
  /\ req' = [req EXCEPT ![r] = Free]
  /\ UNCHANGED <<verdicts, service, keycloak>>

(* The gateway restarts: requests and both caches are gone.                *)
CrashGateway ==
  /\ \E r \in Requests : req[r] # Free
  /\ Fails("crash")
  /\ req' = [r \in Requests |-> Free]
  /\ verdicts' = [t \in Tokens |-> NoVerdict]
  /\ service' = NoService
  /\ UNCHANGED keycloak

GatewayStep ==
  \/ \E r \in Requests : \/ Introspect(r) \/ Learn(r) \/ IssueService(r)
                         \/ StoreService(r) \/ KeycloakUnavailable(r)
  \/ CrashGateway

-----------------------------------------------------------------------------
(* Passing of time.                                                        *)
InTime(q) ==
  /\ q.at \in {"told", "issued"} => q.age < AnswerDelay
  /\ q.at = "transit" => q.age < Transit

Aged(q) ==
  IF q.at \in {"told", "issued", "transit"}
  THEN [Moved(q, q.at, q.verdict, Sooner(q.left)) EXCEPT !.age = q.age + 1]
  ELSE q

GatewayTick ==
  /\ \A r \in Requests : InTime(req[r])
  /\ req' = [r \in Requests |-> Aged(req[r])]
  /\ verdicts' = [t \in Tokens |->
        IF verdicts[t].kept /\ verdicts[t].left >= 0
        THEN [verdicts[t] EXCEPT !.left = @ - 1] ELSE verdicts[t]]
  /\ service' = [left |-> Sooner(service.left), usable |-> Sooner(service.usable)]
=============================================================================
