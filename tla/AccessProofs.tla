---------------------------- MODULE AccessProofs ----------------------------
(***************************************************************************)
(* Proofs about Access for any people, tokens, requests, lives of tokens   *)
(* and verdicts, margins and failures.                                     *)
(*                                                                         *)
(* Two inductive invariants, of the two processes: MemberInv says what the *)
(* member table, the accounts and the open transactions know of each       *)
(* other; GatewayInv bounds the age of what the gateway remembers.  The    *)
(* processes share only the sessions, which the first does not depend on.  *)
(***************************************************************************)
EXTENDS Access, TLAPS

USE KeycloakAssumption

Registering == {"create", "link", "undo", "commitRegister"}
Withdrawing == {"disable", "logout", "commitWithdraw"}

Row == [person : People \cup {NoPerson}, status : {"none", "ACTIVE", "WITHDRAWN"}]
Account == [id : MemberId \cup {NoId}, enabled : BOOLEAN]
Work == [op : Steps \cup {"none"}, person : People \cup {NoPerson}, id : MemberId \cup {NoId}]

MemberTypes ==
  /\ row \in [MemberId -> Row]
  /\ nextId \in 1 .. MaxId + 1
  /\ work \in [Requests -> Work]
  /\ outbox \subseteq MemberId
  /\ account \in [People -> Account]

(* A row is that of its account, which a withdrawn one has disabled.       *)
RowOK(id) ==
  row[id] # NoRow =>
    /\ id < nextId
    /\ row[id].person \in People
    /\ account[row[id].person].id = id
    /\ row[id].status # "none"
    /\ row[id].status = "WITHDRAWN" => ~account[row[id].person].enabled

Announced == \A id \in MemberId : id \in outbox <=> row[id].status = "WITHDRAWN"

(* What a transaction may rely on between its steps.                       *)
WorkOK(w) ==
  /\ w.op = "insert" => w.person \in People
  /\ w.op \in Registering =>
       /\ w.person \in People /\ w.id \in MemberId
       /\ w.id < nextId /\ row[w.id] = NoRow
       /\ ~Registered(w.person)
  /\ w.op \in Registering \ {"create"} => account[w.person].id = w.id
  /\ w.op \in Withdrawing =>
       /\ w.id \in MemberId /\ row[w.id] # NoRow
       /\ row[w.id].person = w.person
  /\ w.op \in Withdrawing \ {"disable"} => ~account[w.person].enabled

(* Two registrations in progress are for different people and members.     *)
Apart(v, w) ==
  v.op \in Registering /\ w.op \in Registering =>
    v.person # w.person /\ v.id # w.id

MemberInv ==
  /\ MemberTypes
  /\ \A id \in MemberId : RowOK(id)
  /\ Announced
  /\ \A r \in Requests : WorkOK(work[r])
  /\ \A r, q \in Requests : r # q => Apart(work[r], work[q])

-----------------------------------------------------------------------------
LEMMA NothingWaits == WorkOK(NoWork) /\ \A w : Apart(NoWork, w) /\ Apart(w, NoWork)
  BY DEF WorkOK, Apart, NoWork, Registering, Withdrawing

(* A step that leaves the tables alone and moves one request keeps the     *)
(* invariant if the transaction it leaves is in order.                     *)
LEMMA OneWorkMoves ==
  ASSUME MemberInv, UNCHANGED <<row, nextId, outbox, account>>,
         NEW r \in Requests, NEW w \in Work,
         work' = [work EXCEPT ![r] = w], WorkOK(w),
         \A q \in Requests \ {r} : Apart(w, work[q])
  PROVE  MemberInv'
<1>1. MemberTypes'
  BY DEF MemberInv, MemberTypes
<1>2. \A id \in MemberId : RowOK(id)'
  BY DEF MemberInv, RowOK
<1>3. Announced'
  BY DEF MemberInv, Announced
<1>4. \A q \in Requests : work'[q] = IF q = r THEN w ELSE work[q]
  BY DEF MemberInv, MemberTypes
<1>5. \A q \in Requests : WorkOK(work[q])'
  <2> TAKE q \in Requests
  <2>1. WorkOK(work'[q])
    BY <1>4 DEF MemberInv
  <2> QED
    BY <2>1 DEF WorkOK, Registered
<1>6. ASSUME NEW p \in Requests, NEW q \in Requests, p # q
      PROVE  Apart(work'[p], work'[q])
  BY <1>4, <1>6 DEF MemberInv, Apart
<1> QED
  BY <1>1, <1>2, <1>3, <1>5, <1>6 DEF MemberInv, Apart

(* A request may end at any step of its transaction.                       *)
LEMMA WorkEnds ==
  ASSUME MemberInv, UNCHANGED <<row, nextId, outbox, account>>,
         NEW r \in Requests, Ends(r)
  PROVE  MemberInv'
<1>1. NoWork \in Work
  BY DEF NoWork, Work, NoId
<1> QED
  BY <1>1, OneWorkMoves, NothingWaits DEF Ends

(* A request goes on to the next step of its transaction.                  *)
LEMMA WorkGoesOn ==
  ASSUME MemberInv, UNCHANGED <<row, nextId, outbox, account>>,
         NEW r \in Requests, NEW op \in Steps, Goto(r, op),
         work[r].op \in Registering <=> op \in Registering,
         WorkOK([op |-> op, person |-> work[r].person, id |-> work[r].id])
  PROVE  MemberInv'
<1> DEFINE w == [op |-> op, person |-> work[r].person, id |-> work[r].id]
<1>1. work[r] \in Work
  BY DEF MemberInv, MemberTypes
<1>2. w \in Work /\ w = [work[r] EXCEPT !.op = op]
  BY <1>1 DEF Work
<1>3. work' = [work EXCEPT ![r] = w]
  BY <1>2 DEF Goto, MemberInv, MemberTypes
<1>4. \A q \in Requests \ {r} : Apart(w, work[q])
  BY DEF MemberInv, Apart
<1> QED
  BY <1>2, <1>3, <1>4, OneWorkMoves

(* An account of a person whose registration is in progress, and of nobody *)
(* else, is made or removed: no row and no other transaction notices.      *)
LEMMA AccountMoves ==
  ASSUME MemberInv, UNCHANGED <<row, nextId, outbox>>,
         NEW r \in Requests, work[r].op \in Registering,
         NEW a \in Account, account' = [account EXCEPT ![work[r].person] = a],
         NEW w \in Work, work' = [work EXCEPT ![r] = w], WorkOK(w)',
         \/ w = NoWork
         \/ w.op \in Registering /\ w.person = work[r].person /\ w.id = work[r].id
  PROVE  MemberInv'
<1> DEFINE p == work[r].person
<1>1. p \in People /\ ~Registered(p)
  BY DEF MemberInv, WorkOK
<1>2. MemberTypes'
  BY <1>1 DEF MemberInv, MemberTypes
<1>3. \A o \in People \ {p} : account'[o] = account[o]
  BY DEF MemberInv, MemberTypes
<1>4. ASSUME NEW id \in MemberId
      PROVE  RowOK(id)'
  <2>1. row[id].person # p
    BY <1>1 DEF Registered
  <2> QED
    BY <1>3, <2>1 DEF MemberInv, RowOK
<1>5. Announced'
  BY DEF MemberInv, Announced
<1>6. \A q \in Requests : work'[q] = IF q = r THEN w ELSE work[q]
  BY DEF MemberInv, MemberTypes
<1>7. ASSUME NEW q \in Requests
      PROVE  WorkOK(work[q])'
  <2>1. CASE q = r
    BY <1>6, <2>1
  <2>2. CASE q # r
    <3>1. work'[q] = work[q] /\ WorkOK(work[q]) /\ Apart(work[r], work[q])
      BY <1>6, <2>2 DEF MemberInv
    <3>2. work[q].op \in Withdrawing => work[q].person # p
      BY <1>1, <3>1 DEF WorkOK, Registered
    <3>3. work[q].op \in Withdrawing => work[q].person \in People
      BY <3>1 DEF WorkOK, MemberInv, RowOK
    <3>4. work[q].op \in Registering => work[q].person \in People \ {p}
      BY <3>1 DEF WorkOK, Apart
    <3> QED
      BY <1>3, <3>1, <3>2, <3>3, <3>4 DEF WorkOK, Registered
  <2> QED
    BY <2>1, <2>2
<1>8. ASSUME NEW q \in Requests, NEW v \in Requests, q # v
      PROVE  Apart(work'[q], work'[v])
  BY <1>6, <1>8, NothingWaits DEF MemberInv, Apart
<1> QED
  BY <1>2, <1>4, <1>5, <1>7, <1>8 DEF MemberInv, Apart

-----------------------------------------------------------------------------
LEMMA RegisterBegins ==
  ASSUME MemberInv, NEW r \in Requests, NEW p \in People, BeginRegister(r, p)
  PROVE  MemberInv'
<1> DEFINE w == [op |-> "insert", person |-> p, id |-> NoId]
<1>1. CASE work' = work
  BY <1>1 DEF BeginRegister, keycloak, MemberInv, MemberTypes, RowOK, Announced, WorkOK, Registered
<1>2. CASE work' = [work EXCEPT ![r] = w]
  <2>1. w \in Work
    BY DEF Work, Steps
  <2>2. WorkOK(w) /\ \A v : Apart(w, v)
    BY DEF WorkOK, Apart, Registering, Withdrawing
  <2> QED
    BY <1>2, <2>1, <2>2, OneWorkMoves DEF BeginRegister, keycloak
<1> QED
  BY <1>1, <1>2 DEF BeginRegister

LEMMA MemberInserted ==
  ASSUME MemberInv, NEW r \in Requests, InsertMember(r)
  PROVE  MemberInv'
<1> DEFINE p == work[r].person
           w == [op |-> "create", person |-> p, id |-> nextId]
<1> USE DEF InsertMember, keycloak
<1>1. CASE Registered(p)
  BY <1>1, WorkEnds
<1>2. CASE ~Registered(p)
  <2>1. p \in People /\ work[r].op = "insert"
    BY DEF MemberInv, WorkOK
  <2>2. nextId \in MemberId /\ nextId' = nextId + 1
    BY <1>2 DEF MemberInv, MemberTypes, MemberId
  <2>3. w \in Work /\ work' = [work EXCEPT ![r] = w]
    BY <1>2, <2>1, <2>2 DEF Work, Steps
  <2>4. MemberTypes'
    BY <1>2, <2>2, <2>3 DEF MemberInv, MemberTypes, MemberId
  <2>5. \A id \in MemberId : RowOK(id)'
    BY <2>2 DEF MemberInv, RowOK, MemberId
  <2>6. Announced'
    BY DEF MemberInv, Announced
  <2>7. \A q \in Requests : work'[q] = IF q = r THEN w ELSE work[q]
    BY <2>3 DEF MemberInv, MemberTypes
  <2>8. ASSUME NEW q \in Requests
        PROVE  WorkOK(work[q])'
    <3>1. CASE q = r
      <4>1. row[nextId] = NoRow
        BY <2>2 DEF MemberInv, RowOK, MemberId
      <4> QED
        BY <1>2, <2>1, <2>2, <2>7, <3>1, <4>1 DEF WorkOK, Registered, Registering, Withdrawing, MemberId
    <3>2. CASE q # r
      <4>1. work'[q] = work[q] /\ WorkOK(work[q])
        BY <2>7, <3>2 DEF MemberInv
      <4> QED
        BY <2>2, <4>1 DEF WorkOK, Registered, MemberId
    <3> QED
      BY <3>1, <3>2
  <2>9. \A q \in Requests : Apart(w, work[q]) /\ Apart(work[q], w)
    BY <2>2 DEF MemberInv, Apart, WorkOK, HoldsAddress, Registering, MemberId
  <2>10. ASSUME NEW q \in Requests, NEW v \in Requests, q # v
         PROVE  Apart(work'[q], work'[v])
    BY <2>7, <2>9, <2>10 DEF MemberInv
  <2> QED
    BY <2>4, <2>5, <2>6, <2>8, <2>10 DEF MemberInv, Apart
<1> QED
  BY <1>1, <1>2

LEMMA UserCreated ==
  ASSUME MemberInv, NEW r \in Requests, CreateUser(r) \/ CreateUserUnheard(r)
  PROVE  MemberInv'
<1> PICK p, a, w : /\ p = work[r].person
                   /\ a = [id |-> work[r].id, enabled |-> TRUE]
                   /\ w = [op |-> "link", person |-> p, id |-> work[r].id]
  OBVIOUS
<1>1. work[r].op = "create" /\ work[r] \in Work /\ WorkOK(work[r])
  BY DEF CreateUser, CreateUserUnheard, MemberInv, MemberTypes
<1>2. p \in People /\ work[r].id \in MemberId
  BY <1>1 DEF WorkOK, Registering
<1>3. a \in Account /\ w \in Work /\ NoWork \in Work
  BY <1>2 DEF Account, Work, Steps, NoWork, NoId
<1>4. CASE account' = account /\ Ends(r) /\ UNCHANGED <<row, nextId, outbox>>
  BY <1>4, WorkEnds
<1>5. CASE AddAccount(p, work[r].id) /\ Goto(r, "link") /\ UNCHANGED <<row, nextId, outbox>>
  <2>1. account' = [account EXCEPT ![p] = a]
    BY <1>5 DEF AddAccount
  <2>2. w = [work[r] EXCEPT !.op = "link"]
    BY <1>1 DEF Work
  <2>3. work' = [work EXCEPT ![r] = w]
    BY <1>5, <2>2 DEF Goto, MemberInv, MemberTypes
  <2>4. account'[p].id = work[r].id
    BY <1>2, <2>1 DEF MemberInv, MemberTypes
  <2>5. WorkOK(w)'
    <3>1. w.id < nextId /\ row[w.id] = NoRow /\ ~Registered(p)
      BY <1>1 DEF WorkOK, Registering
    <3>2. w.id < nextId' /\ row'[w.id] = NoRow /\ ~Registered(p)'
      BY <1>5, <3>1 DEF Registered
    <3> QED
      BY <1>2, <2>4, <3>2 DEF WorkOK, Registering, Withdrawing
  <2>6. work[r].op \in Registering /\ w.op \in Registering
    BY <1>1 DEF Registering
  <2> QED
    BY <1>3, <1>5, <2>1, <2>3, <2>5, <2>6, AccountMoves
<1>6. CASE AddAccount(p, work[r].id) /\ Ends(r) /\ UNCHANGED <<row, nextId, outbox>>
  <2>1. account' = [account EXCEPT ![p] = a] /\ work' = [work EXCEPT ![r] = NoWork]
    BY <1>6 DEF AddAccount, Ends
  <2>2. WorkOK(NoWork)'
    BY DEF WorkOK, NoWork, Registering, Withdrawing
  <2> QED
    BY <1>1, <1>3, <1>6, <2>1, <2>2, AccountMoves DEF Registering
<1> QED
  BY <1>4, <1>5, <1>6 DEF CreateUser, CreateUserUnheard

LEMMA UserUndone ==
  ASSUME MemberInv, NEW r \in Requests, UndoUser(r)
  PROVE  MemberInv'
<1>1. work[r].op \in Registering
  BY DEF UndoUser, Registering
<1>2. NoAccount \in Account /\ NoWork \in Work
  BY DEF Account, NoAccount, Work, NoWork, NoId
<1>3. WorkOK(NoWork)'
  BY DEF WorkOK, NoWork, Registering, Withdrawing
<1> QED
  BY <1>1, <1>2, <1>3, AccountMoves DEF UndoUser, Ends

LEMMA UserLinked ==
  ASSUME MemberInv, NEW r \in Requests, LinkUser(r)
  PROVE  MemberInv'
<1>1. work[r].op = "link" /\ WorkOK(work[r])
  BY DEF LinkUser, MemberInv
<1>2. PICK op \in {"commitRegister", "undo"} : Goto(r, op)
  BY DEF LinkUser
<1>3. WorkOK([op |-> op, person |-> work[r].person, id |-> work[r].id])
  BY <1>1 DEF WorkOK, Registering, Withdrawing
<1>4. op \in Steps /\ work[r].op \in Registering /\ op \in Registering
  BY <1>1 DEF Steps, Registering
<1> QED
  BY <1>2, <1>3, <1>4, WorkGoesOn DEF LinkUser, keycloak
LEMMA RegisterCommits ==
  ASSUME MemberInv, NEW r \in Requests, CommitRegister(r)
  PROVE  MemberInv'
<1> PICK i, p : i = work[r].id /\ p = work[r].person
  OBVIOUS
<1>1. /\ work[r].op = "commitRegister"
      /\ i \in MemberId /\ p \in People
      /\ i < nextId /\ row[i] = NoRow /\ ~Registered(p)
      /\ account[p].id = i
  BY DEF CommitRegister, MemberInv, WorkOK, Registering
<1>2. UNCHANGED <<nextId, outbox, account>>
  BY DEF CommitRegister, keycloak
<1>3. /\ row' = [row EXCEPT ![i] = [person |-> p, status |-> "ACTIVE"]]
      /\ work' = [work EXCEPT ![r] = NoWork]
  BY DEF CommitRegister, Ends
<1>4. MemberTypes'
  BY <1>1, <1>2, <1>3 DEF MemberInv, MemberTypes, Row, Work, NoWork, NoId
<1>5. \A j \in MemberId : row'[j] = IF j = i THEN [person |-> p, status |-> "ACTIVE"] ELSE row[j]
  BY <1>1, <1>3 DEF MemberInv, MemberTypes
<1>6. ASSUME NEW j \in MemberId
      PROVE  RowOK(j)'
  BY <1>1, <1>2, <1>5 DEF MemberInv, RowOK
<1>7. Announced'
  BY <1>1, <1>2, <1>5 DEF MemberInv, Announced, NoRow
<1>8. \A q \in Requests : work'[q] = IF q = r THEN NoWork ELSE work[q]
  BY <1>3 DEF MemberInv, MemberTypes
<1>9. ASSUME NEW q \in Requests
      PROVE  WorkOK(work[q])'
  <2>1. CASE q = r
    BY <1>8, <2>1 DEF WorkOK, NoWork, Registering, Withdrawing
  <2>2. CASE q # r
    <3>1. work'[q] = work[q] /\ WorkOK(work[q]) /\ Apart(work[r], work[q])
      BY <1>8, <2>2 DEF MemberInv
    <3>2. work[q].op \in Registering =>
            /\ work[q].person # p /\ work[q].id # i
            /\ row'[work[q].id] = NoRow /\ ~Registered(work[q].person)'
      BY <1>1, <1>5, <3>1 DEF Apart, WorkOK, Registered, Registering
    <3>3. work[q].op \in Withdrawing => row'[work[q].id] = row[work[q].id]
      BY <1>1, <1>5, <3>1 DEF WorkOK
    <3> QED
      BY <1>2, <3>1, <3>2, <3>3 DEF WorkOK
  <2> QED
    BY <2>1, <2>2
<1>10. ASSUME NEW q \in Requests, NEW v \in Requests, q # v
       PROVE  Apart(work'[q], work'[v])
  BY <1>8, <1>10, NothingWaits DEF MemberInv
<1> QED
  BY <1>4, <1>6, <1>7, <1>9, <1>10 DEF MemberInv, Apart

-----------------------------------------------------------------------------
LEMMA WithdrawalBegins ==
  ASSUME MemberInv, NEW r \in Requests, NEW id, BeginWithdraw(r, id)
  PROVE  MemberInv'
<1>1. CASE work' = work
  BY <1>1 DEF BeginWithdraw, keycloak, MemberInv, MemberTypes, RowOK, Announced, WorkOK, Registered
<1>2. CASE id \in MemberId /\ row[id].status = "ACTIVE"
  <2> PICK w : w = [op |-> "disable", person |-> row[id].person, id |-> id]
    OBVIOUS
  <2>1. row[id] # NoRow /\ row[id] \in Row
    BY <1>2 DEF NoRow, MemberInv, MemberTypes
  <2>2. w \in Work
    BY <1>2, <2>1 DEF Work, Row, Steps
  <2>3. WorkOK(w) /\ \A v : Apart(w, v)
    BY <1>2, <2>1 DEF WorkOK, Apart, Registering, Withdrawing
  <2> QED
    BY <1>2, <2>2, <2>3, OneWorkMoves DEF BeginWithdraw, keycloak
<1> QED
  BY <1>1, <1>2 DEF BeginWithdraw

(* An account is disabled while its member waits to be withdrawn.          *)
LEMMA UserDisabled ==
  ASSUME MemberInv, NEW r \in Requests, DisableUser(r) \/ DisableUserUnheard(r)
  PROVE  MemberInv'
<1> PICK i, p, w : /\ i = work[r].id /\ p = work[r].person
                   /\ w = IF DisableUser(r) THEN [op |-> "logout", person |-> p, id |-> i]
                          ELSE NoWork
  OBVIOUS
<1>1. /\ work[r].op = "disable" /\ work[r] \in Work
      /\ i \in MemberId /\ row[i] # NoRow /\ row[i].person = p /\ p \in People
  BY DEF DisableUser, DisableUserUnheard, MemberInv, MemberTypes, WorkOK, Withdrawing, RowOK
<1>2. UNCHANGED <<row, nextId, outbox>>
  BY DEF DisableUser, DisableUserUnheard
<1>3. account' = [account EXCEPT ![p].enabled = FALSE]
  BY DEF DisableUser, DisableUserUnheard, DisableAccount
<1>4. work' = [work EXCEPT ![r] = w]
  <2>1. [work[r] EXCEPT !.op = "logout"] = [op |-> "logout", person |-> p, id |-> i]
    BY <1>1 DEF Work
  <2> QED
    BY <2>1 DEF DisableUser, DisableUserUnheard, Goto, Ends, MemberInv, MemberTypes
<1>5. w \in Work
  BY <1>1 DEF Work, Steps, NoWork, NoId
<1>6. /\ \A o \in People : account'[o].id = account[o].id
      /\ \A o \in People : account'[o].enabled => account[o].enabled
      /\ ~account'[p].enabled
  BY <1>1, <1>3 DEF MemberInv, MemberTypes, Account
<1>7. account' \in [People -> Account]
  BY <1>3 DEF MemberInv, MemberTypes, Account
<1>8. MemberTypes'
  BY <1>2, <1>4, <1>5, <1>7 DEF MemberInv, MemberTypes
<1>9. ASSUME NEW j \in MemberId
      PROVE  RowOK(j)'
  BY <1>2, <1>6 DEF MemberInv, RowOK
<1>10. Announced'
  BY <1>2 DEF MemberInv, Announced
<1>11. \A q \in Requests : work'[q] = IF q = r THEN w ELSE work[q]
  BY <1>4 DEF MemberInv, MemberTypes
<1>12. ASSUME NEW q \in Requests
       PROVE  WorkOK(work[q])'
  <2>1. CASE q = r
    <3>1. work'[q] = w
      BY <1>11, <2>1
    <3> QED
      BY <1>1, <1>2, <1>6, <3>1 DEF WorkOK, NoWork, Registering, Withdrawing
  <2>2. CASE q # r
    <3>1. work'[q] = work[q] /\ WorkOK(work[q])
      BY <1>11, <2>2 DEF MemberInv
    <3>2. work[q].op \in Withdrawing \cup Registering => work[q].person \in People
      BY <3>1 DEF WorkOK, MemberInv, RowOK
    <3> QED
      BY <1>2, <1>6, <3>1, <3>2 DEF WorkOK, Registered
  <2> QED
    BY <2>1, <2>2
<1>13. ASSUME NEW q \in Requests, NEW v \in Requests, q # v
       PROVE  Apart(work'[q], work'[v])
  BY <1>11, <1>13 DEF MemberInv, Apart, NoWork, Registering
<1> QED
  BY <1>8, <1>9, <1>10, <1>12, <1>13 DEF MemberInv, Apart

LEMMA UserLoggedOut ==
  ASSUME MemberInv, NEW r \in Requests, LogoutUser(r)
  PROVE  MemberInv'
<1>1. work[r].op = "logout" /\ WorkOK(work[r])
  BY DEF LogoutUser, MemberInv
<1>2. WorkOK([op |-> "commitWithdraw", person |-> work[r].person, id |-> work[r].id])
  BY <1>1 DEF WorkOK, Registering, Withdrawing
<1>3. "commitWithdraw" \in Steps
  BY DEF Steps
<1>4. work[r].op \in Registering <=> "commitWithdraw" \in Registering
  BY <1>1 DEF Registering
<1> QED
  BY <1>2, <1>3, <1>4, WorkGoesOn DEF LogoutUser
LEMMA WithdrawalCommits ==
  ASSUME MemberInv, NEW r \in Requests, CommitWithdraw(r)
  PROVE  MemberInv'
<1> PICK i, w : i = work[r].id /\ w = [person |-> row[i].person, status |-> "WITHDRAWN"]
  OBVIOUS
<1>1. /\ i \in MemberId /\ row[i] # NoRow /\ row[i] \in Row
      /\ row[i].person \in People
      /\ ~account[row[i].person].enabled
      /\ account[row[i].person].id = i /\ i < nextId
  BY DEF CommitWithdraw, MemberInv, MemberTypes, WorkOK, Withdrawing, RowOK
<1>2. UNCHANGED <<nextId, account>> /\ outbox' = outbox \cup {i}
  BY DEF CommitWithdraw, keycloak
<1>3. \A j \in MemberId : row'[j] = IF j = i THEN w ELSE row[j]
  BY <1>1 DEF CommitWithdraw, MemberInv, MemberTypes, Row
<1>4. \A q \in Requests : work'[q] = IF q = r THEN NoWork ELSE work[q]
  BY DEF CommitWithdraw, Ends, MemberInv, MemberTypes
<1>5. w \in Row /\ w # NoRow /\ w.person = row[i].person /\ w.status = "WITHDRAWN"
  BY <1>1 DEF Row, NoRow
<1>6. MemberTypes'
  <2>1. row' \in [MemberId -> Row]
    BY <1>1 DEF CommitWithdraw, MemberInv, MemberTypes, Row
  <2>2. work' \in [Requests -> Work]
    BY DEF CommitWithdraw, Ends, MemberInv, MemberTypes, Work, NoWork, NoId
  <2> QED
    BY <1>1, <1>2, <2>1, <2>2 DEF MemberInv, MemberTypes
<1>7. ASSUME NEW j \in MemberId
      PROVE  RowOK(j)'
  BY <1>1, <1>2, <1>3, <1>5 DEF MemberInv, RowOK
<1>8. Announced'
  BY <1>1, <1>2, <1>3, <1>5 DEF MemberInv, Announced
<1>9. /\ \A j \in MemberId : row'[j] = NoRow <=> row[j] = NoRow
      /\ \A j \in MemberId : row'[j].person = row[j].person
  BY <1>1, <1>3, <1>5
<1>10. ASSUME NEW q \in Requests
       PROVE  WorkOK(work[q])'
  <2>1. CASE q = r
    BY <1>4, <2>1 DEF WorkOK, NoWork, Registering, Withdrawing
  <2>2. CASE q # r
    <3>1. work'[q] = work[q] /\ WorkOK(work[q])
      BY <1>4, <2>2 DEF MemberInv
    <3> QED
      BY <1>2, <1>9, <3>1 DEF WorkOK, Registered
  <2> QED
    BY <2>1, <2>2
<1>11. ASSUME NEW q \in Requests, NEW v \in Requests, q # v
       PROVE  Apart(work'[q], work'[v])
  BY <1>4, <1>11, NothingWaits DEF MemberInv
<1> QED
  BY <1>6, <1>7, <1>8, <1>10, <1>11 DEF MemberInv, Apart

-----------------------------------------------------------------------------
LEMMA MembersCrash ==
  ASSUME MemberInv, CrashMembers
  PROVE  MemberInv'
<1>1. UNCHANGED <<row, nextId, outbox, account>> /\ work' = [q \in Requests |-> NoWork]
  BY DEF CrashMembers, keycloak
<1>2. NoWork \in Work /\ WorkOK(NoWork)' /\ \A w : Apart(NoWork, w)
  BY NothingWaits DEF Work, NoWork, NoId, WorkOK, Registering, Withdrawing
<1> QED
  BY <1>1, <1>2 DEF MemberInv, MemberTypes, RowOK, Announced, Apart

LEMMA MemberIdle ==
  ASSUME MemberInv, UNCHANGED <<row, nextId, work, outbox, account>>
  PROVE  MemberInv'
  BY DEF MemberInv, MemberTypes, RowOK, Announced, WorkOK, Registered, Apart

LEMMA MemberStepKeeps ==
  ASSUME MemberInv, MemberStep
  PROVE  MemberInv'
<1>1. CASE CrashMembers
  BY <1>1, MembersCrash
<1>2. ASSUME NEW r \in Requests, CallRefused(r) \/ CommitFails(r)
      PROVE  MemberInv'
  BY <1>2, WorkEnds DEF CallRefused, CommitFails, keycloak
<1> QED
  BY <1>1, <1>2, MemberInserted, UserCreated, UserLinked, UserUndone, RegisterCommits,
     UserDisabled, UserLoggedOut, WithdrawalCommits DEF MemberStep

LEMMA MemberInit == Init => MemberInv
<1>1. ASSUME Init
      PROVE  MemberTypes
  BY <1>1 DEF Init, KeycloakInit, AccountsInit, MemberTypes, Row, Work, Account,
              NoRow, NoWork, NoAccount, NoId, MemberId
<1> QED
  BY <1>1, NothingWaits DEF Init, AccountsInit, MemberInv, RowOK, Announced, NoRow

-----------------------------------------------------------------------------
Places == {"free", "asking", "told", "fetching", "issued", "transit"}
Request == [at : Places, token : Tokens \cup {NoToken}, person : People \cup {NoPerson},
            verdict : BOOLEAN, left : 0 .. ServiceLife, age : Nat]
UserToken == [id : MemberId \cup {NoId}, live : BOOLEAN, left : 0 .. TokenLife, ended : 0 .. Window]
Verdict == [kept : BOOLEAN, left : -1 .. VerdictTtl]
ServiceToken == [left : 0 .. ServiceLife, usable : 0 .. ServiceLife - RefreshSkew]

GatewayTypes ==
  /\ token \in [Tokens -> UserToken]
  /\ req \in [Requests -> Request]
  /\ verdicts \in [Tokens -> Verdict]
  /\ service \in ServiceToken

(* A kept service token outlives its use by the way to the service.        *)
ServiceOK == service.usable > 0 => service.left >= service.usable + Transit

(* A session is open, or ended at most n ticks ago.                        *)
OpenSince(t, n) == token[t].live \/ token[t].ended <= n

TokenOK(t) == token[t].live => token[t].ended = 0

VerdictOK(t) ==
  verdicts[t].kept /\ verdicts[t].left > 0 =>
    OpenSince(t, VerdictTtl + AnswerDelay - verdicts[t].left)

RequestOK(q) ==
  /\ q.at # "free" /\ q.token = NoToken => q.person \in People
  /\ q.at \in {"asking", "told"} => q.token \in Tokens
  /\ q.at = "told" => q.age <= AnswerDelay /\ (q.verdict => OpenSince(q.token, q.age))
  /\ q.at = "issued" => q.age <= AnswerDelay /\ q.left + q.age >= ServiceLife
  /\ q.at = "transit" => q.age <= Transit /\ q.left + q.age > Transit

GatewayInv ==
  /\ GatewayTypes
  /\ ServiceOK
  /\ \A t \in Tokens : TokenOK(t) /\ VerdictOK(t)
  /\ \A r \in Requests : RequestOK(req[r])

LEMMA FreeIsFine == Free \in Request /\ RequestOK(Free)
  BY GatewayAssumption DEF Free, Request, Places, RequestOK

LEMMA ForwardedIsFine ==
  ASSUME GatewayTypes, ServiceOK, NEW q \in Request,
         q.token = NoToken => q.person \in People
  PROVE  /\ Forwarded(q) \in Request
         /\ RequestOK(Forwarded(q))
         /\ Forwarded(q).token = q.token
<1> DEFINE f == Forwarded(q)
<1>1. /\ f.token = q.token /\ f.person = q.person /\ f \in Request
      /\ f.at = IF service.usable > 0 THEN "transit" ELSE "fetching"
      /\ service.usable > 0 => f.left = service.left /\ f.age = 0
  <2>1. service.left \in 0 .. ServiceLife
    BY DEF GatewayTypes, ServiceToken
  <2> QED
    BY <2>1, GatewayAssumption DEF Forwarded, Moved, Request, Places
<1>2. service.usable > 0 => service.left > Transit
  BY GatewayAssumption DEF ServiceOK, GatewayTypes, ServiceToken
<1> HIDE DEF f
<1>3. RequestOK(f)
  <2>1. CASE service.usable > 0
    BY <1>1, <1>2, <2>1, GatewayAssumption DEF RequestOK, GatewayTypes, ServiceToken
  <2>2. CASE ~(service.usable > 0)
    BY <1>1, <2>2 DEF RequestOK
  <2> QED
    BY <2>1, <2>2
<1> QED
  BY <1>1, <1>3 DEF f

(* One request moves; the caches and the sessions stay.                    *)
LEMMA OneRequestMoves ==
  ASSUME GatewayInv, UNCHANGED <<verdicts, service, token>>,
         NEW r \in Requests, NEW q \in Request, req' = [req EXCEPT ![r] = q], RequestOK(q)
  PROVE  GatewayInv'
<1>1. GatewayTypes'
  BY DEF GatewayInv, GatewayTypes
<1>2. ServiceOK' /\ \A t \in Tokens : TokenOK(t)' /\ VerdictOK(t)'
  BY DEF GatewayInv, ServiceOK, TokenOK, VerdictOK, OpenSince
<1>3. \A p \in Requests : RequestOK(req[p])'
  <2> TAKE p \in Requests
  <2>1. RequestOK(req'[p])
    BY DEF GatewayInv, GatewayTypes
  <2> QED
    BY <2>1 DEF RequestOK, OpenSince
<1> QED
  BY <1>1, <1>2, <1>3 DEF GatewayInv
(* The public request and the one with a user token, as they start.        *)
LEMMA NewRequests ==
  /\ \A p \in People : Public(p) \in Request /\ Public(p).person = p
  /\ \A t \in Tokens : Bearer(t) \in Request /\ Bearer(t).token = t
  BY FreeIsFine DEF Free, Request, Public, Bearer

LEMMA ReceiveKeeps ==
  ASSUME GatewayInv, NEW r \in Requests, Receive(r)
  PROVE  GatewayInv'
<1> USE DEF keycloak
<1>0. GatewayTypes /\ ServiceOK
  BY DEF GatewayInv
<1>1. ASSUME NEW p \in People, ReceivePublic(r, p)
      PROVE  GatewayInv'
  <2> PICK q, f : q = Public(p) /\ f = Forwarded(q)
    OBVIOUS
  <2>1. f \in Request /\ RequestOK(f)
    BY <1>0, NewRequests, ForwardedIsFine
  <2> QED
    BY <1>1, <2>1, OneRequestMoves DEF ReceivePublic
<1>2. ASSUME NEW t \in Tokens, ReceiveBearer(r, t)
      PROVE  GatewayInv'
  <2> PICK q, f, a : /\ q = Bearer(t) /\ f = Forwarded(q)
                     /\ a = [q EXCEPT !.at = "asking"]
    OBVIOUS
  <2>1. f \in Request /\ RequestOK(f)
    BY <1>0, NewRequests, ForwardedIsFine
  <2>2. a \in Request /\ RequestOK(a)
    BY NewRequests DEF RequestOK, Request, Places
  <2>3. PICK g \in {f, a} : req' = [req EXCEPT ![r] = g]
    BY <1>2 DEF ReceiveBearer
  <2> QED
    BY <1>2, <2>1, <2>2, <2>3, OneRequestMoves DEF ReceiveBearer
<1> QED
  BY <1>1, <1>2 DEF Receive

LEMMA IntrospectKeeps ==
  ASSUME GatewayInv, NEW r \in Requests, Introspect(r)
  PROVE  GatewayInv'
<1> PICK q, v : v = SessionLive(req[r].token) /\ q = Moved(req[r], "told", v, 0)
  OBVIOUS
<1>1. req[r] \in Request /\ req[r].at = "asking" /\ req[r].token \in Tokens
  BY DEF GatewayInv, GatewayTypes, RequestOK, Introspect
<1>2. v \in BOOLEAN /\ (v => token[req[r].token].live)
  BY DEF SessionLive
<1>3. q \in Request /\ q.at = "told" /\ q.token = req[r].token /\ q.verdict = v /\ q.age = 0
  BY <1>1, <1>2, GatewayAssumption DEF Request, Places, Moved
<1>4. RequestOK(q)
  BY <1>1, <1>2, <1>3, GatewayAssumption DEF RequestOK, OpenSince
<1> QED
  BY <1>3, <1>4, OneRequestMoves DEF Introspect, keycloak

LEMMA IssueKeeps ==
  ASSUME GatewayInv, NEW r \in Requests, IssueService(r)
  PROVE  GatewayInv'
<1> PICK q : q = Moved(req[r], "issued", FALSE, ServiceLife)
  OBVIOUS
<1>1. req[r] \in Request /\ req[r].at = "fetching" /\ RequestOK(req[r])
  BY DEF GatewayInv, GatewayTypes, IssueService
<1>2. /\ q \in Request /\ q.at = "issued" /\ q.token = req[r].token
      /\ q.person = req[r].person /\ q.left = ServiceLife /\ q.age = 0
  BY <1>1, GatewayAssumption DEF Request, Places, Moved
<1>3. q.token = NoToken => q.person \in People
  BY <1>1, <1>2 DEF RequestOK
<1>4. \A n, m : n = ServiceLife /\ m = 0 => m <= AnswerDelay /\ n + m >= ServiceLife
  BY GatewayAssumption
<1>5. RequestOK(q)
  BY <1>2, <1>3, <1>4, GatewayAssumption DEF RequestOK
<1> QED
  BY <1>2, <1>5, OneRequestMoves DEF IssueService, keycloak
LEMMA ArriveKeeps ==
  ASSUME GatewayInv, NEW r \in Requests, Arrive(r)
  PROVE  GatewayInv'
<1>1. UNCHANGED <<verdicts, service, token>>
  BY DEF Arrive, BeginRegister, BeginWithdraw, keycloak
<1> QED
  BY <1>1, FreeIsFine, OneRequestMoves DEF Arrive

LEMMA RefusalKeeps ==
  ASSUME GatewayInv, NEW r \in Requests, KeycloakUnavailable(r)
  PROVE  GatewayInv'
  BY FreeIsFine, OneRequestMoves DEF KeycloakUnavailable, keycloak

(* The answer of the introspection is kept and the request goes on.        *)
LEMMA LearnKeeps ==
  ASSUME GatewayInv, NEW r \in Requests, Learn(r)
  PROVE  GatewayInv'
<1> PICK t, f : t = req[r].token /\ f = Forwarded(req[r])
  OBVIOUS
<1>1. /\ req[r] \in Request /\ req[r].at = "told" /\ RequestOK(req[r])
      /\ t \in Tokens /\ t # NoToken
      /\ GatewayTypes /\ ServiceOK
      /\ UNCHANGED <<service, token>>
  BY DEF GatewayInv, GatewayTypes, RequestOK, Learn, keycloak
<1>2. CASE ~req[r].verdict
  BY <1>1, <1>2, FreeIsFine, OneRequestMoves DEF Learn
<1>3. CASE req[r].verdict
  <2>1. f \in Request /\ RequestOK(f) /\ req' = [req EXCEPT ![r] = f]
    BY <1>1, <1>3, ForwardedIsFine DEF Learn
  <2>2. Swept \in [Tokens -> Verdict] /\ NoVerdict \in Verdict
    BY <1>1, GatewayAssumption DEF Swept, GatewayTypes, NoVerdict, Verdict
  <2>3. \A u \in Tokens : Swept[u] = verdicts[u] \/ Swept[u] = NoVerdict
    BY DEF Swept
  <2>4. \A u \in Tokens : verdicts'[u] = IF u = t THEN [kept |-> TRUE, left |-> VerdictTtl]
                                          ELSE Swept[u]
    BY <1>1, <1>3, <2>2 DEF Learn, Remember
  <2>5. [kept |-> TRUE, left |-> VerdictTtl] \in Verdict
    BY GatewayAssumption DEF Verdict
  <2>6. verdicts' \in [Tokens -> Verdict]
    BY <1>1, <1>3, <2>2, <2>5 DEF Learn, Remember
  <2>7. GatewayTypes'
    BY <1>1, <2>1, <2>6 DEF GatewayTypes
  <2>8. ASSUME NEW u \in Tokens
        PROVE  VerdictOK(u)'
    <3>1. CASE u = t
      <4>1. OpenSince(u, AnswerDelay)
        BY <1>1, <1>3, <3>1, GatewayAssumption DEF RequestOK, OpenSince, GatewayTypes, UserToken, Request
      <4> QED
        BY <1>1, <2>4, <3>1, <4>1, GatewayAssumption DEF VerdictOK, OpenSince
    <3>2. CASE u # t
      BY <1>1, <2>3, <2>4, <3>2 DEF VerdictOK, OpenSince, NoVerdict, GatewayInv
    <3> QED
      BY <3>1, <3>2
  <2>9. \A u \in Tokens : TokenOK(u)'
    BY <1>1 DEF TokenOK, GatewayInv
  <2>10. ServiceOK'
    BY <1>1 DEF ServiceOK
  <2>11. ASSUME NEW q \in Requests
         PROVE  RequestOK(req[q])'
    <3>1. RequestOK(req'[q])
      BY <1>1, <2>1 DEF GatewayInv, GatewayTypes
    <3> QED
      BY <1>1, <3>1 DEF RequestOK, OpenSince
  <2> QED
    BY <2>7, <2>8, <2>9, <2>10, <2>11 DEF GatewayInv
<1> QED
  BY <1>2, <1>3

LEMMA StoreKeeps ==
  ASSUME GatewayInv, NEW r \in Requests, StoreService(r)
  PROVE  GatewayInv'
<1> PICK q, fresh : /\ q = Moved(req[r], "transit", FALSE, req[r].left)
                    /\ fresh = [left |-> req[r].left, usable |-> ServiceLife - RefreshSkew]
  OBVIOUS
<1>1. /\ req[r] \in Request /\ req[r].at = "issued" /\ RequestOK(req[r])
      /\ GatewayTypes /\ ServiceOK
      /\ UNCHANGED <<verdicts, token>>
      /\ req' = [req EXCEPT ![r] = q]
  BY DEF GatewayInv, GatewayTypes, StoreService, keycloak
<1>2. /\ q \in Request /\ q.at = "transit" /\ q.token = req[r].token
      /\ q.person = req[r].person /\ q.left = req[r].left /\ q.age = 0
  BY <1>1, GatewayAssumption DEF Request, Places, Moved
<1>3. req[r].left \in 0 .. ServiceLife /\ req[r].left >= ServiceLife - AnswerDelay
  BY <1>1, GatewayAssumption DEF RequestOK, Request
<1>4. RequestOK(q)
  <2>1. q.token = NoToken => q.person \in People
    BY <1>1, <1>2 DEF RequestOK
  <2>2. \A n \in 0 .. ServiceLife :
          n >= ServiceLife - AnswerDelay => 0 <= Transit /\ n + 0 > Transit
    BY GatewayAssumption
  <2> QED
    BY <1>2, <1>3, <2>1, <2>2 DEF RequestOK
<1>5. service' \in ServiceToken /\ ServiceOK'
  <2>1. fresh \in ServiceToken
    BY <1>3, GatewayAssumption DEF ServiceToken
  <2>2. fresh.left >= fresh.usable + Transit
    BY <1>3, GatewayAssumption
  <2>3. service' \in {service, fresh}
    BY DEF StoreService
  <2> QED
    BY <1>1, <2>1, <2>2, <2>3 DEF ServiceOK, GatewayTypes
<1>6. GatewayTypes'
  BY <1>1, <1>2, <1>5 DEF GatewayTypes
<1>7. \A t \in Tokens : TokenOK(t)' /\ VerdictOK(t)'
  BY <1>1 DEF GatewayInv, TokenOK, VerdictOK, OpenSince
<1>8. ASSUME NEW p \in Requests
      PROVE  RequestOK(req[p])'
  <2>1. RequestOK(req'[p])
    BY <1>1, <1>4 DEF GatewayInv, GatewayTypes
  <2> QED
    BY <1>1, <2>1 DEF RequestOK, OpenSince
<1> QED
  BY <1>5, <1>6, <1>7, <1>8 DEF GatewayInv

LEMMA GatewayRestarts ==
  ASSUME GatewayInv, CrashGateway
  PROVE  GatewayInv'
<1>1. /\ req' = [r \in Requests |-> Free] /\ verdicts' = [t \in Tokens |-> NoVerdict]
      /\ service' = NoService /\ token' = token
  BY DEF CrashGateway, keycloak
<1>2. GatewayTypes'
  BY <1>1, FreeIsFine, GatewayAssumption
  DEF GatewayInv, GatewayTypes, NoVerdict, Verdict, NoService, ServiceToken
<1>3. RequestOK(Free)'
  BY DEF RequestOK, Free
<1> QED
  BY <1>1, <1>2, <1>3 DEF GatewayInv, ServiceOK, NoService, TokenOK, VerdictOK, NoVerdict
-----------------------------------------------------------------------------
(* A session ends, or a token is issued: the gateway knows no more, and    *)
(* what it knows is no older.                                              *)
LEMMA SessionMoves ==
  ASSUME GatewayInv, UNCHANGED gateway, token' \in [Tokens -> UserToken],
         \A t \in Tokens : token'[t].ended = 0 \/ token'[t] = token[t]
  PROVE  GatewayInv'
<1>1. UNCHANGED <<req, verdicts, service>>
  BY DEF gateway
<1>2. GatewayTypes' /\ ServiceOK'
  BY <1>1 DEF GatewayInv, GatewayTypes, ServiceOK
<1>3. ASSUME NEW t \in Tokens, NEW n \in Nat, OpenSince(t, n)
      PROVE  OpenSince(t, n)'
  BY <1>3 DEF OpenSince
<1>4. \A t \in Tokens : TokenOK(t)' /\ VerdictOK(t)'
  <2> TAKE t \in Tokens
  <2>1. TokenOK(t) /\ VerdictOK(t) /\ verdicts[t] \in Verdict
    BY DEF GatewayInv, GatewayTypes
  <2>2. VerdictTtl + AnswerDelay - verdicts[t].left \in Nat
    BY <2>1, GatewayAssumption DEF Verdict
  <2> QED
    BY <1>1, <1>3, <2>1, <2>2 DEF TokenOK, VerdictOK
<1>5. ASSUME NEW r \in Requests
      PROVE  RequestOK(req[r])'
  <2>1. RequestOK(req[r]) /\ req[r] \in Request
    BY DEF GatewayInv, GatewayTypes
  <2>2. req[r].age \in Nat
    BY <2>1 DEF Request
  <2> QED
    BY <1>1, <1>3, <2>1, <2>2 DEF RequestOK
<1> QED
  BY <1>2, <1>4, <1>5 DEF GatewayInv
LEMMA LoginKeeps ==
  ASSUME GatewayInv, MemberInv, UNCHANGED gateway, NEW p \in People, NEW t \in Tokens, Login(p, t)
  PROVE  GatewayInv'
<1> PICK k : k = [id |-> account[p].id, live |-> TRUE, left |-> TokenLife, ended |-> 0]
  OBVIOUS
<1>1. k \in UserToken /\ k.ended = 0
  BY DEF UserToken, MemberInv, MemberTypes, Account
<1>2. token' = [token EXCEPT ![t] = k]
  BY DEF Login
<1>3. token \in [Tokens -> UserToken]
  BY DEF GatewayInv, GatewayTypes
<1>4. /\ token' \in [Tokens -> UserToken]
      /\ \A u \in Tokens : token'[u].ended = 0 \/ token'[u] = token[u]
  BY <1>1, <1>2, <1>3
<1> QED
  BY <1>4, SessionMoves

LEMMA EndKeeps ==
  ASSUME GatewayInv, UNCHANGED gateway, NEW id, EndSessions(id)
  PROVE  GatewayInv'
<1>1. ASSUME NEW t \in Tokens
      PROVE  /\ token'[t] \in UserToken
             /\ token'[t].ended = 0 \/ token'[t] = token[t]
  <2>1. token[t] \in UserToken /\ TokenOK(t)
    BY DEF GatewayInv, GatewayTypes
  <2>2. /\ [token[t] EXCEPT !.live = FALSE] \in UserToken
        /\ [token[t] EXCEPT !.live = FALSE].ended = token[t].ended
    BY <2>1 DEF UserToken
  <2> QED
    BY <2>1, <2>2 DEF EndSessions, UserToken, TokenOK
<1>2. token' \in [Tokens -> UserToken]
  BY <1>1 DEF EndSessions
<1> QED
  BY <1>1, <1>2, SessionMoves

LEMMA MemberStepEndsSessions ==
  ASSUME GatewayInv, MemberStep, UNCHANGED gateway
  PROVE  GatewayInv'
<1>1. CASE token' = token
  BY <1>1, SessionMoves DEF GatewayInv, GatewayTypes
<1>2. ASSUME NEW r \in Requests, UndoUser(r) \/ LogoutUser(r)
      PROVE  GatewayInv'
  BY <1>1, <1>2, EndKeeps DEF UndoUser, LogoutUser
<1>3. ASSUME NEW r \in Requests,
             \/ InsertMember(r) \/ CreateUser(r) \/ CreateUserUnheard(r) \/ LinkUser(r)
             \/ CommitRegister(r) \/ DisableUser(r) \/ DisableUserUnheard(r)
             \/ CommitWithdraw(r) \/ CallRefused(r) \/ CommitFails(r)
      PROVE  token' = token
  BY <1>3 DEF InsertMember, CreateUser, CreateUserUnheard, LinkUser, CommitRegister, DisableUser,
              DisableUserUnheard, CommitWithdraw, CallRefused, CommitFails, keycloak
<1>4. CrashMembers => token' = token
  BY DEF CrashMembers, keycloak
<1> QED
  BY <1>1, <1>2, <1>3, <1>4 DEF MemberStep

(* Time passes: an answer ages no faster than a session or a token.        *)
LEMMA TickKeeps ==
  ASSUME GatewayInv, Tick
  PROVE  GatewayInv'
<1>1. ASSUME NEW t \in Tokens
      PROVE  /\ token'[t] \in UserToken /\ token'[t].live = token[t].live
             /\ token'[t].ended <= token[t].ended + 1
             /\ TokenOK(t)'
  <2>1. token[t] \in UserToken /\ TokenOK(t)
    BY DEF GatewayInv, GatewayTypes
  <2>2. token'[t] = token[t] \/ token'[t] = Older(token[t])
    BY DEF Tick, KeycloakTick
  <2>3. /\ Older(token[t]) \in UserToken /\ Older(token[t]).live = token[t].live
        /\ Older(token[t]).ended <= token[t].ended + 1
        /\ token[t].live => Older(token[t]).ended = token[t].ended
    BY <2>1 DEF Older, Sooner, Later, UserToken
  <2> QED
    BY <2>1, <2>2, <2>3 DEF TokenOK, UserToken
<1>2. ASSUME NEW t \in Tokens
      PROVE  verdicts'[t] \in Verdict /\ VerdictOK(t)'
  <2>1. verdicts[t] \in Verdict /\ VerdictOK(t) /\ token[t] \in UserToken
    BY DEF GatewayInv, GatewayTypes
  <2>2. [verdicts[t] EXCEPT !.left = verdicts[t].left - 1] =
          [kept |-> verdicts[t].kept, left |-> verdicts[t].left - 1]
    BY <2>1 DEF Verdict
  <2>3. verdicts'[t] = IF verdicts[t].kept /\ verdicts[t].left >= 0
                       THEN [kept |-> verdicts[t].kept, left |-> verdicts[t].left - 1]
                       ELSE verdicts[t]
    BY <2>2 DEF Tick, GatewayTick
  <2>4. verdicts'[t] \in Verdict
    BY <2>1, <2>3, GatewayAssumption DEF Verdict
  <2> QED
    BY <1>1, <2>1, <2>3, <2>4, GatewayAssumption DEF VerdictOK, OpenSince, Verdict, UserToken
<1>3. service' \in ServiceToken /\ ServiceOK'
  BY GatewayAssumption DEF Tick, GatewayTick, GatewayInv, GatewayTypes, ServiceOK, ServiceToken, Sooner
<1>4. ASSUME NEW r \in Requests
      PROVE  req'[r] \in Request /\ RequestOK(req[r])'
  <2>1. req[r] \in Request /\ RequestOK(req[r]) /\ InTime(req[r])
    BY DEF GatewayInv, GatewayTypes, Tick, GatewayTick
  <2>2. req'[r] = Aged(req[r])
    BY DEF Tick, GatewayTick
  <2> PICK q, l : q = Moved(req[r], req[r].at, req[r].verdict, l) /\ l = Sooner(req[r].left)
    OBVIOUS
  <2>3. CASE req[r].at \notin {"told", "issued", "transit"}
    BY <2>1, <2>2, <2>3 DEF Aged, RequestOK
  <2>4. CASE req[r].at \in {"told", "issued", "transit"}
    <3> PICK a : a = [at |-> req[r].at, token |-> req[r].token, person |-> req[r].person,
                      verdict |-> req[r].verdict, left |-> l, age |-> req[r].age + 1]
      OBVIOUS
    <3>1. req'[r] = a
      BY <2>2, <2>4 DEF Aged, Moved
    <3>2. l \in 0 .. ServiceLife /\ l + 1 >= req[r].left /\ req[r].age \in Nat
      BY <2>1, GatewayAssumption DEF Request, Sooner
    <3>3. a \in Request
      BY <2>1, <3>2 DEF Request
    <3>4. RequestOK(a)'
      <4>1. a.token = NoToken => a.person \in People
        BY <2>1, <2>4 DEF RequestOK
      <4>2. CASE req[r].at = "told"
        <5> PICK u, n : u = req[r].token /\ n = req[r].age
          OBVIOUS
        <5>1. n \in Nat /\ n + 1 <= AnswerDelay /\ u \in Tokens /\ (a.verdict => OpenSince(u, n))
          BY <2>1, <3>2, <4>2, GatewayAssumption DEF RequestOK, InTime
        <5>2. ASSUME OpenSince(u, n)
              PROVE  OpenSince(u, n + 1)'
          BY <1>1, <5>1, <5>2 DEF OpenSince, UserToken, GatewayInv, GatewayTypes
        <5> QED
          BY <4>1, <4>2, <5>1, <5>2 DEF RequestOK
      <4>3. CASE req[r].at = "issued"
        <5>1. req[r].age + 1 <= AnswerDelay /\ l + (req[r].age + 1) >= ServiceLife
          BY <2>1, <3>2, <4>3, GatewayAssumption DEF RequestOK, InTime, Request
        <5> QED
          BY <4>1, <4>3, <5>1 DEF RequestOK
      <4>4. CASE req[r].at = "transit"
        <5>1. req[r].age + 1 <= Transit /\ l + (req[r].age + 1) > Transit
          BY <2>1, <3>2, <4>4, GatewayAssumption DEF RequestOK, InTime, Request
        <5> QED
          BY <4>1, <4>4, <5>1 DEF RequestOK
      <4> QED
        BY <2>4, <4>2, <4>3, <4>4
    <3> QED
      BY <3>1, <3>3, <3>4
  <2> QED
    BY <2>3, <2>4
<1>5. GatewayTypes'
  BY <1>1, <1>2, <1>3, <1>4 DEF GatewayTypes, Tick, KeycloakTick, GatewayTick
<1> QED
  BY <1>1, <1>2, <1>3, <1>4, <1>5 DEF GatewayInv
-----------------------------------------------------------------------------
LEMMA MemberNext ==
  ASSUME MemberInv, GatewayInv, [Next]_vars
  PROVE  MemberInv'
<1>1. ASSUME NEW r \in Requests, Arrive(r)
      PROVE  MemberInv'
  <2>1. CASE UNCHANGED accounts /\ account' = account
    BY <2>1, MemberIdle DEF accounts
  <2>2. CASE req[r].token = NoToken /\ BeginRegister(r, req[r].person)
    <3>1. req[r].person \in People
      BY <1>1, <2>2 DEF GatewayInv, RequestOK, Arrive
    <3> QED
      BY <2>2, <3>1, RegisterBegins
  <2>3. CASE BeginWithdraw(r, token[req[r].token].id)
    BY <2>3, WithdrawalBegins
  <2> QED
    BY <1>1, <2>1, <2>2, <2>3 DEF Arrive, keycloak
<1>2. CASE UNCHANGED accounts /\ account' = account
  BY <1>2, MemberIdle DEF accounts
<1>3. CASE (\E r \in Requests : Receive(r)) /\ UNCHANGED accounts
  BY <1>2, <1>3 DEF Receive, ReceivePublic, ReceiveBearer, keycloak
<1>4. CASE GatewayStep /\ UNCHANGED accounts
  BY <1>2, <1>4 DEF GatewayStep, Introspect, Learn, IssueService, StoreService,
                    KeycloakUnavailable, CrashGateway, keycloak
<1>5. CASE \E p \in People, t \in Tokens : Login(p, t) /\ UNCHANGED <<accounts, gateway>>
  BY <1>2, <1>5 DEF Login
<1>6. CASE Tick
  BY <1>2, <1>6 DEF Tick, KeycloakTick
<1>7. CASE UNCHANGED vars
  BY <1>2, <1>7 DEF vars, keycloak
<1> QED
  BY <1>1, <1>3, <1>4, <1>5, <1>6, <1>7, MemberStepKeeps DEF Next

LEMMA GatewayInitially == Init => GatewayInv
<1>1. ASSUME Init
      PROVE  GatewayTypes
  <2>1. Unissued \in UserToken /\ NoVerdict \in Verdict /\ NoService \in ServiceToken
    BY GatewayAssumption DEF Unissued, UserToken, NoVerdict, Verdict, NoService, ServiceToken, NoId
  <2> QED
    BY <1>1, <2>1, FreeIsFine DEF Init, KeycloakInit, GatewayInit, GatewayTypes
<1> QED
  BY <1>1, FreeIsFine DEF Init, KeycloakInit, GatewayInit, GatewayInv, ServiceOK, NoService,
     TokenOK, VerdictOK, Unissued, NoVerdict

LEMMA GatewayNext ==
  ASSUME MemberInv, GatewayInv, [Next]_vars
  PROVE  GatewayInv'
<1>1. CASE UNCHANGED vars
  BY <1>1, SessionMoves DEF vars, keycloak, GatewayInv, GatewayTypes
<1>2. CASE GatewayStep
  BY <1>2, IntrospectKeeps, LearnKeeps, IssueKeeps, StoreKeeps, RefusalKeeps, GatewayRestarts
  DEF GatewayStep
<1>3. CASE \E p \in People, t \in Tokens : Login(p, t) /\ UNCHANGED <<accounts, gateway>>
  BY <1>3, LoginKeeps
<1> QED
  BY <1>1, <1>2, <1>3, ReceiveKeeps, ArriveKeeps, MemberStepEndsSessions, TickKeeps DEF Next

(* The inductive invariant: what both processes rely on between two steps. *)
THEOREM AccessInvariant == Spec => [](MemberInv /\ GatewayInv)
<1>1. Init => MemberInv /\ GatewayInv
  BY MemberInit, GatewayInitially
<1>2. MemberInv /\ GatewayInv /\ [Next]_vars => (MemberInv /\ GatewayInv)'
  BY MemberNext, GatewayNext
<1> QED
  BY <1>1, <1>2, PTL DEF Spec

LEMMA FaultsNext ==
  ASSUME spent \subseteq Faults, [Next]_vars
  PROVE  spent' \subseteq Faults
<1>1. CASE \/ UNCHANGED vars \/ Tick
           \/ \E r \in Requests : Receive(r) \/ Arrive(r)
           \/ \E p \in People, t \in Tokens : Login(p, t)
  BY <1>1 DEF vars, Tick, KeycloakTick, Receive, ReceivePublic, ReceiveBearer, Arrive,
              BeginRegister, BeginWithdraw, Login
<1>2. CASE GatewayStep
  BY <1>2 DEF GatewayStep, Introspect, Learn, IssueService, StoreService, KeycloakUnavailable,
              CrashGateway, Fails
<1>3. CASE MemberStep
  BY <1>3 DEF MemberStep, InsertMember, CreateUser, CreateUserUnheard, LinkUser, UndoUser,
              CommitRegister, DisableUser, DisableUserUnheard, LogoutUser, CommitWithdraw,
              CallRefused, CommitFails, CrashMembers, Fails
<1> QED
  BY <1>1, <1>2, <1>3 DEF Next

(* TypeOK: the tables, caches and threads hold what their types allow,     *)
(* among it the margin of the kept service token (ServiceTokenProvider).   *)
THEOREM AccessTypeCorrect == Spec => []TypeOK
<1>1. Init => spent \subseteq Faults
  BY DEF Init, KeycloakInit
<1>2. spent \subseteq Faults /\ [Next]_vars => (spent \subseteq Faults)'
  BY FaultsNext
<1>3. Spec => [](spent \subseteq Faults)
  BY <1>1, <1>2, PTL DEF Spec
<1>4. MemberInv /\ GatewayInv /\ spent \subseteq Faults => TypeOK
  BY DEF MemberInv, MemberTypes, Row, Work, Account, GatewayInv, GatewayTypes, UserToken,
         Request, Places, Verdict, ServiceToken, TypeOK, KeycloakTypeOK, AccountsTypeOK, GatewayTypeOK
<1> QED
  BY <1>3, <1>4, AccessInvariant, PTL

(* ProfileHasAccount: however registrations interleave and fail, a member  *)
(* that is found has the account made for him (MemberService.register).    *)
THEOREM ProfilesHaveAccounts == Spec => []ProfileHasAccount
<1>1. MemberInv => ProfileHasAccount
  BY DEF MemberInv, RowOK, ProfileHasAccount
<1> QED
  BY <1>1, AccessInvariant, PTL

(* WithdrawnCannotLogIn: a withdrawal that is announced is committed, and  *)
(* its account is disabled (MemberService.withdraw).                       *)
THEOREM WithdrawalIsWhole == Spec => []WithdrawnCannotLogIn
<1>1. MemberInv => WithdrawnCannotLogIn
  BY DEF MemberInv, RowOK, Announced, WithdrawnCannotLogIn, NoRow
<1> QED
  BY <1>1, AccessInvariant, PTL

(* ArrivesAuthenticated: the refresh margin of the service token covers    *)
(* every way (ServiceTokenProvider).                                       *)
THEOREM ServiceTokensSuffice == Spec => []ArrivesAuthenticated
<1>1. ASSUME GatewayInv, NEW r \in Requests, req[r].at = "transit"
      PROVE  Accepts(req[r])
  BY <1>1, GatewayAssumption DEF GatewayInv, GatewayTypes, Request, RequestOK, Accepts
<1>2. GatewayInv => ArrivesAuthenticated
  BY <1>1 DEF ArrivesAuthenticated
<1> QED
  BY <1>2, AccessInvariant, PTL

-----------------------------------------------------------------------------
(* Why a login may be left without a profile.                              *)

Linking == {"link", "undo", "commitRegister"}

(* What nothing in the code can repair has happened.                       *)
Excused ==
  \/ spent \cap {"crash", "commitFails", "unheard"} # {}
  \/ {"linkFails", "refused"} \subseteq spent

(* An account has its member's row, or a registration that is at work on   *)
(* it.                                                                     *)
InHandOf(r, p) == work[r].op \in Linking /\ work[r].person = p /\ work[r].id = account[p].id
Explained(p) ==
  account[p] # NoAccount =>
    /\ account[p].id \in MemberId
    /\ row[account[p].id] # NoRow \/ \E r \in Requests : InHandOf(r, p)

(* A thread handles its request in the gateway or in the service.          *)
OnePlace == \A r \in Requests : req[r].at # "free" => work[r] = NoWork

CauseInv ==
  /\ OnePlace
  /\ \A r \in Requests : work[r].op = "undo" => "linkFails" \in spent
  /\ Excused \/ \A p \in People : Explained(p)

LEMMA CauseInit == Init => CauseInv
  BY DEF Init, KeycloakInit, AccountsInit, GatewayInit, CauseInv, OnePlace, Explained, Free, NoWork

LEMMA SpentGrows ==
  ASSUME [Next]_vars
  PROVE  spent \subseteq spent'
<1>1. CASE \/ UNCHANGED vars \/ Tick
           \/ \E r \in Requests : Receive(r) \/ Arrive(r)
           \/ \E p \in People, t \in Tokens : Login(p, t)
  BY <1>1 DEF vars, Tick, KeycloakTick, Receive, ReceivePublic, ReceiveBearer, Arrive,
              BeginRegister, BeginWithdraw, Login
<1>2. CASE GatewayStep
  BY <1>2 DEF GatewayStep, Introspect, Learn, IssueService, StoreService, KeycloakUnavailable,
              CrashGateway, Fails
<1>3. CASE MemberStep
  BY <1>3 DEF MemberStep, InsertMember, CreateUser, CreateUserUnheard, LinkUser, UndoUser,
              CommitRegister, DisableUser, DisableUserUnheard, LogoutUser, CommitWithdraw,
              CallRefused, CommitFails, CrashMembers, Fails
<1> QED
  BY <1>1, <1>2, <1>3 DEF Next

(* The service's steps keep to their own thread.                           *)
LEMMA OnePlaceNext ==
  ASSUME MemberInv, GatewayInv, OnePlace, [Next]_vars
  PROVE  OnePlace'
<1>t. work \in [Requests -> Work] /\ req \in [Requests -> Request]
  BY DEF MemberInv, MemberTypes, GatewayInv, GatewayTypes
<1>1. ASSUME NEW r \in Requests, Receive(r), UNCHANGED accounts PROVE OnePlace'
  <2>1. work' = work /\ work[r] = NoWork /\ \A q \in Requests \ {r} : req'[q] = req[q]
    BY <1>t, <1>1 DEF Receive, ReceivePublic, ReceiveBearer, accounts
  <2> QED
    BY <2>1 DEF OnePlace
<1>2. CASE GatewayStep /\ UNCHANGED accounts
  <2>1. work' = work
    BY <1>2 DEF accounts
  <2>2. ASSUME NEW r \in Requests, req'[r].at # "free" PROVE req[r].at # "free"
    <3>1. CASE CrashGateway
      BY <2>2, <3>1 DEF CrashGateway, Free
    <3>2. ASSUME NEW q \in Requests,
                 \/ Introspect(q) \/ Learn(q) \/ IssueService(q)
                 \/ StoreService(q) \/ KeycloakUnavailable(q)
          PROVE  req[r].at # "free"
      <4>1. req[q].at # "free" /\ \A v \in Requests \ {q} : req'[v] = req[v]
        BY <1>t, <3>2 DEF Introspect, Learn, IssueService, StoreService, KeycloakUnavailable
      <4> QED
        BY <2>2, <4>1
    <3> QED
      BY <1>2, <3>1, <3>2 DEF GatewayStep
  <2> QED
    BY <2>1, <2>2 DEF OnePlace
<1>3. ASSUME NEW r \in Requests, Arrive(r) PROVE OnePlace'
  <2>1. req' = [req EXCEPT ![r] = Free] /\ \A q \in Requests \ {r} : work'[q] = work[q]
    BY <1>t, <1>3 DEF Arrive, BeginRegister, BeginWithdraw, accounts
  <2> QED
    BY <1>t, <2>1 DEF OnePlace, Free
<1>4. CASE MemberStep /\ UNCHANGED gateway
  <2>1. req' = req
    BY <1>4 DEF gateway
  <2>2. ASSUME NEW r \in Requests, work[r] = NoWork PROVE work'[r] = NoWork
    <3>1. CASE CrashMembers
      BY <3>1 DEF CrashMembers
    <3>2. ASSUME NEW q \in Requests,
                 \/ InsertMember(q) \/ CreateUser(q) \/ CreateUserUnheard(q) \/ LinkUser(q)
                 \/ UndoUser(q) \/ CommitRegister(q) \/ DisableUser(q) \/ DisableUserUnheard(q)
                 \/ LogoutUser(q) \/ CommitWithdraw(q) \/ CallRefused(q) \/ CommitFails(q)
          PROVE  work'[r] = NoWork
      <4>1. work[q].op # "none" /\ \A v \in Requests \ {q} : work'[v] = work[v]
        BY <1>t, <3>2 DEF InsertMember, CreateUser, CreateUserUnheard, LinkUser, UndoUser,
           CommitRegister, DisableUser, DisableUserUnheard, LogoutUser, CommitWithdraw,
           CallRefused, CommitFails, Ends, Goto
      <4> QED
        BY <2>2, <4>1 DEF NoWork
    <3> QED
      BY <1>4, <3>1, <3>2 DEF MemberStep
  <2> QED
    BY <2>1, <2>2 DEF OnePlace
<1>5. CASE \E p \in People, t \in Tokens : Login(p, t) /\ UNCHANGED <<accounts, gateway>>
  BY <1>5 DEF accounts, gateway, OnePlace
<1>6. CASE Tick
  <2>1. work' = work /\ \A r \in Requests : req'[r].at = req[r].at
    BY <1>6, <1>t DEF Tick, GatewayTick, accounts, Aged, Moved, Request
  <2> QED
    BY <2>1 DEF OnePlace
<1>7. CASE UNCHANGED vars
  BY <1>7 DEF vars, accounts, gateway, OnePlace
<1> QED
  BY <1>1, <1>2, <1>3, <1>4, <1>5, <1>6, <1>7 DEF Next

(* A member's row is never deleted.                                        *)
LEMMA RowsStay ==
  ASSUME MemberInv, MemberStep, NEW id \in MemberId, row[id] # NoRow
  PROVE  row'[id] # NoRow
<1>t. row \in [MemberId -> Row]
  BY DEF MemberInv, MemberTypes
<1>1. ASSUME NEW r \in Requests, CommitRegister(r) PROVE row'[id] # NoRow
  BY <1>1, <1>t DEF CommitRegister, NoRow
<1>2. ASSUME NEW r \in Requests, CommitWithdraw(r) PROVE row'[id] # NoRow
  BY <1>2, <1>t DEF CommitWithdraw, NoRow, Row
<1>3. CASE row' = row
  BY <1>3
<1> QED
  BY <1>1, <1>2, <1>3 DEF MemberStep, InsertMember, CreateUser, CreateUserUnheard, LinkUser,
     UndoUser, DisableUser, DisableUserUnheard, LogoutUser, CallRefused, CommitFails, CrashMembers

(* An explained account stays explained while its registration goes on or  *)
(* has left its row.                                                       *)
LEMMA StillExplained ==
  ASSUME MemberInv, NEW p \in People, Explained(p),
         \A id \in MemberId : row[id] # NoRow => row'[id] # NoRow,
         account'[p] # NoAccount => account[p] # NoAccount /\ account'[p].id = account[p].id,
         \A r \in Requests : InHandOf(r, p) =>
           InHandOf(r, p)' \/ row'[work[r].id] # NoRow \/ account'[p] = NoAccount
  PROVE  Explained(p)'
<1> SUFFICES ASSUME account'[p] # NoAccount
             PROVE  /\ account'[p].id \in MemberId
                    /\ row'[account'[p].id] # NoRow \/ \E r \in Requests : InHandOf(r, p)'
  BY DEF Explained
<1>1. CASE row[account[p].id] # NoRow
  BY <1>1 DEF Explained
<1>2. ASSUME NEW r \in Requests, InHandOf(r, p) PROVE row'[account'[p].id] # NoRow \/ InHandOf(r, p)'
  BY <1>2 DEF InHandOf
<1> QED
  BY <1>1, <1>2 DEF Explained

(* Accounts alone, and the threads that hold them, matter here.            *)
LEMMA NobodyMoves ==
  ASSUME MemberInv, CauseInv, UNCHANGED <<row, account>>, spent \subseteq spent', OnePlace',
         \A r \in Requests : work[r].op \in Linking \/ work'[r].op \in Linking => work'[r] = work[r]
  PROVE  CauseInv'
<1>1. \A r \in Requests : work'[r].op = "undo" => "linkFails" \in spent'
  BY DEF CauseInv, Linking
<1>2. Excused => Excused'
  BY DEF Excused
<1>3. ASSUME NEW p \in People, Explained(p) PROVE Explained(p)'
  BY <1>3, StillExplained DEF InHandOf
<1> QED
  BY <1>1, <1>2, <1>3 DEF CauseInv

LEMMA UserCreatedCause ==
  ASSUME MemberInv, CauseInv, OnePlace', NEW r \in Requests, CreateUser(r)
  PROVE  CauseInv'
<1> DEFINE p == work[r].person
<1>t. /\ work \in [Requests -> Work] /\ account \in [People -> Account]
      /\ work[r].op = "create" /\ p \in People /\ work[r].id \in MemberId
  BY DEF MemberInv, MemberTypes, WorkOK, Registering, CreateUser
<1>1. CASE account' = account /\ Ends(r)
  <2>1. \A q \in Requests : work[q].op \in Linking \/ work'[q].op \in Linking => work'[q] = work[q]
    BY <1>1, <1>t DEF Ends, NoWork, Linking
  <2> QED
    BY <1>1, <2>1, NobodyMoves DEF CreateUser
<1>2. CASE AddAccount(p, work[r].id) /\ Goto(r, "link")
  <2>1. /\ \A q \in Requests \ {r} : work'[q] = work[q]
        /\ work'[r].op = "link" /\ work'[r].person = p /\ work'[r].id = work[r].id
        /\ \A q \in People \ {p} : account'[q] = account[q]
        /\ account'[p].id = work[r].id /\ UNCHANGED <<row, spent>>
    BY <1>2, <1>t DEF AddAccount, Goto, CreateUser, Work
  <2>2. ASSUME NEW q \in People, Explained(q) PROVE Explained(q)'
    <3>1. CASE q = p
      BY <1>t, <2>1, <3>1 DEF Explained, InHandOf, Linking
    <3>2. CASE q # p
      <4>1. \A v \in Requests : InHandOf(v, q) => InHandOf(v, q)'
        BY <1>t, <2>1, <3>2 DEF InHandOf, Linking
      <4> QED
        BY <2>1, <2>2, <3>2, <4>1, StillExplained
    <3> QED
      BY <3>1, <3>2
  <2>3. \A q \in Requests : work'[q].op = "undo" => "linkFails" \in spent'
    BY <2>1 DEF CauseInv
  <2> QED
    BY <2>1, <2>2, <2>3 DEF CauseInv, Excused
<1> QED
  BY <1>1, <1>2 DEF CreateUser

LEMMA UserLinkedCause ==
  ASSUME MemberInv, CauseInv, OnePlace', spent \subseteq spent', NEW r \in Requests, LinkUser(r)
  PROVE  CauseInv'
<1>t. work \in [Requests -> Work] /\ work[r].op = "link"
  BY DEF MemberInv, MemberTypes, LinkUser
<1>1. /\ \A q \in Requests \ {r} : work'[q] = work[q]
      /\ work'[r].op \in Linking /\ work'[r].person = work[r].person /\ work'[r].id = work[r].id
      /\ work'[r].op = "undo" => "linkFails" \in spent'
      /\ UNCHANGED <<row, account>>
  BY <1>t DEF LinkUser, Goto, Work, Linking, Fails, keycloak
<1>2. ASSUME NEW p \in People, Explained(p) PROVE Explained(p)'
  <2>1. \A q \in Requests : InHandOf(q, p) => InHandOf(q, p)'
    BY <1>1 DEF InHandOf
  <2> QED
    BY <1>1, <1>2, <2>1, StillExplained
<1>3. \A q \in Requests : work'[q].op = "undo" => "linkFails" \in spent'
  BY <1>1 DEF CauseInv
<1> QED
  BY <1>2, <1>3 DEF CauseInv, Excused

(* The account goes with the registration that held it, or its row is      *)
(* there now.                                                              *)
LEMMA RegistrationEndsCause ==
  ASSUME MemberInv, CauseInv, OnePlace', NEW r \in Requests, UndoUser(r) \/ CommitRegister(r)
  PROVE  CauseInv'
<1>t. /\ work \in [Requests -> Work] /\ account \in [People -> Account] /\ row \in [MemberId -> Row]
      /\ work[r].person \in People /\ work[r].id \in MemberId
  BY DEF MemberInv, MemberTypes, WorkOK, Registering, UndoUser, CommitRegister
<1>1. /\ \A q \in Requests \ {r} : work'[q] = work[q]
      /\ work'[r] = NoWork /\ spent' = spent
      /\ \A q \in People \ {work[r].person} : account'[q] = account[q]
      /\ account'[work[r].person] \in {account[work[r].person], NoAccount}
      /\ row'[work[r].id] # NoRow \/ account'[work[r].person] = NoAccount
  BY <1>t DEF UndoUser, CommitRegister, Ends, NoRow, keycloak
<1>2. \A id \in MemberId : row[id] # NoRow => row'[id] # NoRow
  BY RowsStay DEF MemberStep
<1>3. ASSUME NEW p \in People, Explained(p) PROVE Explained(p)'
  <2>1. \A q \in Requests : InHandOf(q, p) =>
          InHandOf(q, p)' \/ row'[work[q].id] # NoRow \/ account'[p] = NoAccount
    BY <1>1 DEF InHandOf
  <2>2. account'[p] # NoAccount => account[p] # NoAccount /\ account'[p].id = account[p].id
    BY <1>1
  <2> QED
    BY <1>2, <1>3, <2>1, <2>2, StillExplained
<1>4. \A q \in Requests : work'[q].op = "undo" => "linkFails" \in spent'
  BY <1>1 DEF CauseInv, NoWork
<1> QED
  BY <1>1, <1>3, <1>4 DEF CauseInv, Excused

(* Writing the value a field already has changes nothing.                  *)
LEMMA SameField ==
  ASSUME NEW i, NEW e, NEW a, a = [id |-> i, enabled |-> e]
  PROVE  [a EXCEPT !.enabled = e] = a
  OBVIOUS

LEMMA WithdrawalCause ==
  ASSUME MemberInv, CauseInv, OnePlace', spent \subseteq spent', NEW r \in Requests,
         DisableUser(r) \/ LogoutUser(r) \/ CommitWithdraw(r)
  PROVE  CauseInv'
<1>t. /\ work \in [Requests -> Work] /\ account \in [People -> Account]
      /\ work[r].op \in Withdrawing
  BY DEF MemberInv, MemberTypes, DisableUser, LogoutUser, CommitWithdraw, Withdrawing
<1>1. \A q \in Requests : work[q].op \in Linking \/ work'[q].op \in Linking => work'[q] = work[q]
  BY <1>t DEF DisableUser, LogoutUser, CommitWithdraw, Goto, Ends, NoWork, Linking, Withdrawing, Work
<1>2. ASSUME NEW p \in People
      PROVE  account'[p] # NoAccount => account[p] # NoAccount /\ account'[p].id = account[p].id
  <2>1. account' = account \/ account' = [account EXCEPT ![work[r].person].enabled = FALSE]
    BY DEF DisableUser, LogoutUser, CommitWithdraw, DisableAccount, keycloak
  <2>2. account'[p] = account[p] \/ account'[p] = [account[p] EXCEPT !.enabled = FALSE]
    BY <1>t, <2>1
  <2>3. CASE account[p] = NoAccount
    <3>1. PICK a, no : a = account[p] /\ no = FALSE /\ a = [id |-> NoId, enabled |-> no]
      BY <2>3 DEF NoAccount
    <3>2. [a EXCEPT !.enabled = no] = a
      BY <3>1, SameField
    <3>3. [account[p] EXCEPT !.enabled = FALSE] = account[p]
      BY <3>1, <3>2
    <3> QED
      BY <2>2, <2>3, <3>3
  <2>4. [account[p] EXCEPT !.enabled = FALSE].id = account[p].id
    <3>1. account[p] \in Account
      BY <1>t
    <3> QED
      BY <3>1 DEF Account
  <2> QED
    BY <2>2, <2>3, <2>4
<1>3. \A id \in MemberId : row[id] # NoRow => row'[id] # NoRow
  BY RowsStay DEF MemberStep
<1>4. ASSUME NEW p \in People, Explained(p) PROVE Explained(p)'
  <2>1. \A q \in Requests : InHandOf(q, p) => InHandOf(q, p)' \/ account'[p] = NoAccount
    BY <1>1, <1>2 DEF InHandOf
  <2> QED
    BY <1>2, <1>3, <1>4, <2>1, StillExplained
<1>5. \A q \in Requests : work'[q].op = "undo" => "linkFails" \in spent'
  BY <1>1 DEF CauseInv, Linking
<1> QED
  BY <1>4, <1>5 DEF CauseInv, Excused

(* These failures are the excuse themselves; a refused compensation comes  *)
(* after the failure it was to make good.                                  *)
LEMMA FailureExcuses ==
  ASSUME MemberInv, CauseInv, OnePlace', spent \subseteq spent',
         \/ CrashMembers
         \/ \E r \in Requests : CreateUserUnheard(r) \/ DisableUserUnheard(r) \/ CommitFails(r)
  PROVE  CauseInv'
<1>t. work \in [Requests -> Work]
  BY DEF MemberInv, MemberTypes
<1>1. Excused'
  BY DEF CrashMembers, CreateUserUnheard, DisableUserUnheard, CommitFails, Fails, Excused
<1>2. \A q \in Requests : work'[q].op = "undo" => work[q].op = "undo"
  BY <1>t DEF CrashMembers, CreateUserUnheard, DisableUserUnheard, CommitFails, Ends, NoWork
<1> QED
  BY <1>1, <1>2 DEF CauseInv

LEMMA RefusalCause ==
  ASSUME MemberInv, CauseInv, OnePlace', spent \subseteq spent', NEW r \in Requests, CallRefused(r)
  PROVE  CauseInv'
<1>t. work \in [Requests -> Work]
  BY DEF MemberInv, MemberTypes
<1>1. CASE work[r].op = "undo"
  <2>1. Excused'
    BY <1>1 DEF CauseInv, CallRefused, Fails, Excused
  <2>2. \A q \in Requests : work'[q].op = "undo" => work[q].op = "undo"
    BY <1>t DEF CallRefused, Ends, NoWork
  <2> QED
    BY <2>1, <2>2 DEF CauseInv
<1>2. CASE work[r].op # "undo"
  <2>1. \A q \in Requests : work[q].op \in Linking \/ work'[q].op \in Linking => work'[q] = work[q]
    BY <1>2, <1>t DEF CallRefused, Ends, NoWork, Linking
  <2> QED
    BY <2>1, NobodyMoves DEF CallRefused, keycloak
<1> QED
  BY <1>1, <1>2

LEMMA CauseNext ==
  ASSUME MemberInv, GatewayInv, CauseInv, [Next]_vars
  PROVE  CauseInv'
<1>t. work \in [Requests -> Work]
  BY DEF MemberInv, MemberTypes
<1>o. OnePlace'
  BY OnePlaceNext DEF CauseInv
<1>s. spent \subseteq spent'
  BY SpentGrows
<1>1. CASE UNCHANGED accounts /\ account' = account
  BY <1>1, <1>o, <1>s, NobodyMoves DEF accounts
<1>2. ASSUME NEW r \in Requests, Arrive(r) PROVE CauseInv'
  <2>1. work[r] = NoWork
    BY <1>2 DEF CauseInv, OnePlace, Arrive
  <2>2. /\ UNCHANGED <<row, account>> /\ \A q \in Requests \ {r} : work'[q] = work[q]
        /\ work'[r].op \notin Linking
    BY <1>2, <1>t, <2>1 DEF Arrive, BeginRegister, BeginWithdraw, accounts, keycloak, NoWork, Linking
  <2>3. \A q \in Requests : work[q].op \in Linking \/ work'[q].op \in Linking => work'[q] = work[q]
    BY <2>1, <2>2 DEF NoWork, Linking
  <2> QED
    BY <1>o, <1>s, <2>2, <2>3, NobodyMoves
<1>3. CASE MemberStep
  <2>1. ASSUME NEW r \in Requests, InsertMember(r) PROVE CauseInv'
    <3>1. \A q \in Requests : work[q].op \in Linking \/ work'[q].op \in Linking => work'[q] = work[q]
      BY <2>1, <1>t DEF InsertMember, Ends, NoWork, Linking
    <3> QED
      BY <2>1, <3>1, <1>o, <1>s, NobodyMoves DEF InsertMember, keycloak
  <2> QED
    BY <1>3, <1>o, <1>s, <2>1, UserCreatedCause, UserLinkedCause, RegistrationEndsCause,
       WithdrawalCause, FailureExcuses, RefusalCause DEF MemberStep
<1>4. CASE (\E r \in Requests : Receive(r)) /\ UNCHANGED accounts
  BY <1>1, <1>4 DEF Receive, ReceivePublic, ReceiveBearer, keycloak
<1>5. CASE GatewayStep /\ UNCHANGED accounts
  BY <1>1, <1>5 DEF GatewayStep, Introspect, Learn, IssueService, StoreService,
                    KeycloakUnavailable, CrashGateway, keycloak
<1>6. CASE \E p \in People, t \in Tokens : Login(p, t) /\ UNCHANGED <<accounts, gateway>>
  BY <1>1, <1>6 DEF Login
<1>7. CASE Tick
  BY <1>1, <1>7 DEF Tick, KeycloakTick
<1>8. CASE UNCHANGED vars
  BY <1>1, <1>8 DEF vars, keycloak
<1> QED
  BY <1>2, <1>3, <1>4, <1>5, <1>6, <1>7, <1>8 DEF Next

(* OrphanHasCause: however requests interleave, a login is left without    *)
(* its profile only by a crash, a failed commit, a lost answer or a failed *)
(* compensation (MemberService.register).                                  *)
THEOREM OrphansHaveACause == Spec => []OrphanHasCause
<1>1. ASSUME CauseInv, NEW p \in People, Orphan(p) PROVE Excused
  BY <1>1 DEF CauseInv, Orphan, Explained, InHandOf
<1>2. CauseInv => OrphanHasCause
  BY <1>1 DEF OrphanHasCause, Excused
<1>3. MemberInv /\ GatewayInv /\ CauseInv /\ [Next]_vars => CauseInv'
  BY CauseNext
<1> QED
  BY <1>2, <1>3, CauseInit, AccessInvariant, PTL DEF Spec

-----------------------------------------------------------------------------
WithinWindow(t) == token[t].live \/ token[t].ended < VerdictTtl + AnswerDelay

(* A request that is neither moved nor given another token is not admitted.*)
LEMMA NotAdmitted ==
  ASSUME NEW r \in Requests, ~Admitted(r), Admitted(r)'
  PROVE  /\ req'[r].at # req[r].at \/ req'[r].token # req[r].token
         /\ req'[r] # Free
  BY DEF Admitted, Free

LEMMA AdmittedOnReceipt ==
  ASSUME GatewayInv, NEW r \in Requests, NEW s \in Requests, Receive(s),
         ~Admitted(r), Admitted(r)'
  PROVE  WithinWindow(req'[r].token)
<1>1. GatewayTypes /\ ServiceOK
  BY DEF GatewayInv
<1>2. s = r
  BY <1>1, NotAdmitted DEF Receive, ReceivePublic, ReceiveBearer, GatewayTypes
<1>3. ASSUME NEW p \in People, ReceivePublic(r, p)
      PROVE  FALSE
  <2>1. Public(p).token = NoToken /\ Public(p) \in Request /\ Public(p).person = p
    BY NewRequests DEF Public, Free
  <2>2. req'[r] = Forwarded(Public(p))
    BY <1>1, <1>3 DEF ReceivePublic, GatewayTypes
  <2> QED
    BY <1>1, <2>1, <2>2, ForwardedIsFine DEF Admitted
<1>4. ASSUME NEW t \in Tokens, ReceiveBearer(r, t)
      PROVE  WithinWindow(req'[r].token)
  <2>1. Bearer(t) \in Request /\ Bearer(t).token = t /\ t # NoToken
    BY NewRequests
  <2>2. CASE CountsAsActive(t)
    <3>1. req'[r].token = t
      BY <1>1, <1>4, <2>1, <2>2, ForwardedIsFine DEF ReceiveBearer, GatewayTypes
    <3>2. verdicts[t] \in Verdict /\ VerdictOK(t) /\ token[t] \in UserToken
      BY <1>1 DEF GatewayInv, GatewayTypes
    <3>3. WithinWindow(t)
      BY <2>2, <3>2, GatewayAssumption
      DEF CountsAsActive, VerdictOK, OpenSince, WithinWindow, Verdict, UserToken
    <3> QED
      BY <3>1, <3>3
  <2>3. CASE ~CountsAsActive(t)
    <3>1. req'[r] = [Bearer(t) EXCEPT !.at = "asking"]
      BY <1>1, <1>4, <2>3 DEF ReceiveBearer, GatewayTypes
    <3>2. req'[r].at = "asking"
      BY <2>1, <3>1 DEF Request
    <3> QED
      BY <3>2 DEF Admitted
  <2> QED
    BY <2>2, <2>3
<1> QED
  BY <1>2, <1>3, <1>4 DEF Receive

LEMMA AdmittedOnAnswer ==
  ASSUME GatewayInv, GatewayStep, NEW r \in Requests, ~Admitted(r), Admitted(r)'
  PROVE  WithinWindow(req'[r].token)
<1>1. GatewayTypes /\ ServiceOK /\ req[r] \in Request /\ RequestOK(req[r])
  BY DEF GatewayInv, GatewayTypes
<1>2. ASSUME NEW s \in Requests, Learn(s)
      PROVE  WithinWindow(req'[r].token)
  <2>1. s = r
    BY <1>1, <1>2, NotAdmitted DEF Learn, GatewayTypes
  <2>2. req[r].verdict /\ req'[r] = Forwarded(req[r]) /\ req[r].at = "told"
    BY <1>1, <1>2, <2>1, NotAdmitted DEF Learn, GatewayTypes
  <2> PICK t : t = req[r].token
    OBVIOUS
  <2>3. t \in Tokens /\ token[t] \in UserToken /\ t # NoToken
    BY <1>1, <2>2 DEF RequestOK, GatewayTypes
  <2>4. req'[r].token = t
    BY <1>1, <2>2, <2>3, ForwardedIsFine
  <2>5. WithinWindow(t)
    BY <1>1, <2>2, <2>3, GatewayAssumption DEF RequestOK, OpenSince, WithinWindow, UserToken, Request
  <2> QED
    BY <2>4, <2>5
<1>3. ASSUME NEW s \in Requests, Introspect(s)
      PROVE  FALSE
  <2>1. s = r
    BY <1>1, <1>3, NotAdmitted DEF Introspect, GatewayTypes
  <2>2. req'[r].at = "told"
    BY <1>1, <1>3, <2>1 DEF Introspect, Moved, GatewayTypes
  <2> QED
    BY <2>2 DEF Admitted
<1>4. ASSUME NEW s \in Requests, IssueService(s) \/ StoreService(s)
      PROVE  FALSE
  <2>1. s = r
    BY <1>1, <1>4, NotAdmitted DEF IssueService, StoreService, GatewayTypes
  <2>2. req'[r].token = req[r].token /\ req[r].at \in {"fetching", "issued"}
    BY <1>1, <1>4, <2>1 DEF IssueService, StoreService, Moved, GatewayTypes
  <2> QED
    BY <2>2 DEF Admitted
<1>5. ASSUME NEW s \in Requests, KeycloakUnavailable(s)
      PROVE  FALSE
  BY <1>1, <1>5, NotAdmitted DEF KeycloakUnavailable, GatewayTypes
<1>6. CASE CrashGateway
  BY <1>6, NotAdmitted DEF CrashGateway
<1> QED
  BY <1>2, <1>3, <1>4, <1>5, <1>6 DEF GatewayStep

LEMMA TickAdmitsNothing ==
  ASSUME GatewayInv, Tick, NEW r \in Requests
  PROVE  req'[r].at = req[r].at /\ req'[r].token = req[r].token
<1>1. req[r] \in Request /\ req'[r] = Aged(req[r])
  BY DEF Tick, GatewayTick, GatewayInv, GatewayTypes
<1> PICK a : a = [at |-> req[r].at, token |-> req[r].token, person |-> req[r].person,
                  verdict |-> req[r].verdict, left |-> Sooner(req[r].left), age |-> req[r].age + 1]
  OBVIOUS
<1>2. req'[r] = a \/ req'[r] = req[r]
  BY <1>1 DEF Aged, Moved
<1> QED
  BY <1>2

LEMMA OneAdmitted ==
  ASSUME GatewayInv, [Next]_vars, NEW r \in Requests, ~Admitted(r), Admitted(r)'
  PROVE  WithinWindow(req'[r].token)
<1>1. ASSUME NEW s \in Requests, Arrive(s)
      PROVE  FALSE
  BY <1>1, NotAdmitted DEF Arrive, GatewayInv, GatewayTypes
<1>2. CASE UNCHANGED gateway
  BY <1>2, NotAdmitted DEF gateway
<1>3. CASE Tick
  BY <1>3, TickAdmitsNothing, NotAdmitted
<1> QED
  BY <1>1, <1>2, <1>3, AdmittedOnReceipt, AdmittedOnAnswer DEF Next, vars

(* AdmitsOnlyRecentlyLive: what the gateway lets through had an open       *)
(* session within the verdict's time to live and the age of the answer     *)
(* (TokenIntrospector, JwtAuthenticationFilter).                           *)
THEOREM WindowIsKept == Spec => AdmitsOnlyRecentlyLive
<1>1. GatewayInv /\ [Next]_vars =>
        [\A r \in Requests : ~Admitted(r) /\ Admitted(r)' =>
           LET t == req'[r].token IN token[t].live \/ token[t].ended < VerdictTtl + AnswerDelay]_vars
  BY OneAdmitted DEF WithinWindow
<1> QED
  BY <1>1, AccessInvariant, PTL DEF Spec, AdmitsOnlyRecentlyLive
=============================================================================
