--------------------------- MODULE CoursesProofs ---------------------------
(***************************************************************************)
(* Proofs about Courses for any courses, requests, members, subscriptions  *)
(* and failures.                                                           *)
(*                                                                         *)
(* The two properties speak of documents and URLs; the invariant adds what *)
(* a copy in a request's hands may still be trusted for, and that a right  *)
(* to play goes back to an announced activation.                           *)
(***************************************************************************)
EXTENDS Courses, TLAPS

Places == {"idle", "assigning", "asking", "marking", "playing"}
Request == [at : Places, id : AllCourses \cup {NoKey},
            member : Members \cup {Nobody}, copy : Document]

CourseTypes ==
  /\ course \in [AllCourses -> Document]
  /\ minted \in 0 .. MaxKeys
  /\ uploadUrls \subseteq Key /\ stored \subseteq uploadUrls
  /\ playback \in [member : Members, key : Key] \cup {NoUrl}
  /\ req \in [Requests -> Request]

(* A document, or a copy of it, vouches for no object that is not there,   *)
(* has an owner if it does, and names keys of its own course only.         *)
Sound(doc, c) ==
  /\ doc.uploaded => doc.key \in stored /\ doc.owner \in Members
  /\ doc.key # NoKey => doc.key[1] = c

(* A copy in use is sound, and its owner is still the owner.               *)
CopyOK(q) ==
  /\ q.at # "idle" =>
       /\ q.id \in AllCourses /\ q.member \in Members
       /\ Sound(q.copy, q.id)
       /\ q.copy.owner \in Members /\ q.copy.owner = course[q.id].owner
  /\ q.at = "assigning" => q.copy.key \in Key
  /\ q.at = "playing" => q.copy.uploaded

(* What subscription-service announced is all that the queue and the read  *)
(* model hold.                                                             *)
EventsKnown ==
  /\ outbox \subseteq emitted
  /\ \A q \in Queues : queue[q] \subseteq emitted

RightsKnown ==
  \A s \in Subs : entitlement[s] = "active" => Ev("SubscriptionActivated", s) \in emitted

CourseInv ==
  /\ CourseTypes
  /\ \A c \in AllCourses : Sound(course[c], c)
  /\ \A r \in Requests : CopyOK(req[r])
  /\ PlaybackIsEarned

EventInv == MessagingTypeOK /\ EntitlementTypeOK /\ EventsKnown /\ RightsKnown

-----------------------------------------------------------------------------
LEMMA InitEvents == Init => EventInv
  BY MaxFaultsAssumption
  DEF Init, EventInv, MessagingInit, EntitlementInit, MessagingTypeOK, EntitlementTypeOK,
      EventsKnown, RightsKnown

LEMMA InitCourses == Init => CourseInv
<1> SUFFICES ASSUME Init PROVE CourseInv
  OBVIOUS
<1>1. Missing \in Document /\ Idle \in Request
  BY DEF Missing, Document, Idle, Request, Places
<1>2. CourseTypes
  BY <1>1, CoursesAssumption DEF Init, CourseTypes
<1>3. \A c \in AllCourses : Sound(course[c], c)
  BY DEF Init, Sound, Missing
<1>4. \A r \in Requests : CopyOK(req[r])
  BY DEF Init, CopyOK, Idle
<1> QED
  BY <1>2, <1>3, <1>4 DEF CourseInv, PlaybackIsEarned, Init

-----------------------------------------------------------------------------
(* Events.                                                                 *)

LEMMA PublishKeeps ==
  ASSUME EventInv, MessagingStep, UNCHANGED entitlement
  PROVE  EventInv'
<1>1. CASE \E e \in outbox : Publish(e)
  <2> PICK e \in outbox : Publish(e)
    BY <1>1
  <2>1. e \in Event /\ e \in emitted
    BY DEF EventInv, MessagingTypeOK, EventsKnown
  <2> QED
    BY <2>1 DEF Publish, EventInv, MessagingTypeOK, EntitlementTypeOK, EventsKnown, RightsKnown
<1>2. CASE \E q \in Queues : \E e \in emitted : Redeliver(q, e)
  <2> PICK q \in Queues, e \in emitted : Redeliver(q, e)
    BY <1>2
  <2>1. e \in Event
    BY DEF EventInv, MessagingTypeOK
  <2>2. faults' \in 0 .. MaxFaults
    BY MaxFaultsAssumption DEF Redeliver, Fault, EventInv, MessagingTypeOK
  <2> QED
    BY <2>1, <2>2 DEF Redeliver, EventInv, MessagingTypeOK, EntitlementTypeOK, EventsKnown, RightsKnown
<1> QED
  BY <1>1, <1>2 DEF MessagingStep

LEMMA EntitlementKeeps ==
  ASSUME EventInv, EntitlementStep
  PROVE  EventInv' /\ emitted' = emitted
<1> PICK s \in Subs : Grant(s) \/ Revoke(s)
  BY DEF EntitlementStep
<1>1. CASE Grant(s)
  <2>1. Ev("SubscriptionActivated", s) \in emitted
    BY <1>1, CoursesAssumption DEF Grant, Take, EventInv, EventsKnown
  <2>2. MessagingTypeOK' /\ EventsKnown'
    BY <1>1 DEF Grant, Take, EventInv, MessagingTypeOK, EventsKnown
  <2>3. EntitlementTypeOK' /\ RightsKnown'
    BY <1>1, <2>1 DEF Grant, EventInv, EntitlementTypeOK, RightsKnown
  <2> QED
    BY <1>1, <2>2, <2>3 DEF EventInv, Grant
<1>2. CASE Revoke(s)
  <2>1. MessagingTypeOK' /\ EventsKnown'
    BY <1>2 DEF Revoke, Take, EventInv, MessagingTypeOK, EventsKnown
  <2>2. EntitlementTypeOK' /\ RightsKnown'
    BY <1>2 DEF Revoke, EventInv, EntitlementTypeOK, RightsKnown
  <2> QED
    BY <1>2, <2>1, <2>2 DEF EventInv, Revoke
<1> QED
  BY <1>1, <1>2

LEMMA AnnounceKeeps ==
  ASSUME EventInv, UNCHANGED entitlement, NEW s \in Subs,
         NEW type \in {"SubscriptionActivated", "SubscriptionCancelled"}, Announce(type, s)
  PROVE  EventInv' /\ emitted \subseteq emitted'
<1>1. Ev(type, s) \in Event
  BY DEF Ev, Event, SubscriptionEvent
<1>2. MessagingTypeOK' /\ EventsKnown'
  BY <1>1 DEF Announce, Emit, EventInv, MessagingTypeOK, EventsKnown
<1> QED
  BY <1>2 DEF Announce, Emit, EventInv, EntitlementTypeOK, RightsKnown

LEMMA EventsUntouched ==
  ASSUME EventInv, UNCHANGED <<messaging, entitlement>>
  PROVE  EventInv'
  BY DEF EventInv, messaging, MessagingTypeOK, EntitlementTypeOK, EventsKnown, RightsKnown

LEMMA CoursesUntouched ==
  ASSUME CourseInv, UNCHANGED courses, emitted \subseteq emitted'
  PROVE  CourseInv'
<1>1. CourseTypes' /\ \A c \in AllCourses : Sound(course[c], c)'
  BY DEF CourseInv, courses, CourseTypes, Sound
<1>2. \A r \in Requests : CopyOK(req[r])'
  BY DEF CourseInv, courses, CopyOK, Sound
<1>3. PlaybackIsEarned'
  BY DEF CourseInv, courses, PlaybackIsEarned
<1> QED
  BY <1>1, <1>2, <1>3 DEF CourseInv

-----------------------------------------------------------------------------
(* Course operations.                                                      *)

LEMMA MissingIsNobodys ==
  ASSUME NEW doc \in Document, doc.owner \in Members
  PROVE  doc # Missing
  BY CoursesAssumption DEF Missing

(* A request that reads, or moves on with its copy, disturbs nothing else. *)
LEMMA RequestMoves ==
  ASSUME CourseInv, UNCHANGED <<course, uploadUrls, stored, playback, emitted>>,
         minted' \in 0 .. MaxKeys,
         NEW r \in Requests, NEW q \in Request, CopyOK(q),
         req' = [req EXCEPT ![r] = q]
  PROVE  CourseInv'
<1>1. CourseTypes' /\ \A c \in AllCourses : Sound(course[c], c)'
  BY DEF CourseInv, CourseTypes, Sound
<1>2. \A s \in Requests : req'[s] = IF s = r THEN q ELSE req[s]
  BY DEF CourseInv, CourseTypes
<1>3. \A s \in Requests : CopyOK(req[s])'
  BY <1>2 DEF CourseInv, CopyOK, Sound
<1>4. PlaybackIsEarned'
  BY DEF CourseInv, PlaybackIsEarned
<1> QED
  BY <1>1, <1>3, <1>4 DEF CourseInv

LEMMA IdleIsFine == Idle \in Request /\ CopyOK(Idle)
  BY DEF Idle, Request, Places, Document, Missing, CopyOK

(* Saving a sound copy keeps every owner, so the copies of others stay as  *)
(* good as they were.                                                      *)
LEMMA CopySaved ==
  ASSUME CourseInv, UNCHANGED <<minted, stored, playback, emitted>>,
         uploadUrls \subseteq uploadUrls', uploadUrls' \subseteq Key,
         NEW r \in Requests, req[r].at # "idle",
         course' = [course EXCEPT ![req[r].id] = req[r].copy],
         req' = [req EXCEPT ![r] = Idle]
  PROVE  CourseInv'
<1> DEFINE q == req[r]
<1>1. /\ q.id \in AllCourses /\ q.copy \in Document /\ Sound(q.copy, q.id)
      /\ q.copy.owner = course[q.id].owner
  BY DEF CourseInv, CourseTypes, CopyOK, Request
<1>2. \A c \in AllCourses : course'[c] = IF c = q.id THEN q.copy ELSE course[c]
  BY DEF CourseInv, CourseTypes
<1>3. \A c \in AllCourses : course'[c].owner = course[c].owner
  BY <1>1, <1>2
<1>4. CourseTypes'
  BY <1>1, IdleIsFine DEF CourseInv, CourseTypes
<1>5. \A c \in AllCourses : Sound(course[c], c)'
  BY <1>1, <1>2 DEF CourseInv, Sound
<1>6. \A s \in Requests : CopyOK(req[s])'
  <2>1. \A s \in Requests : req'[s] = IF s = r THEN Idle ELSE req[s]
    BY DEF CourseInv, CourseTypes
  <2>2. Idle.at = "idle"
    BY DEF Idle
  <2> QED
    BY <1>3, <2>1, <2>2 DEF CourseInv, CopyOK, Sound
<1>7. PlaybackIsEarned'
  <2>1. playback # NoUrl => playback.key \in Key
    BY DEF CourseInv, CourseTypes
  <2>2. playback # NoUrl => playback.key[1] \in AllCourses
    BY <2>1 DEF Key
  <2> QED
    BY <1>3, <2>2 DEF CourseInv, PlaybackIsEarned
<1> QED
  BY <1>4, <1>5, <1>6, <1>7 DEF CourseInv

LEMMA CreateKeeps ==
  ASSUME CourseInv, UNCHANGED emitted, NEW c \in AllCourses, NEW m \in Members, Create(c, m)
  PROVE  CourseInv'
<1> DEFINE new == [Missing EXCEPT !.owner = m]
<1>1. /\ new \in Document /\ new.uploaded = FALSE /\ new.key = NoKey
  BY DEF Missing, Document
<1>2. \A d \in AllCourses : course'[d] = IF d = c THEN new ELSE course[d]
  BY DEF Create, CourseInv, CourseTypes
<1>3. \A d \in AllCourses : course[d].owner \in Members => course'[d].owner = course[d].owner
  BY <1>2, MissingIsNobodys DEF Create, CourseInv, CourseTypes
<1> HIDE DEF new
<1>4. CourseTypes'
  <2>1. course' \in [AllCourses -> Document]
    BY <1>1 DEF Create, CourseInv, CourseTypes, new
  <2> QED
    BY <2>1 DEF Create, CourseInv, CourseTypes
<1>5. \A d \in AllCourses : Sound(course[d], d)'
  BY <1>1, <1>2 DEF Create, CourseInv, Sound
<1>6. \A s \in Requests : CopyOK(req[s])'
  BY <1>3 DEF Create, CourseInv, CopyOK, Sound
<1>7. PlaybackIsEarned'
  <2>1. playback # NoUrl => playback.key[1] \in AllCourses /\ playback.member \in Members
    BY DEF CourseInv, CourseTypes, Key, NoUrl
  <2> QED
    BY <1>3, <2>1 DEF Create, CourseInv, PlaybackIsEarned
<1> QED
  BY <1>4, <1>5, <1>6, <1>7 DEF CourseInv

LEMMA UploadKeeps ==
  ASSUME CourseInv, UNCHANGED emitted,
         NEW r \in Requests, NEW c \in AllCourses, NEW m \in Members, ReadForUpload(r, c, m)
  PROVE  CourseInv'
<1> DEFINE key == <<c, minted + 1>>
           copy == Assigned(course[c], key)
           q == [at |-> "assigning", id |-> c, member |-> m, copy |-> copy]
<1>1. key \in Key /\ minted' \in 0 .. MaxKeys /\ key[1] = c
  BY CoursesAssumption DEF ReadForUpload, CourseInv, CourseTypes, Key
<1>2. course[c] \in Document /\ course[c].owner = m
  BY DEF ReadForUpload, Owned, CourseInv, CourseTypes
<1> HIDE DEF key
<1>3. copy \in Document /\ copy.owner = m /\ copy.key = key /\ copy.uploaded = FALSE
  BY <1>1, <1>2 DEF Assigned, Document
<1> HIDE DEF copy
<1>4. q \in Request /\ CopyOK(q)
  BY <1>1, <1>2, <1>3 DEF Request, Places, CopyOK, Sound
<1>5. req' = [req EXCEPT ![r] = q]
  BY DEF ReadForUpload, Holds, copy, key
<1> QED
  BY <1>1, <1>4, <1>5, RequestMoves DEF ReadForUpload

LEMMA CompleteKeeps ==
  ASSUME CourseInv, UNCHANGED emitted,
         NEW r \in Requests, NEW c \in AllCourses, NEW m \in Members, ReadForComplete(r, c, m)
  PROVE  CourseInv'
<1> DEFINE q == [at |-> "asking", id |-> c, member |-> m, copy |-> course[c]]
<1>1. q \in Request /\ CopyOK(q)
  BY DEF ReadForComplete, Owned, CourseInv, CourseTypes, Request, Places, CopyOK
<1>2. req' = [req EXCEPT ![r] = q] /\ minted' \in 0 .. MaxKeys
  BY DEF ReadForComplete, Holds, CourseInv, CourseTypes
<1> QED
  BY <1>1, <1>2, RequestMoves DEF ReadForComplete

LEMMA PlaybackReadKeeps ==
  ASSUME CourseInv, UNCHANGED emitted,
         NEW r \in Requests, NEW c \in AllCourses, NEW m \in Members, ReadForPlayback(r, c, m)
  PROVE  CourseInv'
<1> DEFINE q == [at |-> "playing", id |-> c, member |-> m, copy |-> course[c]]
<1>1. q \in Request /\ CopyOK(q)
  BY DEF ReadForPlayback, HasVideo, CourseInv, CourseTypes, Request, Places, CopyOK, Sound
<1>2. req' = [req EXCEPT ![r] = q] /\ minted' \in 0 .. MaxKeys
  BY DEF ReadForPlayback, Holds, CourseInv, CourseTypes
<1> QED
  BY <1>1, <1>2, RequestMoves DEF ReadForPlayback

LEMMA AskKeeps ==
  ASSUME CourseInv, UNCHANGED emitted, NEW r \in Requests, AskStorage(r)
  PROVE  CourseInv'
<1>1. minted' \in 0 .. MaxKeys
  BY DEF AskStorage, CourseInv, CourseTypes
<1>2. CASE Answers(r)
  BY <1>1, <1>2, IdleIsFine, RequestMoves DEF AskStorage, Answers
<1>3. CASE ~Answers(r)
  <2> DEFINE q == [at |-> "marking", id |-> req[r].id, member |-> req[r].member,
                   copy |-> [req[r].copy EXCEPT !.uploaded = TRUE]]
  <2>1. req[r] \in Request /\ CopyOK(req[r]) /\ req[r].at = "asking" /\ req[r].copy.key \in stored
    BY <1>3 DEF AskStorage, CourseInv, CourseTypes
  <2>2. /\ q.copy \in Document /\ q.copy.key = req[r].copy.key
        /\ q.copy.owner = req[r].copy.owner
    BY <2>1 DEF Request, Document
  <2>3. q \in Request /\ CopyOK(q)
    BY <2>1, <2>2 DEF Request, Places, CopyOK, Sound
  <2>4. req' = [req EXCEPT ![r] = q]
    BY <1>3 DEF AskStorage, Holds
  <2> QED
    BY <1>1, <2>3, <2>4, RequestMoves DEF AskStorage
<1> QED
  BY <1>2, <1>3

LEMMA SaveKeyKeeps ==
  ASSUME CourseInv, UNCHANGED emitted, NEW r \in Requests, SaveKey(r)
  PROVE  CourseInv'
<1>1. req[r].copy.key \in Key
  BY DEF SaveKey, CourseInv, CopyOK
<1>2. uploadUrls \subseteq uploadUrls' /\ uploadUrls' \subseteq Key
  BY <1>1 DEF SaveKey, CourseInv, CourseTypes
<1> QED
  BY <1>2, CopySaved DEF SaveKey, Answers

LEMMA SaveUploadedKeeps ==
  ASSUME CourseInv, UNCHANGED emitted, NEW r \in Requests, SaveUploaded(r)
  PROVE  CourseInv'
<1>1. uploadUrls' = uploadUrls /\ uploadUrls \subseteq Key
  BY DEF SaveUploaded, CourseInv, CourseTypes
<1> QED
  BY <1>1, CopySaved DEF SaveUploaded, Answers

LEMMA PutKeeps ==
  ASSUME CourseInv, UNCHANGED emitted, NEW key \in uploadUrls, Put(key)
  PROVE  CourseInv'
<1>1. CourseTypes'
  BY DEF Put, CourseInv, CourseTypes
<1>2. stored \subseteq stored'
  BY DEF Put
<1>3. \A c \in AllCourses : Sound(course[c], c)'
  BY <1>2 DEF Put, CourseInv, Sound
<1>4. \A s \in Requests : CopyOK(req[s])'
  BY <1>2 DEF Put, CourseInv, CopyOK, Sound
<1>5. PlaybackIsEarned'
  BY <1>2 DEF Put, CourseInv, PlaybackIsEarned
<1> QED
  BY <1>1, <1>3, <1>4, <1>5 DEF CourseInv

LEMMA PlaybackIssued ==
  ASSUME CourseInv, EventInv, UNCHANGED emitted, NEW r \in Requests, IssuePlayback(r)
  PROVE  CourseInv'
<1> DEFINE q == req[r]
           url == [member |-> q.member, key |-> q.copy.key]
<1>1. /\ q \in Request /\ CopyOK(q) /\ q.at = "playing"
      /\ stored \subseteq Key
  BY DEF IssuePlayback, CourseInv, CourseTypes
<1>2. /\ q.member \in Members /\ q.copy.key \in stored /\ q.copy.key \in Key
      /\ q.copy.key[1] = q.id /\ q.copy.owner = course[q.id].owner
  BY <1>1, CoursesAssumption DEF CopyOK, Sound, Key
<1>3. playback' = url => q.copy.owner = q.member \/ CanPlay(q.member) \/ playback' = playback
  BY DEF IssuePlayback
<1>4. CanPlay(q.member) =>
        \E s \in Subs : SubscriberOf[s] = q.member /\ Ev("SubscriptionActivated", s) \in emitted
  BY DEF CanPlay, EventInv, RightsKnown
<1>5. playback' = url \/ playback' = playback
  BY DEF IssuePlayback
<1>6. url.member = q.member /\ url.key = q.copy.key /\ url \in [member : Members, key : Key]
  BY <1>2
<1>7. PlaybackIsEarned'
  <2>1. CASE playback' = playback
    BY <2>1 DEF IssuePlayback, CourseInv, PlaybackIsEarned
  <2>2. CASE playback' = url /\ playback' # playback
    <3>1. q.copy.owner = q.member \/ CanPlay(q.member)
      BY <1>3, <2>2
    <3>2. playback'.key = q.copy.key /\ playback'.member = q.member
      BY <2>2
    <3> QED
      BY <1>2, <1>4, <3>1, <3>2 DEF IssuePlayback, PlaybackIsEarned
  <2> QED
    BY <1>5, <2>1, <2>2
<1>8. CourseTypes'
  <2>1. playback' \in [member : Members, key : Key] \cup {NoUrl}
    BY <1>5, <1>6 DEF CourseInv, CourseTypes
  <2> QED
    BY <2>1, IdleIsFine DEF IssuePlayback, Answers, CourseInv, CourseTypes
<1>9. \A s \in Requests : CopyOK(req[s])'
  <2>1. \A s \in Requests : req'[s] = IF s = r THEN Idle ELSE req[s]
    BY DEF IssuePlayback, Answers, CourseInv, CourseTypes
  <2> QED
    BY <2>1, IdleIsFine DEF IssuePlayback, CourseInv, CopyOK, Sound
<1>10. \A c \in AllCourses : Sound(course[c], c)'
  BY DEF IssuePlayback, CourseInv, Sound
<1> QED
  BY <1>7, <1>8, <1>9, <1>10 DEF CourseInv

LEMMA CrashKeeps ==
  ASSUME CourseInv, EventInv, UNCHANGED entitlement, CrashCourses
  PROVE  CourseInv' /\ EventInv'
<1>1. CourseTypes' /\ \A c \in AllCourses : Sound(course[c], c)'
  BY IdleIsFine DEF CrashCourses, CourseInv, CourseTypes, Sound
<1>2. \A s \in Requests : CopyOK(req[s])'
  BY DEF CrashCourses, CopyOK, Idle
<1>3. PlaybackIsEarned'
  BY DEF CrashCourses, CourseInv, PlaybackIsEarned
<1>4. faults' \in 0 .. MaxFaults
  BY MaxFaultsAssumption DEF CrashCourses, Fault, EventInv, MessagingTypeOK
<1>5. EventInv'
  BY <1>4 DEF CrashCourses, EventInv, MessagingTypeOK, EntitlementTypeOK, EventsKnown, RightsKnown
<1> QED
  BY <1>1, <1>2, <1>3, <1>5 DEF CourseInv

-----------------------------------------------------------------------------
LEMMA CourseStepKeeps ==
  ASSUME CourseInv, EventInv, UNCHANGED emitted, CourseStep
  PROVE  CourseInv'
<1>1. CASE \E c \in AllCourses, m \in Members : Create(c, m)
  BY <1>1, CreateKeeps
<1>2. CASE \E c \in AllCourses, m \in Members, r \in Requests :
             ReadForUpload(r, c, m) \/ ReadForComplete(r, c, m) \/ ReadForPlayback(r, c, m)
  BY <1>2, UploadKeeps, CompleteKeeps, PlaybackReadKeeps
<1>3. CASE \E r \in Requests : SaveKey(r) \/ AskStorage(r) \/ SaveUploaded(r) \/ IssuePlayback(r)
  BY <1>3, SaveKeyKeeps, AskKeeps, SaveUploadedKeeps, PlaybackIssued
<1>4. CASE \E key \in uploadUrls : Put(key)
  BY <1>4, PutKeeps
<1> QED
  BY <1>1, <1>2, <1>3, <1>4 DEF CourseStep

LEMMA StepKeeps ==
  ASSUME CourseInv, EventInv, [Next]_vars
  PROVE  CourseInv' /\ EventInv'
<1>1. CASE CourseStep /\ UNCHANGED <<messaging, entitlement>>
  BY <1>1, CourseStepKeeps, EventsUntouched DEF messaging
<1>2. CASE CrashCourses /\ UNCHANGED entitlement
  BY <1>2, CrashKeeps
<1>3. CASE EntitlementStep /\ UNCHANGED courses
  BY <1>3, EntitlementKeeps, CoursesUntouched
<1>4. CASE MessagingStep /\ UNCHANGED <<entitlement, courses>>
  <2>1. emitted' = emitted
    BY <1>4 DEF MessagingStep, Publish, Redeliver
  <2> QED
    BY <1>4, <2>1, PublishKeeps, CoursesUntouched
<1>5. CASE \E s \in Subs, type \in {"SubscriptionActivated", "SubscriptionCancelled"} :
             Announce(type, s) /\ UNCHANGED <<entitlement, courses>>
  BY <1>5, AnnounceKeeps, CoursesUntouched
<1>6. CASE UNCHANGED vars
  BY <1>6, EventsUntouched, CoursesUntouched DEF vars, messaging
<1> QED
  BY <1>1, <1>2, <1>3, <1>4, <1>5, <1>6 DEF Next

(* Documents, copies in use, the last URL and the read model are sound in  *)
(* every reachable state of course-service.                                *)
THEOREM CoursesInvariant == Spec => [](CourseInv /\ EventInv)
<1>1. Init => CourseInv /\ EventInv
  BY InitEvents, InitCourses
<1>2. (CourseInv /\ EventInv) /\ [Next]_vars => (CourseInv /\ EventInv)'
  BY StepKeeps
<1> QED
  BY <1>1, <1>2, PTL DEF Spec

(* Types of the collection, the keys, the copies and the read model.       *)
THEOREM CoursesTypeCorrect == Spec => []TypeOK
<1>1. CourseInv /\ EventInv => TypeOK
  BY DEF CourseInv, EventInv, CourseTypes, Request, Places, TypeOK
<1> QED
  BY <1>1, CoursesInvariant, PTL

(* completeUpload never vouches for an object that is not in the store,    *)
(* whichever requests it overlaps with.                                    *)
THEOREM UploadsAreReal == Spec => []UploadedIsStored
<1>1. CourseInv => UploadedIsStored
  BY DEF CourseInv, Sound, UploadedIsStored
<1> QED
  BY <1>1, CoursesInvariant, PTL

(* issuePlaybackUrl hands out URLs of existing objects only, to the owner  *)
(* or to a member who had a subscription activated.                        *)
THEOREM PlaybackAlwaysEarned == Spec => []PlaybackIsEarned
<1>1. CourseInv => PlaybackIsEarned
  BY DEF CourseInv
<1> QED
  BY <1>1, CoursesInvariant, PTL
=============================================================================
