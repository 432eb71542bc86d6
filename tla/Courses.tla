------------------------------ MODULE Courses ------------------------------
(***************************************************************************)
(* course-service: courses, their video's object key and flag, and the     *)
(* URLs by which clients write and read objects behind the service's back. *)
(*                                                                         *)
(* A course is one document without a version.  Every operation reads it,  *)
(* works on the copy, perhaps asks the object store, and saves the whole   *)
(* copy; requests interleave between the two.  Who may play is read from   *)
(* Entitlement, which follows the events of subscription-service.          *)
(***************************************************************************)
EXTENDS Entitlement

CONSTANTS
  AllCourses,     \* course ids
  Requests,       \* request threads
  SubscriberOf,   \* [Subs -> Members]
  MaxKeys,        \* bound on the object keys handed out
  Nobody,         \* stands for "no member"
  NoKey           \* stands for "no object key"

ASSUME CoursesAssumption ==
  /\ MaxKeys \in Nat /\ SubscriberOf \in [Subs -> Members] /\ StatusQueue \in Queues
  /\ Nobody \notin Members /\ NoKey \notin AllCourses \X (1 .. MaxKeys)

VARIABLES
  course,         \* the collection
  minted,         \* object keys made so far (random in the code: none twice)
  uploadUrls,     \* keys for which an upload URL was handed out
  stored,         \* keys under which the object store has an object
  playback,       \* the playback URL issued last
  req             \* [Requests -> the copy a request works on]

courses == <<course, minted, uploadUrls, stored, playback, req>>
vars == <<messaging, entitlement, courses>>

Key == AllCourses \X (1 .. MaxKeys)
Document == [owner : Members \cup {Nobody}, key : Key \cup {NoKey}, uploaded : BOOLEAN]
Missing == [owner |-> Nobody, key |-> NoKey, uploaded |-> FALSE]

Idle == [at |-> "idle", id |-> NoKey, member |-> Nobody, copy |-> Missing]
NoUrl == [member |-> Nobody, key |-> NoKey]

TypeOK ==
  /\ MessagingTypeOK /\ EntitlementTypeOK
  /\ course \in [AllCourses -> Document]
  /\ minted \in 0 .. MaxKeys
  /\ uploadUrls \subseteq Key /\ stored \subseteq uploadUrls
  /\ playback \in [member : Members, key : Key] \cup {NoUrl}
  /\ req \in [Requests -> [at : {"idle", "assigning", "asking", "marking", "playing"},
                           id : AllCourses \cup {NoKey},
                           member : Members \cup {Nobody}, copy : Document]]

Init ==
  /\ MessagingInit /\ EntitlementInit
  /\ course = [c \in AllCourses |-> Missing]
  /\ minted = 0
  /\ uploadUrls = {}
  /\ stored = {}
  /\ playback = NoUrl
  /\ req = [r \in Requests |-> Idle]

-----------------------------------------------------------------------------
Holds(r, place, c, m, copy) ==
  req' = [req EXCEPT ![r] = [at |-> place, id |-> c, member |-> m, copy |-> copy]]
Answers(r) == req' = [req EXCEPT ![r] = Idle]

Create(c, m) ==
  /\ course[c] = Missing
  /\ course' = [course EXCEPT ![c] = [Missing EXCEPT !.owner = m]]
  /\ UNCHANGED <<minted, uploadUrls, stored, playback, req>>

(* findOwned: anybody else is told that there is no such course.           *)
Owned(c, m) == course[c].owner = m

(* assignVideoObjectKey: a new key has not been uploaded.                  *)
Assigned(doc, key) == [doc EXCEPT !.key = key, !.uploaded = FALSE]

ReadForUpload(r, c, m) ==
  /\ req[r] = Idle
  /\ Owned(c, m)
  /\ minted < MaxKeys
  /\ minted' = minted + 1
  /\ Holds(r, "assigning", c, m, Assigned(course[c], <<c, minted + 1>>))
  /\ UNCHANGED <<course, uploadUrls, stored, playback>>

(* The copy is saved, and the URL signed; if signing fails the key stays.  *)
SaveKey(r) ==
  /\ req[r].at = "assigning"
  /\ course' = [course EXCEPT ![req[r].id] = req[r].copy]
  /\ uploadUrls' \in {uploadUrls, uploadUrls \cup {req[r].copy.key}}
  /\ Answers(r)
  /\ UNCHANGED <<minted, stored, playback>>

(* A client uploads straight to the object store.                          *)
Put(key) ==
  /\ stored' = stored \cup {key}
  /\ UNCHANGED <<course, minted, uploadUrls, playback, req>>

(* completeUpload: without a key there is nothing to complete; ...         *)
ReadForComplete(r, c, m) ==
  /\ req[r] = Idle
  /\ Owned(c, m)
  /\ course[c].key # NoKey
  /\ Holds(r, "asking", c, m, course[c])
  /\ UNCHANGED <<course, minted, uploadUrls, stored, playback>>

(* ... objectExists: absent or unknown, nothing changes; ...               *)
AskStorage(r) ==
  LET q == req[r] IN
  /\ q.at = "asking"
  /\ \/ q.copy.key \in stored
        /\ Holds(r, "marking", q.id, q.member, [q.copy EXCEPT !.uploaded = TRUE])
     \/ Answers(r)
  /\ UNCHANGED <<course, minted, uploadUrls, stored, playback>>

(* Variant: only the flag is written.                                      *)
SaveUploaded_FlagOnly(r) ==
  /\ req[r].at = "marking"
  /\ course' = [course EXCEPT ![req[r].id].uploaded = TRUE]
  /\ Answers(r)
  /\ UNCHANGED <<minted, uploadUrls, stored, playback>>

(* ... the copy is saved, key and all.                                     *)
SaveUploaded(r) ==
  /\ req[r].at = "marking"
  /\ course' = [course EXCEPT ![req[r].id] = req[r].copy]
  /\ Answers(r)
  /\ UNCHANGED <<minted, uploadUrls, stored, playback>>

-----------------------------------------------------------------------------
HasVideo(doc) == doc.uploaded /\ doc.key # NoKey

(* Variant: any document of the member's counts.                           *)
CanPlay_AnyDocument(m) == \E s \in Subs : SubscriberOf[s] = m /\ entitlement[s] # "none"

(* existsByMemberIdAndActiveIsTrue.                                        *)
CanPlay(m) == \E s \in Subs : SubscriberOf[s] = m /\ entitlement[s] = "active"

ReadForPlayback(r, c, m) ==
  /\ req[r] = Idle
  /\ HasVideo(course[c])
  /\ Holds(r, "playing", c, m, course[c])
  /\ UNCHANGED <<course, minted, uploadUrls, stored, playback>>

(* The owner is not asked for a subscription.                              *)
IssuePlayback(r) ==
  LET q == req[r] IN
  /\ q.at = "playing"
  /\ \/ /\ q.copy.owner = q.member \/ CanPlay(q.member)
        /\ playback' = [member |-> q.member, key |-> q.copy.key]
     \/ playback' = playback
  /\ Answers(r)
  /\ UNCHANGED <<course, minted, uploadUrls, stored>>

(* The service dies; what was not saved is gone.                           *)
CrashCourses ==
  /\ \E r \in Requests : req[r] # Idle
  /\ Fault("crash")
  /\ req' = [r \in Requests |-> Idle]
  /\ UNCHANGED <<outbox, emitted, queue, dlq, course, minted, uploadUrls, stored, playback>>

CourseStep ==
  \/ \E c \in AllCourses, m \in Members :
       \/ Create(c, m)
       \/ \E r \in Requests :
            ReadForUpload(r, c, m) \/ ReadForComplete(r, c, m) \/ ReadForPlayback(r, c, m)
  \/ \E r \in Requests : SaveKey(r) \/ AskStorage(r) \/ SaveUploaded(r) \/ IssuePlayback(r)
  \/ \E key \in uploadUrls : Put(key)

(* subscription-service: a subscription may be activated, cancelled, or    *)
(* both, and either event may be written first.                            *)
Announce(type, s) ==
  /\ Ev(type, s) \notin emitted
  /\ Emit({Ev(type, s)})
  /\ UNCHANGED <<queue, dlq, faults>>

Next ==
  \/ CourseStep /\ UNCHANGED <<messaging, entitlement>>
  \/ CrashCourses /\ UNCHANGED entitlement
  \/ EntitlementStep /\ UNCHANGED courses
  \/ MessagingStep /\ UNCHANGED <<entitlement, courses>>
  \/ \E s \in Subs, type \in {"SubscriptionActivated", "SubscriptionCancelled"} :
       Announce(type, s) /\ UNCHANGED <<entitlement, courses>>

Spec == Init /\ [][Next]_vars

-----------------------------------------------------------------------------
(* A course shown as uploaded has its object in the store, under the key   *)
(* the document names: a completion that was overtaken by a new upload URL *)
(* does not vouch for the new key.                                         *)
UploadedIsStored == \A c \in AllCourses : course[c].uploaded => course[c].key \in stored

(* A playback URL opens an object that is there, of a course whose owner   *)
(* asked, or somebody who once had a subscription activated: not by a      *)
(* cancellation that came first, and not by an unfinished upload.          *)
PlaybackIsEarned ==
  playback # NoUrl =>
    /\ playback.key \in stored
    /\ \/ course[playback.key[1]].owner = playback.member
       \/ \E s \in Subs : /\ SubscriberOf[s] = playback.member
                          /\ Ev("SubscriptionActivated", s) \in emitted
=============================================================================
