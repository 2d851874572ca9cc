--------------------------- MODULE ProfilePictures ---------------------------
(***************************************************************************)
(* Profile pictures hosted in an object store outside the database: the    *)
(* cleanup table of features/users, the uploads and imports that reserve   *)
(* an object key before they PUT, and the drains that DELETE what no       *)
(* profile refers to any more.                                             *)
(*                                                                         *)
(* The store is reached by HTTP, so requests of several actors overlap: a  *)
(* step is one storage transaction, or a request taking effect or being    *)
(* given up at the store.  The process may crash between any two steps;    *)
(* requests under way then still take effect.                              *)
(*                                                                         *)
(* An object key has a random part (userPictureGenerationCreate), so each  *)
(* upload has a key of its own, and a key stands for its upload.  Leases   *)
(* last five minutes of wall-clock time, requests as long as they take: a  *)
(* lease may be over at any moment after it was taken.  A drain reads the  *)
(* clock once, when it starts, and so may miss that a lease is over; it    *)
(* then leaves the row to a later drain.                                   *)
(***************************************************************************)
EXTENDS Integers

CONSTANTS
    Users, Keys,
    Drains,      \* concurrent executions of userProfilePictureCleanupDrain
    Timer,       \* the one the retry lifecycle runs every 30 seconds
    MaxCrashes,  \* bound on crashes of the process
    None

\* A lease token is a fresh UUID: the upload's of that key, or the drain's.
Uploader == "uploader"

ASSUME ProfilePicturesAssumption ==
    /\ Timer \in Drains
    /\ MaxCrashes \in Nat
    /\ Uploader \notin Drains
    /\ None \notin Keys \cup Users \cup Drains \cup {Uploader}

VARIABLES
    user,        \* users.state: "live" is every state but "deleted"
    picture,     \* user_profiles.picture_url
    row,         \* user_profile_picture_cleanup
    upload,      \* the request each object key was made for
    put,         \* its PUT, as the store sees it
    object,      \* the keys with an object in the store
    drain,       \* the executions of the drain
    straggler,   \* DELETEs under way whose drain no longer waits for them
    stray,       \* history: keys whose PUT nobody was left to clean up after
    overtaken,   \* history: keys whose PUT was answered while a drain was deleting them
    crashes

vars == <<user, picture, row, upload, put, object, drain, straggler, stray, overtaken, crashes>>
store == <<put, object, straggler>>
history == <<stray, overtaken, crashes>>

-----------------------------------------------------------------------------

CleanupRow == [state : {"uploading", "pending-delete", "deleting"},
               lease : Drains \cup {Uploader, None}, over : BOOLEAN]
UploadRow == [user : Users, onlyIfMissing : BOOLEAN,
              phase : {"downloading", "putting", "over"}]
DrainRow == [running : BOOLEAN, todo : SUBSET Keys, key : Keys \cup {None}, landed : BOOLEAN]

ASSUME NoneRowAssumption == None \notin CleanupRow \cup UploadRow

Idle == [running |-> FALSE, todo |-> {}, key |-> None, landed |-> FALSE]
Pending == [state |-> "pending-delete", lease |-> None, over |-> FALSE]
Leased(state, holder) == [state |-> state, lease |-> holder, over |-> FALSE]

Init ==
    /\ user = [u \in Users |-> "live"]
    /\ picture = [u \in Users |-> None]
    /\ row = [k \in Keys |-> None]
    /\ upload = [k \in Keys |-> None]
    /\ put = [k \in Keys |-> "none"]
    /\ object = {}
    /\ drain = [d \in Drains |-> Idle]
    /\ straggler = {}
    /\ stray = {}
    /\ overtaken = {}
    /\ crashes = 0

\* A profile of a user who is not deleted shows the picture.
Referenced(k) == \E u \in Users : picture[u] = k /\ user[u] = "live"

Held(k, state, holder) == row[k] # None /\ row[k].state = state /\ row[k].lease = holder

\* onConflictDoNothing: an existing row stays as it is.
Enqueued(rows, k) ==
    IF k = None \/ rows[k] # None THEN rows ELSE [rows EXCEPT ![k] = Pending]

\* Mutant: a lost reservation is not made good.
ReleasedIfHeld(k) ==
    IF Held(k, "uploading", Uploader) THEN [row EXCEPT ![k] = Pending] ELSE row

\* userProfilePictureCleanupUploadFailure: give the reservation back, or, when
\* a drain took it over, queue the key again.
Released(k) ==
    IF Held(k, "uploading", Uploader) THEN [row EXCEPT ![k] = Pending] ELSE Enqueued(row, k)

\* A drain that reclaimed the key has not heard the answer to its DELETE yet.
\* The key is not queued again then, and the drain drops its row.
BeingDeleted(k) == row[k] # None /\ row[k].state = "deleting"

UploadOver(k) == upload' = [upload EXCEPT ![k].phase = "over"]

-----------------------------------------------------------------------------
(* Uploads by the user, and imports from an identity provider.             *)

ImportStart(k, u) ==
    /\ upload[k] = None
    /\ user[u] = "live" /\ picture[u] = None
    /\ upload' = [upload EXCEPT ![k] =
                    [user |-> u, onlyIfMissing |-> TRUE, phase |-> "downloading"]]
    /\ UNCHANGED <<user, picture, row, store, drain, history>>

\* The key is reserved before its PUT is sent.
ImportReserve(k) ==
    /\ upload[k] # None /\ upload[k].phase = "downloading"
    /\ row[k] = None
    /\ row' = [row EXCEPT ![k] = Leased("uploading", Uploader)]
    /\ upload' = [upload EXCEPT ![k].phase = "putting"]
    /\ put' = [put EXCEPT ![k] = "sent"]
    /\ UNCHANGED <<user, picture, object, straggler, drain, history>>

UploadReserve(k, u) ==
    /\ upload[k] = None /\ row[k] = None
    /\ user[u] = "live"
    /\ row' = [row EXCEPT ![k] = Leased("uploading", Uploader)]
    /\ upload' = [upload EXCEPT ![k] =
                    [user |-> u, onlyIfMissing |-> FALSE, phase |-> "putting"]]
    /\ put' = [put EXCEPT ![k] = "sent"]
    /\ UNCHANGED <<user, picture, object, straggler, drain, history>>

Putting(k) == upload[k] # None /\ upload[k].phase = "putting"

\* The PUT failed, or its answer got lost: the object may be there all the same.
UploadFail(k) ==
    /\ Putting(k)
    /\ row' = Released(k)
    /\ UploadOver(k)
    /\ stray' = IF BeingDeleted(k) THEN stray \cup {k} ELSE stray
    /\ UNCHANGED <<user, picture, store, drain, overtaken, crashes>>

\* Whether userProfileUpdate makes the stored object the user's picture.  One
\* whose reservation was lost is refused, its transaction is rolled back.
PublishableAnyway(k) ==   \* Mutant: the reservation is not required.
    /\ user[upload[k].user] = "live"
    /\ upload[k].onlyIfMissing => picture[upload[k].user] = None
Publishable(k) ==
    /\ user[upload[k].user] = "live"
    /\ upload[k].onlyIfMissing => picture[upload[k].user] = None
    /\ Held(k, "uploading", Uploader)

\* The PUT was answered: publish the picture and queue the one it replaces, or
\* queue the object that is not wanted.
UploadFinish(k) ==
    LET u == upload[k].user IN
    /\ Putting(k) /\ put[k] = "landed"
    /\ IF Publishable(k)
       THEN /\ picture' = [picture EXCEPT ![u] = k]
            /\ row' = [Enqueued(row, picture[u]) EXCEPT ![k] = None]
       ELSE /\ row' = Released(k)
            /\ UNCHANGED picture
    /\ UploadOver(k)
    /\ overtaken' = IF BeingDeleted(k) THEN overtaken \cup {k} ELSE overtaken
    /\ UNCHANGED <<user, store, drain, stray, crashes>>

-----------------------------------------------------------------------------
(* What takes a picture away.                                              *)

PictureRemove(u) ==
    /\ user[u] = "live" /\ picture[u] # None
    /\ picture' = [picture EXCEPT ![u] = None]
    /\ row' = Enqueued(row, picture[u])
    /\ UNCHANGED <<user, upload, store, drain, history>>

\* The profile row keeps the URL.  Only a caller that passes the public origin
\* has the picture queued.
UserDelete(u, publicOrigin) ==
    /\ user[u] = "live"
    /\ user' = [user EXCEPT ![u] = "deleted"]
    /\ row' = IF publicOrigin THEN Enqueued(row, picture[u]) ELSE row
    /\ UNCHANGED <<picture, upload, store, drain, history>>

UserPurge(u) ==
    /\ user[u] = "deleted"
    /\ user' = [user EXCEPT ![u] = "purged"]
    /\ picture' = [picture EXCEPT ![u] = None]
    /\ row' = Enqueued(row, picture[u])
    /\ UNCHANGED <<upload, store, drain, history>>

-----------------------------------------------------------------------------
(* Drains: one runs after each of the requests above, one from a timer.    *)

\* Mutant: rows whose lease is over are not listed.
FreeRows == {k \in Keys : row[k] # None /\ row[k].state = "pending-delete"}
ListedRows == {k \in Keys : row[k] # None /\ (row[k].state = "pending-delete" \/ row[k].over)}

DrainStart(d) ==
    /\ ~drain[d].running
    /\ drain' = [drain EXCEPT ![d] = [Idle EXCEPT !.running = TRUE, !.todo = ListedRows]]
    /\ UNCHANGED <<user, picture, row, upload, store, history>>

Claimable(k) == row[k] # None /\ (row[k].state = "pending-delete" \/ row[k].over)

\* The next listed key: skipped when another drain has it, dropped from the
\* table when a profile shows it, else claimed, and its DELETE is sent.
DrainClaim(d, k) ==
    /\ drain[d].running /\ drain[d].key = None
    /\ k \in drain[d].todo
    /\ LET claimed == Claimable(k) /\ ~Referenced(k) IN
       /\ row' = IF claimed THEN [row EXCEPT ![k] = Leased("deleting", d)]
                 ELSE IF Claimable(k) THEN [row EXCEPT ![k] = None]
                 ELSE row
       /\ drain' = [drain EXCEPT ![d].todo = @ \ {k},
                                 ![d].key = IF claimed THEN k ELSE None,
                                 ![d].landed = FALSE]
    /\ UNCHANGED <<user, picture, upload, store, history>>

DrainEnd(d) ==
    /\ drain[d].running /\ drain[d].key = None /\ drain[d].todo = {}
    /\ drain' = [drain EXCEPT ![d] = Idle]
    /\ UNCHANGED <<user, picture, row, upload, store, history>>

\* The DELETE was answered.  A drain that lost its claim meanwhile stops there.
DrainDeleted(d) ==
    LET k == drain[d].key IN
    /\ k # None /\ drain[d].landed
    /\ IF Held(k, "deleting", d)
       THEN /\ row' = [row EXCEPT ![k] = None]
            /\ drain' = [drain EXCEPT ![d].key = None, ![d].landed = FALSE]
       ELSE /\ drain' = [drain EXCEPT ![d] = Idle]
            /\ UNCHANGED row
    /\ UNCHANGED <<user, picture, upload, store, history>>

\* The DELETE failed, or seemed to.
DrainDeleteFailed(d) ==
    LET k == drain[d].key IN
    /\ k # None
    /\ row' = IF Held(k, "deleting", d) THEN [row EXCEPT ![k] = Pending] ELSE row
    /\ drain' = [drain EXCEPT ![d].key = None, ![d].landed = FALSE]
    /\ straggler' = IF drain[d].landed THEN straggler ELSE straggler \cup {k}
    /\ UNCHANGED <<user, picture, upload, put, object, history>>

-----------------------------------------------------------------------------
(* The object store, the leases' time, and crashes.                        *)

\* A PUT that lands after its upload was given up is a stray: the row that
\* covered the key may be gone already.
PutLand(k) ==
    /\ put[k] = "sent"
    /\ put' = [put EXCEPT ![k] = "landed"]
    /\ object' = object \cup {k}
    /\ stray' = IF Putting(k) THEN stray ELSE stray \cup {k}
    /\ UNCHANGED <<user, picture, row, upload, drain, straggler, overtaken, crashes>>

PutLose(k) ==
    /\ put[k] = "sent"
    /\ put' = [put EXCEPT ![k] = "lost"]
    /\ UNCHANGED <<user, picture, row, upload, object, drain, straggler, history>>

DeleteLand(d) ==
    /\ drain[d].key # None /\ ~drain[d].landed
    /\ object' = object \ {drain[d].key}
    /\ drain' = [drain EXCEPT ![d].landed = TRUE]
    /\ UNCHANGED <<user, picture, row, upload, put, straggler, history>>

StragglerLand(k) ==
    /\ k \in straggler
    /\ straggler' = straggler \ {k}
    /\ object' = object \ {k}
    /\ UNCHANGED <<user, picture, row, upload, put, drain, history>>

LeaseOver(k) ==
    /\ row[k] # None /\ row[k].lease # None /\ ~row[k].over
    /\ row' = [row EXCEPT ![k].over = TRUE]
    /\ UNCHANGED <<user, picture, upload, store, drain, history>>

\* Every request and drain under way ends where it is.  An upload that had lost
\* its reservation can no longer queue its object.
Crash ==
    /\ crashes < MaxCrashes
    /\ crashes' = crashes + 1
    /\ upload' = [k \in Keys |-> IF upload[k] = None THEN None
                                 ELSE [upload[k] EXCEPT !.phase = "over"]]
    /\ drain' = [d \in Drains |-> Idle]
    /\ straggler' = straggler \cup
          {k \in Keys : \E d \in Drains : drain[d].key = k /\ ~drain[d].landed}
    /\ stray' = stray \cup {k \in Keys : Putting(k) /\ ~Held(k, "uploading", Uploader)}
    /\ UNCHANGED <<user, picture, row, put, object, overtaken>>

-----------------------------------------------------------------------------

UploadNext(k) ==
    \/ \E u \in Users : ImportStart(k, u) \/ UploadReserve(k, u)
    \/ ImportReserve(k)
    \/ UploadFail(k)
    \/ UploadFinish(k)

DrainNext(d) ==
    \/ \E k \in Keys : DrainClaim(d, k)
    \/ DrainEnd(d)
    \/ DrainDeleted(d)
    \/ DrainDeleteFailed(d)

Next ==
    \/ \E k \in Keys : UploadNext(k) \/ PutLand(k) \/ PutLose(k) \/ StragglerLand(k) \/ LeaseOver(k)
    \/ \E u \in Users : PictureRemove(u) \/ UserPurge(u)
    \/ \E u \in Users, publicOrigin \in BOOLEAN : UserDelete(u, publicOrigin)
    \/ \E d \in Drains : DrainStart(d) \/ DrainNext(d) \/ DeleteLand(d)
    \/ Crash

Spec == Init /\ [][Next]_vars

\* The store answers every request, the timer runs while the process does,
\* leases end, and a DELETE that is sent again and again gets through once.
Fairness ==
    /\ \A k \in Keys :
          /\ WF_vars(UploadFail(k) \/ UploadFinish(k))
          /\ WF_vars(LeaseOver(k))
          /\ SF_vars(\E d \in Drains : drain[d].key = k /\ DeleteLand(d))
    /\ WF_vars(DrainStart(Timer))
    /\ \A d \in Drains : WF_vars(DrainNext(d))

FairSpec == Spec /\ Fairness

-----------------------------------------------------------------------------

\* Every row keeps its type, and a row has a lease token unless it waits.
TypeOK ==
    /\ user \in [Users -> {"live", "deleted", "purged"}]
    /\ picture \in [Users -> Keys \cup {None}]
    /\ row \in [Keys -> CleanupRow \cup {None}]
    /\ \A k \in Keys : row[k] # None => (row[k].lease = None <=> row[k].state = "pending-delete")
    /\ upload \in [Keys -> UploadRow \cup {None}]
    /\ put \in [Keys -> {"none", "sent", "landed", "lost"}]
    /\ object \subseteq Keys
    /\ drain \in [Drains -> DrainRow]
    /\ straggler \subseteq Keys
    /\ stray \subseteq Keys
    /\ overtaken \subseteq Keys
    /\ crashes \in 0..MaxCrashes

\* A picture that a profile shows is in the store, and no DELETE of it is under
\* way or will be: however late a PUT is answered, a lease ends or a drain wakes.
ShownPictureStays ==
    \A k \in Keys : Referenced(k) =>
        /\ k \in object \ straggler
        /\ row[k] = None
        /\ \A d \in Drains : drain[d].key # k

CleanedUp(k) ==
    \/ \E u \in Users : picture[u] = k
    \/ row[k] # None
    \/ Putting(k)

\* An object that no profile names any more is on its way out: the cleanup table
\* has its key, or its upload is still to queue it.  Left out are PUTs that were
\* answered, or landed, when their drain or nobody waited for them any more.
NothingLeaks == \A k \in object \ (stray \cup overtaken) : CleanedUp(k)

\* An object the cleanup table lists goes, or becomes a picture that is shown,
\* whichever drains, uploads and crashes overlap.
QueuedPictureGoes ==
    \A k \in Keys :
        (row[k] # None /\ k \in object) ~> (k \notin object \/ Referenced(k) \/ k \in stray \cup overtaken)

-----------------------------------------------------------------------------
(* The abstract board: profiles are read without the rows of users who were *)
(* deleted, a key is spent when its upload is over and nobody shows it.     *)

Live == {u \in Users : user[u] = "live"}
Display == [u \in Users |-> IF user[u] = "live" THEN picture[u] ELSE None]
Place == [k \in Keys |-> IF k \in object THEN "stored"
                         ELSE IF put[k] = "landed" THEN "gone" ELSE "outside"]
Finished(k) == upload[k] # None /\ upload[k].phase = "over"
Spent == {k \in Keys : Finished(k) /\ ~Referenced(k)}

Board == INSTANCE PictureBoard WITH
            People <- Users, Pictures <- Keys, Blank <- None,
            present <- Live, shown <- Display, place <- Place, spent <- Spent

\* A picture is shown by one profile and once; it leaves the store when no
\* profile shows it, and neither it nor a deleted user's picture comes back.
ImplementsPictureBoard == Board!BoardSpec

=============================================================================
