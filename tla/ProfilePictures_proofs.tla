----------------------- MODULE ProfilePictures_proofs -----------------------
(***************************************************************************)
(* Proofs about ProfilePictures for every set of users, keys and drains    *)
(* and any number of crashes.  Two invariants make the safety properties   *)
(* inductive.  Separated says which traces of a key exclude each other: a  *)
(* key nobody reserved yet has none, a published key has no row and no     *)
(* DELETE, and no DELETE is out for a key that is still being uploaded.    *)
(* Accounted adds to NothingLeaks that a drain that is about to drop a row *)
(* knows its object to be deleted, or leaves somebody to queue it again.   *)
(***************************************************************************)
EXTENDS ProfilePictures, TLAPS

\* A DELETE of the key is under way, or its answer is still to be processed.
Touched(k) == k \in straggler \/ \E d \in Drains : drain[d].key = k

Unreserved(k) == upload[k] = None \/ upload[k].phase = "downloading"
Uploading(k) == row[k] # None /\ row[k].state = "uploading"

Owned ==
    \A u \in Users, k \in Keys : picture[u] = k =>
        upload[k] # None /\ upload[k].user = u /\ upload[k].phase = "over"

Separate(k) ==
    /\ Unreserved(k) => row[k] = None /\ ~Touched(k)
    /\ Referenced(k) => row[k] = None /\ ~Touched(k) /\ k \in object
    /\ Uploading(k) => ~Touched(k) /\ (put[k] = "landed" => k \in object)

Separated == Owned /\ \A k \in Keys : Separate(k)

Excepted(k) == k \in stray \cup overtaken   \* the exceptions of NothingLeaks

Accounted(k) ==
    /\ k \in object => Excepted(k) \/ CleanedUp(k)
    /\ \A d \in Drains :
          drain[d].key = k /\ drain[d].landed /\ Held(k, "deleting", d) =>
              k \notin object \/ Excepted(k) \/ Putting(k)

RowsTyped(rows) ==
    /\ rows \in [Keys -> CleanupRow \cup {None}]
    /\ \A k \in Keys : rows[k] # None => (rows[k].lease = None <=> rows[k].state = "pending-delete")

-----------------------------------------------------------------------------
(* What the table's operations write.                                      *)

LEMMA PendingRow ==
    Pending \in CleanupRow /\ Pending.lease = None /\ Pending.state = "pending-delete"
BY DEF Pending, CleanupRow

LEMMA LeasedRow ==
    ASSUME NEW state \in {"uploading", "deleting"}, NEW holder \in Drains \cup {Uploader}
    PROVE  /\ Leased(state, holder) \in CleanupRow
           /\ Leased(state, holder).state = state
           /\ Leased(state, holder).lease = holder /\ holder # None
BY ProfilePicturesAssumption DEF Leased, CleanupRow

\* Enqueuing a key leaves its row, if it has one, and all other rows alone.
LEMMA EnqueuedRows ==
    ASSUME NEW rows, RowsTyped(rows), NEW k \in Keys \cup {None}
    PROVE  /\ RowsTyped(Enqueued(rows, k))
           /\ \A q \in Keys :
                \/ Enqueued(rows, k)[q] = rows[q] /\ (q = k => rows[q] # None)
                \/ q = k /\ rows[q] = None /\ Enqueued(rows, k)[q] = Pending
<1>1. None \notin Keys /\ None \notin CleanupRow
  BY ProfilePicturesAssumption, NoneRowAssumption
<1>2. CASE k = None \/ rows[k] # None
  BY <1>1, <1>2 DEF Enqueued
<1>3. CASE k \in Keys /\ rows[k] = None
  <2>1. Enqueued(rows, k) = [rows EXCEPT ![k] = Pending]
    BY <1>1, <1>3 DEF Enqueued
  <2>2. QED
    BY <1>1, <1>3, <2>1, PendingRow DEF RowsTyped
<1>4. QED
  BY <1>2, <1>3

\* A released key has a row: its own, given back, or another actor's.
LEMMA ReleasedRows ==
    ASSUME RowsTyped(row), NEW k \in Keys
    PROVE  /\ RowsTyped(Released(k))
           /\ \A q \in Keys \ {k} : Released(k)[q] = row[q]
           /\ Released(k)[k] # None
           /\ IF Held(k, "uploading", Uploader) \/ row[k] = None
              THEN Released(k)[k] = Pending ELSE Released(k)[k] = row[k]
<1>1. None \notin CleanupRow
  BY NoneRowAssumption
<1>2. CASE Held(k, "uploading", Uploader)
  <2>1. Released(k) = [row EXCEPT ![k] = Pending]
    BY <1>2 DEF Released
  <2>2. QED
    BY <1>1, <1>2, <2>1, PendingRow DEF RowsTyped
<1>3. CASE ~Held(k, "uploading", Uploader)
  <2>1. Released(k) = Enqueued(row, k)
    BY <1>3 DEF Released
  <2>2. QED
    BY <1>1, <1>3, <2>1, EnqueuedRows, PendingRow
<1>4. QED
  BY <1>2, <1>3

\* Both requests that make a key's upload over leave its row typed.
LEMMA UploadOverTyped ==
    ASSUME TypeOK, NEW k \in Keys, upload[k] # None, UploadOver(k)
    PROVE  /\ upload' \in [Keys -> UploadRow \cup {None}]
           /\ \A q \in Keys \ {k} : upload'[q] = upload[q]
           /\ upload'[k] # None /\ upload'[k].user = upload[k].user
           /\ upload'[k].phase = "over"
<1>1. upload[k] \in UploadRow /\ None \notin UploadRow
  BY NoneRowAssumption DEF TypeOK
<1>2. [upload[k] EXCEPT !.phase = "over"] \in UploadRow
  BY <1>1 DEF UploadRow
<1>3. QED
  BY <1>1, <1>2 DEF UploadOver, TypeOK, UploadRow

LEMMA IdleTyped == Idle \in DrainRow /\ Idle.key = None
BY DEF Idle, DrainRow

-----------------------------------------------------------------------------

\* Every step leaves the rows typed.
LEMMA TypeOKStep == TypeOK /\ [Next]_vars => TypeOK'
<1> SUFFICES ASSUME TypeOK, [Next]_vars
             PROVE  TypeOK'
  OBVIOUS
<1> USE PendingRow, IdleTyped
<1>1. /\ RowsTyped(row)
      /\ RowsTyped(row') =>
            /\ row' \in [Keys -> CleanupRow \cup {None}]
            /\ \A k \in Keys :
                  row'[k] # None => (row'[k].lease = None <=> row'[k].state = "pending-delete")
  BY DEF TypeOK, RowsTyped
<1>2. /\ None \notin CleanupRow /\ None \notin UploadRow /\ None \notin Keys
      /\ None \notin Drains /\ Uploader # None /\ MaxCrashes \in Nat
  BY ProfilePicturesAssumption, NoneRowAssumption
<1>3. ASSUME NEW k \in Keys, NEW u \in Users, ImportStart(k, u)
      PROVE  TypeOK'
  BY <1>3 DEF ImportStart, TypeOK, UploadRow, store, history
<1>4. ASSUME NEW k \in Keys, NEW u \in Users, UploadReserve(k, u)
      PROVE  TypeOK'
  <2>1. RowsTyped(row')
    BY <1>1, <1>2, <1>4, LeasedRow DEF UploadReserve, RowsTyped
  <2>2. upload' \in [Keys -> UploadRow \cup {None}]
    BY <1>4 DEF UploadReserve, TypeOK, UploadRow
  <2>3. QED
    BY <1>1, <1>4, <2>1, <2>2 DEF UploadReserve, TypeOK, history
<1>5. ASSUME NEW k \in Keys, ImportReserve(k)
      PROVE  TypeOK'
  <2>1. RowsTyped(row')
    BY <1>1, <1>2, <1>5, LeasedRow DEF ImportReserve, RowsTyped
  <2>2. upload' \in [Keys -> UploadRow \cup {None}]
    <3>1. [upload[k] EXCEPT !.phase = "putting"] \in UploadRow
      BY <1>5 DEF ImportReserve, TypeOK, UploadRow
    <3>2. QED
      BY <1>5, <3>1 DEF ImportReserve, TypeOK
  <2>3. QED
    BY <1>1, <1>5, <2>1, <2>2 DEF ImportReserve, TypeOK, history
<1>6. ASSUME NEW k \in Keys, UploadFail(k)
      PROVE  TypeOK'
  <2>1. RowsTyped(row') /\ upload' \in [Keys -> UploadRow \cup {None}]
    BY <1>1, <1>6, ReleasedRows, UploadOverTyped DEF UploadFail, Putting
  <2>2. QED
    BY <1>1, <1>6, <2>1 DEF UploadFail, TypeOK, store
<1>7. ASSUME NEW k \in Keys, UploadFinish(k)
      PROVE  TypeOK'
  <2> DEFINE u == upload[k].user
  <2>1. u \in Users /\ picture[u] \in Keys \cup {None}
    BY <1>7 DEF UploadFinish, Putting, TypeOK, UploadRow
  <2>2. upload' \in [Keys -> UploadRow \cup {None}]
    BY <1>7, UploadOverTyped DEF UploadFinish, Putting
  <2>3. RowsTyped(row') /\ picture' \in [Users -> Keys \cup {None}]
    <3>1. CASE Publishable(k)
      <4>1. RowsTyped(Enqueued(row, picture[u]))
        BY <1>1, <2>1, EnqueuedRows
      <4>2. row' = [Enqueued(row, picture[u]) EXCEPT ![k] = None]
            /\ picture' = [picture EXCEPT ![u] = k]
        BY <1>7, <3>1 DEF UploadFinish
      <4> HIDE DEF u
      <4>3. QED
        BY <2>1, <4>1, <4>2 DEF RowsTyped, TypeOK
    <3>2. CASE ~Publishable(k)
      BY <1>1, <1>7, <3>2, ReleasedRows DEF UploadFinish, TypeOK
    <3>3. QED
      BY <3>1, <3>2
  <2>4. QED
    BY <1>1, <1>7, <2>2, <2>3 DEF UploadFinish, TypeOK, store
<1>8. ASSUME NEW u \in Users,
             PictureRemove(u) \/ UserPurge(u) \/ \E origin \in BOOLEAN : UserDelete(u, origin)
      PROVE  TypeOK'
  <2>1. RowsTyped(Enqueued(row, picture[u]))
    BY <1>1, EnqueuedRows DEF TypeOK
  <2>2. RowsTyped(row')
    BY <1>1, <1>8, <2>1 DEF PictureRemove, UserPurge, UserDelete
  <2>3. QED
    BY <1>1, <1>8, <2>2 DEF PictureRemove, UserPurge, UserDelete, TypeOK, store, history
<1>9. ASSUME NEW d \in Drains, DrainStart(d)
      PROVE  TypeOK'
  <2>1. [Idle EXCEPT !.running = TRUE, !.todo = ListedRows] \in DrainRow
    BY DEF Idle, DrainRow, ListedRows
  <2>2. QED
    BY <1>9, <2>1 DEF DrainStart, TypeOK, store, history
<1>10. ASSUME NEW d \in Drains, NEW k \in Keys, DrainClaim(d, k)
       PROVE  TypeOK'
  <2>1. RowsTyped(row')
    BY <1>1, <1>2, <1>10, LeasedRow DEF DrainClaim, RowsTyped
  <2>2. drain' \in [Drains -> DrainRow]
    <3>1. \A key \in Keys \cup {None} :
            [drain[d] EXCEPT !.todo = @ \ {k}, !.key = key, !.landed = FALSE] \in DrainRow
      BY DEF TypeOK, DrainRow
    <3>2. PICK key \in Keys \cup {None} :
            drain' = [drain EXCEPT ![d] =
                        [drain[d] EXCEPT !.todo = @ \ {k}, !.key = key, !.landed = FALSE]]
      BY <1>10 DEF DrainClaim, TypeOK
    <3>3. QED
      BY <3>1, <3>2 DEF TypeOK
  <2>3. QED
    BY <1>1, <1>10, <2>1, <2>2 DEF DrainClaim, TypeOK, store, history
<1>11. ASSUME NEW d \in Drains, DrainEnd(d)
       PROVE  TypeOK'
  BY <1>11 DEF DrainEnd, TypeOK, store, history
<1>12. ASSUME NEW d \in Drains, DrainDeleted(d) \/ DrainDeleteFailed(d) \/ DeleteLand(d)
       PROVE  TypeOK'
  <2>1. drain[d] \in DrainRow /\ drain[d].key \in Keys
    BY <1>12 DEF DrainDeleted, DrainDeleteFailed, DeleteLand, TypeOK, DrainRow
  <2>2. RowsTyped(row')
    BY <1>1, <1>12, <2>1 DEF DrainDeleted, DrainDeleteFailed, DeleteLand, RowsTyped
  <2>3. /\ [drain[d] EXCEPT !.key = None, !.landed = FALSE] \in DrainRow
        /\ [drain[d] EXCEPT !.landed = TRUE] \in DrainRow
    BY <2>1 DEF DrainRow
  <2>4. drain' \in [Drains -> DrainRow]
    BY <1>12, <2>3 DEF DrainDeleted, DrainDeleteFailed, DeleteLand, TypeOK
  <2>5. QED
    BY <1>1, <1>12, <2>1, <2>2, <2>4
       DEF DrainDeleted, DrainDeleteFailed, DeleteLand, TypeOK, store, history
<1>13. ASSUME NEW k \in Keys, PutLand(k) \/ PutLose(k) \/ StragglerLand(k)
       PROVE  TypeOK'
  BY <1>13 DEF PutLand, PutLose, StragglerLand, TypeOK, history
<1>14. ASSUME NEW k \in Keys, LeaseOver(k)
       PROVE  TypeOK'
  <2>1. [row[k] EXCEPT !.over = TRUE] \in CleanupRow
        /\ [row[k] EXCEPT !.over = TRUE].lease = row[k].lease
        /\ [row[k] EXCEPT !.over = TRUE].state = row[k].state
    BY <1>1, <1>14 DEF LeaseOver, RowsTyped, CleanupRow
  <2>2. RowsTyped(row')
    BY <1>1, <1>2, <1>14, <2>1 DEF LeaseOver, RowsTyped
  <2>3. QED
    BY <1>1, <1>14, <2>2 DEF LeaseOver, TypeOK, store, history
<1>15. ASSUME Crash
       PROVE  TypeOK'
  <2>1. \A k \in Keys : upload[k] # None => [upload[k] EXCEPT !.phase = "over"] \in UploadRow
    BY DEF TypeOK, UploadRow
  <2>2. upload' \in [Keys -> UploadRow \cup {None}]
    BY <1>15, <2>1 DEF Crash
  <2>3. crashes' \in 0..MaxCrashes
    BY <1>2, <1>15 DEF Crash, TypeOK
  <2>4. QED
    BY <1>15, <2>2, <2>3 DEF Crash, TypeOK
<1>16. CASE UNCHANGED vars
  BY <1>16 DEF vars, TypeOK
<1>17. QED
  BY <1>3, <1>4, <1>5, <1>6, <1>7, <1>8, <1>9, <1>10, <1>11, <1>12, <1>13, <1>14, <1>15, <1>16
     DEF Next, UploadNext, DrainNext

\* The tables, the requests and the drains keep their types whatever overlaps.
THEOREM TypeCorrectness == Spec => []TypeOK
<1>1. Init => TypeOK
  BY ProfilePicturesAssumption, IdleTyped DEF Init, TypeOK
<1>2. QED
  BY <1>1, TypeOKStep, PTL DEF Spec

-----------------------------------------------------------------------------
(* The traces of a key exclude each other.                                 *)

\* A picture that a user lost is shown by nobody.
LEMMA LostPictureUnreferenced ==
    ASSUME TypeOK, Owned, NEW u \in Users, NEW k \in Keys, picture[u] = k,
           \A v \in Users \ {u} : picture'[v] = picture[v],
           picture'[u] # k \/ user'[u] # "live"
    PROVE  ~Referenced(k)'
BY DEF Owned, Referenced

LEMMA SeparatedInit == Init => Separated
BY ProfilePicturesAssumption
   DEF Init, Separated, Owned, Separate, Unreserved, Referenced, Uploading, Touched, Idle

LEMMA SeparatedStep == TypeOK /\ Separated /\ [Next]_vars => Separated'
<1> SUFFICES ASSUME TypeOK, Separated, [Next]_vars
             PROVE  Separated'
  OBVIOUS
<1>1. RowsTyped(row) /\ Owned /\ (\A k \in Keys : Separate(k))
  BY DEF TypeOK, RowsTyped, Separated
<1>2. None \notin CleanupRow /\ None \notin UploadRow /\ None \notin Keys
  BY ProfilePicturesAssumption, NoneRowAssumption
<1>3. ASSUME NEW k \in Keys, NEW u \in Users, ImportStart(k, u)
      PROVE  Separated'
  BY <1>1, <1>2, <1>3
     DEF ImportStart, Separated, Owned, Separate, Unreserved, Referenced, Uploading, Touched,
         TypeOK, store
<1>4. ASSUME NEW k \in Keys, ImportReserve(k) \/ \E u \in Users : UploadReserve(k, u)
      PROVE  Separated'
  <2>1. /\ Unreserved(k) /\ UNCHANGED <<user, picture, object, straggler, drain>>
        /\ row' = [row EXCEPT ![k] = Leased("uploading", Uploader)]
        /\ put' = [put EXCEPT ![k] = "sent"]
        /\ \A q \in Keys \ {k} : upload'[q] = upload[q]
        /\ upload'[k] # None /\ upload'[k].phase = "putting"
    <3>1. CASE ImportReserve(k)
      <4>1. upload[k] \in UploadRow /\ upload' = [upload EXCEPT ![k].phase = "putting"]
        BY <3>1 DEF ImportReserve, TypeOK
      <4>2. upload'[k] \in UploadRow /\ upload'[k].phase = "putting"
        BY <4>1 DEF TypeOK, UploadRow
      <4>3. QED
        BY <1>2, <3>1, <4>1, <4>2 DEF ImportReserve, Unreserved, TypeOK
    <3>2. CASE \E u \in Users : UploadReserve(k, u)
      <4>1. PICK u \in Users : UploadReserve(k, u)
        BY <3>2
      <4>2. upload'[k] \in UploadRow /\ upload'[k].phase = "putting"
        BY <4>1 DEF UploadReserve, TypeOK, UploadRow
      <4>3. QED
        BY <1>2, <4>1, <4>2 DEF UploadReserve, Unreserved, TypeOK
    <3>3. QED
      BY <1>4, <3>1, <3>2
  <2>2. \A u \in Users : picture[u] # k
    BY <1>1, <2>1 DEF Owned, Unreserved
  <2>3. Owned'
    BY <1>1, <2>1, <2>2 DEF Owned
  <2>4. ASSUME NEW q \in Keys \ {k}
        PROVE  Separate(q)'
    BY <1>1, <2>1 DEF Separate, Unreserved, Referenced, Uploading, Touched, TypeOK
  <2>5. Separate(k)'
    BY <1>1, <1>2, <2>1, <2>2, LeasedRow
       DEF Separate, Unreserved, Referenced, Uploading, Touched, TypeOK
  <2>6. QED
    BY <2>3, <2>4, <2>5 DEF Separated
<1>5. ASSUME NEW k \in Keys, UploadFail(k) \/ (UploadFinish(k) /\ ~Publishable(k))
      PROVE  Separated'
  <2>1. /\ upload[k] # None /\ upload[k].phase = "putting" /\ row' = Released(k)
        /\ UploadOver(k) /\ UNCHANGED <<user, picture, put, object, straggler, drain>>
    BY <1>5 DEF UploadFail, UploadFinish, Putting, store
  <2>2. /\ \A q \in Keys \ {k} : upload'[q] = upload[q] /\ row'[q] = row[q]
        /\ upload'[k] # None /\ upload'[k].phase = "over" /\ upload'[k].user = upload[k].user
        /\ row'[k] \in {row[k], Pending}
    BY <1>1, <2>1, ReleasedRows, UploadOverTyped
  <2>3. \A u \in Users : picture[u] # k
    BY <1>1, <2>1 DEF Owned
  <2>4. Owned'
    BY <1>1, <2>1, <2>2 DEF Owned
  <2>5. ASSUME NEW q \in Keys \ {k}
        PROVE  Separate(q)'
    BY <1>1, <2>1, <2>2 DEF Separate, Unreserved, Referenced, Uploading, Touched
  <2>6. Separate(k)'
    BY <1>1, <2>1, <2>2, <2>3, PendingRow DEF Separate, Unreserved, Referenced, Uploading, Touched
  <2>7. QED
    BY <2>4, <2>5, <2>6 DEF Separated
<1>6. ASSUME NEW k \in Keys, UploadFinish(k), Publishable(k)
      PROVE  Separated'
  <2> DEFINE u == upload[k].user
             old == picture[u]
  <2>1. /\ u \in Users /\ old \in Keys \cup {None}
        /\ upload[k] # None /\ upload[k].phase = "putting" /\ put[k] = "landed"
        /\ picture' = [picture EXCEPT ![u] = k]
        /\ row' = [Enqueued(row, old) EXCEPT ![k] = None]
        /\ UploadOver(k) /\ UNCHANGED <<user, put, object, straggler, drain>>
    BY <1>6 DEF UploadFinish, Putting, TypeOK, UploadRow, store
  <2>2. Uploading(k) /\ ~Touched(k) /\ k \in object
    BY <1>1, <1>6, <2>1 DEF Publishable, Held, Uploading, Separate
  <2>3. /\ \A q \in Keys \ {k} : upload'[q] = upload[q]
        /\ upload'[k] # None /\ upload'[k].phase = "over" /\ upload'[k].user = u
    BY <2>1, UploadOverTyped
  <2>4. old # k /\ \A v \in Users : picture[v] # k
    BY <1>1, <2>1 DEF Owned
  <2>5. \A q \in Keys \ {k} : row'[q] = row[q] \/ (q = old /\ row'[q] = Pending)
    BY <1>1, <2>1, EnqueuedRows DEF RowsTyped
  <2>6. row'[k] = None
    BY <1>1, <2>1, EnqueuedRows DEF RowsTyped
  <2> HIDE DEF u, old
  <2>7. Owned'
    BY <1>1, <2>1, <2>3 DEF Owned, TypeOK
  <2>8. Separate(k)'
    BY <2>1, <2>2, <2>3, <2>6 DEF Separate, Unreserved, Referenced, Uploading, Touched
  <2>9. ASSUME NEW q \in Keys \ {k}
        PROVE  Separate(q)'
    <3>1. Referenced(q)' => Referenced(q)
      BY <2>1 DEF Referenced, TypeOK
    <3>2. CASE row'[q] = row[q]
      BY <1>1, <2>1, <2>3, <3>1, <3>2 DEF Separate, Unreserved, Uploading, Touched
    <3>3. CASE q = old /\ row'[q] = Pending
      <4>1. picture[u] = q
        BY <3>3 DEF old
      <4>2. \A v \in Users \ {u} : picture'[v] = picture[v]
        BY <2>1 DEF TypeOK
      <4>3. picture'[u] # q
        BY <2>1 DEF TypeOK
      <4>4. ~Referenced(q)'
        BY <1>1, <2>1, <4>1, <4>2, <4>3, LostPictureUnreferenced
      <4>5. ~Unreserved(q)'
        BY <1>1, <2>1, <2>3, <4>1 DEF Owned, Unreserved
      <4>6. QED
        BY <3>3, <4>4, <4>5, PendingRow DEF Separate, Uploading
    <3>4. QED
      BY <2>5, <3>2, <3>3
  <2>10. QED
    BY <2>7, <2>8, <2>9 DEF Separated
<1>7. ASSUME NEW u \in Users,
             PictureRemove(u) \/ UserPurge(u) \/ \E origin \in BOOLEAN : UserDelete(u, origin)
      PROVE  Separated'
  <2> DEFINE k == picture[u]
  <2>1. /\ k \in Keys \cup {None}
        /\ row' \in {row, Enqueued(row, k)}
        /\ UNCHANGED <<upload, put, object, straggler, drain>>
        /\ \A v \in Users \ {u} : picture'[v] = picture[v] /\ user'[v] = user[v]
        /\ picture'[u] \in {picture[u], None}
        /\ user'[u] # "live" \/ picture'[u] = None
    BY <1>7 DEF PictureRemove, UserPurge, UserDelete, TypeOK, store
  <2>2. \A q \in Keys : row'[q] = row[q] \/ (q = k /\ row'[q] = Pending)
    BY <1>1, <2>1, EnqueuedRows
  <2>3. Owned'
    BY <1>1, <1>2, <2>1 DEF Owned
  <2>4. ASSUME NEW q \in Keys
        PROVE  Separate(q)'
    <3>1. Referenced(q)' => Referenced(q) /\ q # k
      <4>1. CASE q = k
        BY <1>1, <1>2, <2>1, <4>1, LostPictureUnreferenced
      <4>2. CASE q # k
        BY <1>2, <2>1, <4>2 DEF Referenced
      <4>3. QED
        BY <4>1, <4>2
    <3>2. CASE row'[q] = row[q]
      BY <1>1, <2>1, <3>1, <3>2 DEF Separate, Unreserved, Uploading, Touched
    <3>3. CASE q = k /\ row'[q] = Pending
      <4>1. ~Unreserved(q)'
        BY <1>1, <2>1, <3>3 DEF Owned, Unreserved
      <4>2. QED
        BY <3>1, <3>3, <4>1, PendingRow DEF Separate, Uploading
    <3>4. QED
      BY <2>2, <3>2, <3>3
  <2>5. QED
    BY <2>3, <2>4 DEF Separated
<1>8. ASSUME NEW d \in Drains, DrainStart(d) \/ DrainEnd(d) \/ DrainDeleted(d)
      PROVE  Separated'
  <2>1. /\ UNCHANGED <<user, picture, upload, put, object, straggler>>
        /\ \A e \in Drains : drain'[e].key \in {drain[e].key, None}
        /\ \A q \in Keys : row'[q] \in {row[q], None}
    <3>1. CASE DrainStart(d)
      BY <1>1, <3>1 DEF DrainStart, TypeOK, Idle, store
    <3>2. CASE DrainEnd(d)
      BY <1>1, <3>2 DEF DrainEnd, TypeOK, Idle, store
    <3>3. CASE DrainDeleted(d)
      <4>1. drain' = [drain EXCEPT ![d] = drain'[d]] /\ drain'[d].key = None
        BY <3>3, IdleTyped DEF DrainDeleted, TypeOK, DrainRow
      <4>2. \A q \in Keys : row'[q] \in {row[q], None}
        BY <1>1, <3>3 DEF DrainDeleted, RowsTyped
      <4>3. QED
        BY <3>3, <4>1, <4>2 DEF DrainDeleted, TypeOK, store
    <3>4. QED
      BY <1>8, <3>1, <3>2, <3>3
  <2>2. ASSUME NEW q \in Keys
        PROVE  Separate(q)'
    <3>1. Touched(q)' => Touched(q)
      BY <1>2, <2>1 DEF Touched
    <3>2. QED
      BY <1>1, <2>1, <3>1 DEF Separate, Unreserved, Referenced, Uploading
  <2>3. QED
    BY <1>1, <2>1, <2>2 DEF Separated, Owned
<1>9. ASSUME NEW d \in Drains, NEW k \in Keys, DrainClaim(d, k)
      PROVE  Separated'
  <2> DEFINE claimed == Claimable(k) /\ ~Referenced(k)
  <2>1. /\ UNCHANGED <<user, picture, upload, put, object, straggler>>
        /\ \A q \in Keys \ {k} : row'[q] = row[q]
        /\ claimed => row'[k] = Leased("deleting", d)
        /\ ~claimed => row'[k] \in {row[k], None}
        /\ \A e \in Drains \ {d} : drain'[e] = drain[e]
        /\ drain'[d].key = IF claimed THEN k ELSE None
    BY <1>1, <1>9 DEF DrainClaim, RowsTyped, TypeOK, DrainRow, store
  <2>2. ASSUME NEW q \in Keys
        PROVE  Touched(q)' => Touched(q) \/ (claimed /\ q = k)
    BY <1>2, <2>1 DEF Touched
  <2>3. ASSUME NEW q \in Keys \ {k}
        PROVE  Separate(q)'
    BY <1>1, <2>1, <2>2 DEF Separate, Unreserved, Referenced, Uploading
  <2>4. CASE claimed
    <3>1. ~Unreserved(k)
      BY <1>1, <2>4 DEF Separate, Claimable
    <3>2. QED
      BY <1>1, <2>1, <2>3, <2>4, <3>1, LeasedRow
         DEF Separated, Owned, Separate, Unreserved, Referenced, Uploading
  <2>5. CASE ~claimed
    BY <1>1, <2>1, <2>2, <2>3, <2>5
       DEF Separated, Owned, Separate, Unreserved, Referenced, Uploading
  <2>6. QED
    BY <2>4, <2>5
<1>10. ASSUME NEW d \in Drains, DrainDeleteFailed(d) \/ DeleteLand(d)
       PROVE  Separated'
  <2>0. PICK k \in Keys : k = drain[d].key
    BY <1>10 DEF DrainDeleteFailed, DeleteLand, TypeOK, DrainRow
  <2>1. /\ Touched(k)
        /\ UNCHANGED <<user, picture, upload, put>>
        /\ object' \in {object, object \ {k}}
        /\ straggler' \in {straggler, straggler \cup {k}}
        /\ \A e \in Drains : drain'[e].key \in {drain[e].key, None}
        /\ \A q \in Keys \ {k} : row'[q] = row[q]
        /\ row'[k] \in {row[k], Pending} /\ (row[k] = None => row'[k] = None)
    <3>1. /\ Touched(k)
          /\ UNCHANGED <<user, picture, upload, put>>
          /\ object' \in {object, object \ {k}}
          /\ straggler' \in {straggler, straggler \cup {k}}
      BY <1>10, <2>0 DEF DrainDeleteFailed, DeleteLand, Touched
    <3>2. \A e \in Drains : drain'[e].key \in {drain[e].key, None}
      <4>1. /\ drain \in [Drains -> DrainRow]
            /\ drain' = [drain EXCEPT ![d] = drain'[d]]
            /\ drain'[d].key \in {drain[d].key, None}
        <5>1. CASE DrainDeleteFailed(d)
          BY <5>1 DEF DrainDeleteFailed, TypeOK, DrainRow
        <5>2. CASE DeleteLand(d)
          BY <5>2 DEF DeleteLand, TypeOK, DrainRow
        <5>3. QED
          BY <1>10, <5>1, <5>2
      <4>2. QED
        BY <4>1
    <3>3. row' \in {row, [row EXCEPT ![k] = Pending]} /\ (row[k] = None => row' = row)
      BY <1>2, <1>10, <2>0 DEF DrainDeleteFailed, DeleteLand, Held
    <3>4. QED
      BY <1>1, <3>1, <3>2, <3>3 DEF RowsTyped
  <2>2. ~Unreserved(k) /\ ~Referenced(k) /\ ~Uploading(k)
    BY <1>1, <2>1 DEF Separate
  <2>3. ASSUME NEW q \in Keys
        PROVE  Touched(q)' => Touched(q)
    BY <1>2, <2>1, <2>3 DEF Touched
  <2>4. ASSUME NEW q \in Keys \ {k}
        PROVE  Separate(q)'
    <3>1. q \in object' <=> q \in object
      BY <2>1
    <3>2. QED
      BY <1>1, <2>1, <2>3, <3>1 DEF Separate, Unreserved, Referenced, Uploading
  <2>5. Separate(k)'
    BY <2>1, <2>2, PendingRow DEF Separate, Unreserved, Referenced, Uploading
  <2>6. QED
    BY <1>1, <2>1, <2>4, <2>5 DEF Separated, Owned
<1>11. ASSUME NEW k \in Keys, PutLand(k) \/ PutLose(k)
       PROVE  Separated'
  BY <1>1, <1>11
     DEF PutLand, PutLose, Separated, Owned, Separate, Unreserved, Referenced, Uploading, Touched,
         TypeOK
<1>12. ASSUME NEW k \in Keys, StragglerLand(k)
       PROVE  Separated'
  <2>1. Touched(k)
    BY <1>12 DEF StragglerLand, Touched
  <2>2. QED
    BY <1>1, <1>12, <2>1
       DEF StragglerLand, Separated, Owned, Separate, Unreserved, Referenced, Uploading, Touched
<1>13. ASSUME NEW k \in Keys, LeaseOver(k)
       PROVE  Separated'
  <2>1. /\ \A q \in Keys \ {k} : row'[q] = row[q]
        /\ row[k] # None /\ row'[k].state = row[k].state
        /\ UNCHANGED <<user, picture, upload, put, object, straggler, drain>>
    BY <1>1, <1>13 DEF LeaseOver, RowsTyped, CleanupRow, store
  <2>2. QED
    BY <1>1, <2>1 DEF Separated, Owned, Separate, Unreserved, Referenced, Uploading, Touched
<1>14. ASSUME Crash
       PROVE  Separated'
  <2>1. /\ UNCHANGED <<user, picture, row, put, object>>
        /\ \A q \in Keys : /\ upload[q] = None => upload'[q] = None
                           /\ upload[q] # None => /\ upload'[q] # None
                                                  /\ upload'[q].phase = "over"
                                                  /\ upload'[q].user = upload[q].user
    <3>1. \A q \in Keys : upload[q] # None =>
            /\ [upload[q] EXCEPT !.phase = "over"] \in UploadRow
            /\ [upload[q] EXCEPT !.phase = "over"].phase = "over"
            /\ [upload[q] EXCEPT !.phase = "over"].user = upload[q].user
      BY DEF TypeOK, UploadRow
    <3>2. QED
      BY <1>2, <1>14, <3>1 DEF Crash
  <2>2. \A q \in Keys : Touched(q)' => Touched(q)
    BY <1>2, <1>14, IdleTyped DEF Crash, Touched
  <2>3. QED
    BY <1>1, <2>1, <2>2 DEF Separated, Owned, Separate, Unreserved, Referenced, Uploading
<1>15. CASE UNCHANGED vars
  BY <1>1, <1>15
     DEF vars, Separated, Owned, Separate, Unreserved, Referenced, Uploading, Touched
<1>16. QED
  BY <1>3, <1>4, <1>5, <1>6, <1>7, <1>8, <1>9, <1>10, <1>11, <1>12, <1>13, <1>14, <1>15
     DEF Next, UploadNext, DrainNext

\* A picture that a profile shows is in the store, and no DELETE of it is under
\* way or will be, in whichever order leases end and answers arrive.
THEOREM ShownPicturesAreSafe == Spec => []ShownPictureStays
<1>1. Separated => ShownPictureStays
  BY DEF Separated, Separate, Touched, ShownPictureStays
<1>2. QED
  BY <1>1, SeparatedInit, SeparatedStep, TypeCorrectness, PTL DEF Spec

-----------------------------------------------------------------------------
(* No object is forgotten.                                                 *)

\* What leaves a key's account as it is: its row, its upload, the pictures that
\* name it and the drains that have its answer stay, and its object comes not.
LEMMA AccountKept ==
    ASSUME NEW k \in Keys, Accounted(k),
           Excepted(k) => Excepted(k)', k \in object' => k \in object,
           CleanedUp(k) => CleanedUp(k)', Putting(k) => Putting(k)',
           \A d \in Drains :
              drain'[d].key = k /\ drain'[d].landed /\ Held(k, "deleting", d)' =>
                 drain[d].key = k /\ drain[d].landed /\ Held(k, "deleting", d)
    PROVE  Accounted(k)'
BY DEF Accounted

\* The same, when an upload other than the key's changes rows and uploads.
LEMMA OtherUpload ==
    ASSUME NEW q \in Keys, Accounted(q),
           Excepted(q) => Excepted(q)', q \in object' => q \in object,
           upload'[q] = upload[q], row'[q] = row[q], drain' = drain, picture' = picture
    PROVE  Accounted(q)'
BY DEF Accounted, CleanedUp, Putting, Held

\* A drain that begins is at no row.
LEMMA BeginsIdle == \A rows : [Idle EXCEPT !.running = TRUE, !.todo = rows].key = None
BY DEF Idle

LEMMA AccountedInit == Init => \A k \in Keys : Accounted(k)
BY ProfilePicturesAssumption DEF Init, Accounted, Idle

LEMMA AccountedStep ==
    TypeOK /\ (\A k \in Keys : Accounted(k)) /\ [Next]_vars => (\A k \in Keys : Accounted(k)')
<1> SUFFICES ASSUME TypeOK, \A k \in Keys : Accounted(k), [Next]_vars, NEW q \in Keys
             PROVE  Accounted(q)'
  OBVIOUS
<1>1. RowsTyped(row) /\ Accounted(q)
  BY DEF TypeOK, RowsTyped
<1>2. /\ None \notin CleanupRow /\ None \notin UploadRow /\ None \notin Keys
      /\ None \notin Drains /\ Uploader \notin Drains
  BY ProfilePicturesAssumption, NoneRowAssumption
<1>3. ASSUME NEW k \in Keys, NEW u \in Users, ImportStart(k, u)
      PROVE  Accounted(q)'
  <2>1. Putting(q) => Putting(q)'
    BY <1>3 DEF ImportStart, Putting, TypeOK
  <2>2. QED
    BY <1>1, <1>3, <2>1, AccountKept DEF ImportStart, CleanedUp, Held, Excepted, store, history
<1>4. ASSUME NEW k \in Keys, ImportReserve(k) \/ \E u \in Users : UploadReserve(k, u)
      PROVE  Accounted(q)'
  <2>1. /\ row' = [row EXCEPT ![k] = Leased("uploading", Uploader)]
        /\ UNCHANGED <<picture, object, drain, stray, overtaken>>
        /\ \A p \in Keys \ {k} : upload'[p] = upload[p]
    BY <1>4 DEF ImportReserve, UploadReserve, TypeOK, history
  <2>2. CASE q = k
    <3>1. row'[q] # None /\ row'[q].state = "uploading"
      BY <1>1, <1>2, <2>1, <2>2, LeasedRow DEF RowsTyped
    <3>2. QED
      BY <3>1 DEF Accounted, CleanedUp, Held
  <2>3. CASE q # k
    BY <1>1, <2>1, <2>3, OtherUpload DEF Excepted, RowsTyped
  <2>4. QED
    BY <2>2, <2>3
<1>5. ASSUME NEW k \in Keys, UploadFail(k) \/ (UploadFinish(k) /\ ~Publishable(k))
      PROVE  Accounted(q)'
  <2>1. /\ upload[k] # None /\ row' = Released(k) /\ UploadOver(k)
        /\ UNCHANGED <<picture, object, drain>>
        /\ stray \subseteq stray' /\ overtaken \subseteq overtaken'
        /\ BeingDeleted(k) => k \in stray' \cup overtaken'
    BY <1>5 DEF UploadFail, UploadFinish, Putting, store
  <2>2. /\ \A p \in Keys \ {k} : upload'[p] = upload[p] /\ row'[p] = row[p]
        /\ row'[k] # None /\ row'[k] \in {row[k], Pending}
    BY <1>1, <2>1, ReleasedRows, UploadOverTyped
  <2>3. CASE q = k
    <3>1. ASSUME NEW d \in Drains, Held(q, "deleting", d)'
          PROVE  BeingDeleted(q)
      BY <2>2, <2>3, <3>1, PendingRow DEF Held, BeingDeleted
    <3>2. QED
      BY <2>1, <2>2, <2>3, <3>1 DEF Accounted, CleanedUp, Excepted
  <2>4. CASE q # k
    BY <1>1, <2>1, <2>2, <2>4, OtherUpload DEF Excepted
  <2>5. QED
    BY <2>3, <2>4
<1>6. ASSUME NEW k \in Keys, UploadFinish(k), Publishable(k)
      PROVE  Accounted(q)'
  <2> DEFINE u == upload[k].user
             old == picture[u]
  <2>1. /\ u \in Users /\ old \in Keys \cup {None} /\ upload[k] # None
        /\ picture' = [picture EXCEPT ![u] = k]
        /\ row' = [Enqueued(row, old) EXCEPT ![k] = None]
        /\ UploadOver(k) /\ UNCHANGED <<object, drain, stray>>
        /\ overtaken \subseteq overtaken'
    BY <1>6 DEF UploadFinish, Putting, TypeOK, UploadRow, store
  <2>2. \A p \in Keys \ {k} : upload'[p] = upload[p]
    BY <2>1, UploadOverTyped
  <2>3. /\ row'[k] = None
        /\ \A p \in Keys \ {k} :
              \/ row'[p] = row[p] /\ (p = old => row[p] # None)
              \/ p = old /\ row[p] = None /\ row'[p] = Pending
    BY <1>1, <2>1, EnqueuedRows DEF RowsTyped
  <2> HIDE DEF u, old
  <2>4. CASE q = k
    <3>1. picture'[u] = q
      BY <2>1, <2>4 DEF TypeOK
    <3>2. QED
      BY <2>1, <2>3, <2>4, <3>1 DEF Accounted, CleanedUp, Held
  <2>5. CASE q # k
    <3>1. CleanedUp(q) => CleanedUp(q)'
      <4>1. CASE q = old
        BY <1>2, <2>3, <2>5, <4>1, PendingRow DEF CleanedUp
      <4>2. CASE q # old
        BY <2>1, <2>2, <2>3, <2>5, <4>2 DEF CleanedUp, Putting, old, TypeOK
      <4>3. QED
        BY <4>1, <4>2
    <3>2. \A d \in Drains : Held(q, "deleting", d)' => Held(q, "deleting", d)
      BY <2>3, <2>5, PendingRow DEF Held
    <3>3. QED
      BY <1>1, <2>1, <2>2, <2>5, <3>1, <3>2, AccountKept DEF Excepted, Putting
  <2>6. QED
    BY <2>4, <2>5
<1>7. ASSUME NEW u \in Users,
             PictureRemove(u) \/ UserPurge(u) \/ \E origin \in BOOLEAN : UserDelete(u, origin)
      PROVE  Accounted(q)'
  <2> DEFINE k == picture[u]
  <2>1. /\ k \in Keys \cup {None}
        /\ UNCHANGED <<upload, object, drain, stray, overtaken>>
        /\ \A v \in Users \ {u} : picture'[v] = picture[v]
        /\ \/ row' \in {row, Enqueued(row, k)} /\ picture' = picture
           \/ row' = Enqueued(row, k)
    BY <1>7 DEF PictureRemove, UserPurge, UserDelete, TypeOK, store, history
  <2>2. \/ row'[q] = row[q] /\ (q = k => row[q] # None \/ picture' = picture)
        \/ q = k /\ row'[q] = Pending
    BY <1>1, <2>1, EnqueuedRows
  <2>3. CleanedUp(q) => CleanedUp(q)'
    BY <1>2, <2>1, <2>2, PendingRow DEF CleanedUp, Putting
  <2>4. \A d \in Drains : Held(q, "deleting", d)' => Held(q, "deleting", d)
    BY <2>2, PendingRow DEF Held
  <2>5. QED
    BY <1>1, <2>1, <2>3, <2>4, AccountKept DEF Excepted, Putting
<1>8. ASSUME NEW d \in Drains, DrainStart(d) \/ DrainEnd(d)
      PROVE  Accounted(q)'
  <2>1. /\ UNCHANGED <<row, picture, upload, object, stray, overtaken>>
        /\ \A e \in Drains \ {d} : drain'[e] = drain[e]
        /\ drain'[d].key = None
    <3>1. drain' = [drain EXCEPT ![d] = drain'[d]] /\ drain'[d].key = None
      <4>1. CASE DrainStart(d)
        BY <4>1, BeginsIdle DEF DrainStart, TypeOK
      <4>2. CASE DrainEnd(d)
        BY <4>2, IdleTyped DEF DrainEnd, TypeOK
      <4>3. QED
        BY <1>8, <4>1, <4>2
    <3>2. UNCHANGED <<row, picture, upload, object, stray, overtaken>>
      BY <1>8 DEF DrainStart, DrainEnd, store, history
    <3>3. QED
      BY <3>1, <3>2 DEF TypeOK
  <2>2. QED
    BY <1>1, <1>2, <2>1, AccountKept DEF Excepted, CleanedUp, Putting, Held
<1>9. ASSUME NEW d \in Drains, NEW k \in Keys, DrainClaim(d, k)
      PROVE  Accounted(q)'
  <2>1. /\ UNCHANGED <<picture, upload, object, stray, overtaken>>
        /\ \A p \in Keys \ {k} : row'[p] = row[p]
        /\ row'[k] = Leased("deleting", d) \/ row'[k] = row[k]
             \/ (row'[k] = None /\ Referenced(k))
        /\ \A e \in Drains \ {d} : drain'[e] = drain[e]
        /\ ~drain'[d].landed
    BY <1>1, <1>9 DEF DrainClaim, RowsTyped, TypeOK, DrainRow, store, history
  <2>2. CleanedUp(q) => CleanedUp(q)'
    BY <1>2, <2>1, LeasedRow DEF CleanedUp, Putting, Referenced
  <2>3. \A e \in Drains \ {d} : Held(q, "deleting", e)' => Held(q, "deleting", e)
    BY <2>1, LeasedRow DEF Held
  <2>4. QED
    BY <1>1, <2>1, <2>2, <2>3, AccountKept DEF Excepted, Putting
<1>10. ASSUME NEW d \in Drains, DrainDeleted(d)
       PROVE  Accounted(q)'
  <2>1. PICK k \in Keys : k = drain[d].key
    BY <1>10 DEF DrainDeleted, TypeOK, DrainRow
  <2>2. /\ UNCHANGED <<picture, upload, object, stray, overtaken>>
        /\ drain[d].landed /\ drain'[d].key = None
        /\ \A e \in Drains \ {d} : drain'[e] = drain[e]
        /\ row' = IF Held(k, "deleting", d) THEN [row EXCEPT ![k] = None] ELSE row
    BY <1>10, <2>1, IdleTyped DEF DrainDeleted, TypeOK, DrainRow, store, history
  <2>3. CASE q = k /\ Held(k, "deleting", d)
    <3>1. q \notin object \/ Excepted(q) \/ Putting(q)
      BY <1>1, <2>1, <2>2, <2>3 DEF Accounted
    <3>2. row'[q] = None
      BY <1>1, <2>2, <2>3 DEF RowsTyped
    <3>3. QED
      BY <2>2, <3>1, <3>2 DEF Accounted, CleanedUp, Excepted, Putting, Held
  <2>4. CASE ~(q = k /\ Held(k, "deleting", d))
    <3>1. row'[q] = row[q]
      BY <1>1, <2>2, <2>4 DEF RowsTyped
    <3>2. QED
      BY <1>1, <1>2, <2>2, <3>1, AccountKept DEF Excepted, CleanedUp, Putting, Held
  <2>5. QED
    BY <2>3, <2>4
<1>11. ASSUME NEW d \in Drains, DrainDeleteFailed(d)
       PROVE  Accounted(q)'
  <2>1. /\ UNCHANGED <<picture, upload, object, stray, overtaken>>
        /\ drain'[d].key = None
        /\ \A e \in Drains \ {d} : drain'[e] = drain[e]
        /\ row'[q] = row[q] \/ (row[q] # None /\ row'[q] = Pending)
    BY <1>1, <1>11
       DEF DrainDeleteFailed, Held, RowsTyped, TypeOK, DrainRow, history
  <2>2. CleanedUp(q) => CleanedUp(q)'
    BY <1>2, <2>1, PendingRow DEF CleanedUp, Putting
  <2>3. \A e \in Drains : Held(q, "deleting", e)' => Held(q, "deleting", e)
    BY <2>1, PendingRow DEF Held
  <2>4. QED
    BY <1>1, <1>2, <2>1, <2>2, <2>3, AccountKept DEF Excepted, Putting
<1>12. ASSUME NEW k \in Keys, PutLand(k)
       PROVE  Accounted(q)'
  <2>1. /\ UNCHANGED <<picture, upload, row, drain, overtaken>>
        /\ object' = object \cup {k} /\ stray \subseteq stray'
        /\ Putting(k) \/ k \in stray'
    BY <1>12 DEF PutLand
  <2>2. QED
    BY <1>1, <2>1 DEF Accounted, CleanedUp, Excepted, Putting, Held
<1>13. ASSUME NEW d \in Drains, DeleteLand(d)
       PROVE  Accounted(q)'
  <2>1. PICK k \in Keys : k = drain[d].key
    BY <1>13 DEF DeleteLand, TypeOK, DrainRow
  <2>2. /\ UNCHANGED <<picture, upload, row, stray, overtaken>>
        /\ object' = object \ {k}
        /\ \A e \in Drains \ {d} : drain'[e] = drain[e]
        /\ drain'[d].key = k
    BY <1>13, <2>1 DEF DeleteLand, TypeOK, DrainRow, history
  <2>3. QED
    BY <1>1, <2>2 DEF Accounted, CleanedUp, Excepted, Putting, Held
<1>14. ASSUME NEW k \in Keys, PutLose(k) \/ StragglerLand(k)
       PROVE  Accounted(q)'
  BY <1>1, <1>14 DEF PutLose, StragglerLand, Accounted, CleanedUp, Excepted, Putting, Held, history
<1>15. ASSUME NEW k \in Keys, LeaseOver(k)
       PROVE  Accounted(q)'
  <2>1. /\ UNCHANGED <<picture, upload, object, drain, stray, overtaken>>
        /\ row'[q] = None <=> row[q] = None
        /\ row[q] # None => row'[q].state = row[q].state /\ row'[q].lease = row[q].lease
    <3>1. row[k] \in CleanupRow /\ row' = [row EXCEPT ![k] = [row[k] EXCEPT !.over = TRUE]]
      BY <1>1, <1>15 DEF LeaseOver, RowsTyped
    <3>2. row'[k] \in CleanupRow /\ row'[k].state = row[k].state /\ row'[k].lease = row[k].lease
      BY <1>1, <3>1 DEF RowsTyped, CleanupRow
    <3>3. QED
      BY <1>1, <1>2, <1>15, <3>1, <3>2 DEF LeaseOver, RowsTyped, store, history
  <2>2. QED
    BY <1>1, <2>1 DEF Accounted, CleanedUp, Excepted, Putting, Held
<1>16. ASSUME Crash
       PROVE  Accounted(q)'
  <2>1. /\ UNCHANGED <<picture, row, object, overtaken>>
        /\ \A d \in Drains : drain'[d].key = None
        /\ stray \subseteq stray'
        /\ Putting(q) => row[q] # None \/ q \in stray'
    BY <1>16, IdleTyped DEF Crash, Held
  <2>2. QED
    BY <1>1, <1>2, <2>1 DEF Accounted, CleanedUp, Excepted
<1>17. CASE UNCHANGED vars
  BY <1>1, <1>17 DEF vars, Accounted, CleanedUp, Excepted, Putting, Held
<1>18. QED
  BY <1>3, <1>4, <1>5, <1>6, <1>7, <1>8, <1>9, <1>10, <1>11, <1>12, <1>13, <1>14, <1>15, <1>16,
     <1>17 DEF Next, UploadNext, DrainNext

\* Whatever overlaps or crashes, an object that no profile names is listed in
\* the cleanup table or its upload is still to list it, but for the exceptions
\* that `stray` and `overtaken` record.
THEOREM NoPictureIsForgotten == Spec => []NothingLeaks
<1> DEFINE AllAccounted == \A k \in Keys : Accounted(k)
<1>1. Init => AllAccounted
  BY AccountedInit
<1>2. TypeOK /\ AllAccounted /\ [Next]_vars => AllAccounted'
  BY AccountedStep
<1>3. TypeOK /\ AllAccounted => NothingLeaks
  BY DEF TypeOK, Accounted, Excepted, NothingLeaks
<1> HIDE DEF AllAccounted
<1>4. QED
  BY <1>1, <1>2, <1>3, TypeCorrectness, PTL DEF Spec

-----------------------------------------------------------------------------
(* The tables and the store implement the board.                           *)

\* A key's PUT is sent once, so what left the store does not come back.
SentOnce(k) ==
    /\ Unreserved(k) => put[k] = "none"
    /\ k \in object => put[k] = "landed"

AllSentOnce == \A k \in Keys : SentOnce(k)

LEMMA SentOnceInit == Init => AllSentOnce
BY DEF Init, AllSentOnce, SentOnce

LEMMA SentOnceStep == TypeOK /\ AllSentOnce /\ [Next]_vars => AllSentOnce'
<1> SUFFICES ASSUME TypeOK, AllSentOnce, [Next]_vars, NEW q \in Keys
             PROVE  SentOnce(q)'
  BY DEF AllSentOnce
<1>1. SentOnce(q) /\ upload[q] \in UploadRow \cup {None} /\ None \notin UploadRow
  BY NoneRowAssumption DEF AllSentOnce, TypeOK
<1>2. ASSUME NEW k \in Keys, NEW u \in Users, ImportStart(k, u)
      PROVE  SentOnce(q)'
  BY <1>1, <1>2 DEF ImportStart, SentOnce, Unreserved, store, TypeOK
<1>3. ASSUME NEW k \in Keys, ImportReserve(k) \/ \E u \in Users : UploadReserve(k, u)
      PROVE  SentOnce(q)'
  <2>1. /\ Unreserved(k) /\ object' = object /\ put' = [put EXCEPT ![k] = "sent"]
        /\ \A r \in Keys \ {k} : upload'[r] = upload[r]
    BY <1>3 DEF ImportReserve, UploadReserve, Unreserved, TypeOK
  <2>2. ~Unreserved(k)'
    <3>1. CASE ImportReserve(k)
      <4>1. upload[k] \in UploadRow /\ upload' = [upload EXCEPT ![k].phase = "putting"]
        BY <3>1 DEF ImportReserve, TypeOK
      <4>2. upload'[k] \in UploadRow /\ upload'[k].phase = "putting"
        BY <4>1 DEF TypeOK, UploadRow
      <4>3. QED
        BY <1>1, <4>2 DEF Unreserved
    <3>2. CASE \E u \in Users : UploadReserve(k, u)
      <4>1. PICK u \in Users : UploadReserve(k, u)
        BY <3>2
      <4>2. upload'[k] \in UploadRow /\ upload'[k].phase = "putting"
        BY <4>1 DEF UploadReserve, TypeOK, UploadRow
      <4>3. QED
        BY <1>1, <4>2 DEF Unreserved
    <3>3. QED
      BY <1>3, <3>1, <3>2
  <2>3. k \notin object
    BY <2>1 DEF AllSentOnce, SentOnce
  <2>4. CASE q = k
    BY <2>1, <2>2, <2>3, <2>4 DEF SentOnce
  <2>5. CASE q # k
    <3>1. put'[q] = put[q] /\ upload'[q] = upload[q]
      BY <2>1, <2>5 DEF TypeOK
    <3>2. QED
      BY <1>1, <2>1, <3>1 DEF SentOnce, Unreserved
  <2>6. QED
    BY <2>4, <2>5
<1>4. ASSUME NEW k \in Keys, UploadFail(k) \/ UploadFinish(k)
      PROVE  SentOnce(q)'
  <2>1. /\ upload[k] # None /\ UploadOver(k) /\ UNCHANGED <<put, object>>
        /\ upload[k].phase = "putting"
    BY <1>4 DEF UploadFail, UploadFinish, Putting, store
  <2>2. /\ \A r \in Keys \ {k} : upload'[r] = upload[r]
        /\ upload'[k] # None /\ upload'[k].phase = "over"
    BY <2>1, UploadOverTyped
  <2>3. QED
    BY <1>1, <2>1, <2>2 DEF SentOnce, Unreserved
<1>5. ASSUME NEW k \in Keys, PutLand(k) \/ PutLose(k) \/ StragglerLand(k)
      PROVE  SentOnce(q)'
  BY <1>1, <1>5 DEF PutLand, PutLose, StragglerLand, SentOnce, Unreserved, TypeOK
<1>6. ASSUME NEW d \in Drains, DeleteLand(d)
      PROVE  SentOnce(q)'
  BY <1>1, <1>6 DEF DeleteLand, SentOnce, Unreserved
<1>7. ASSUME Crash
      PROVE  SentOnce(q)'
  BY <1>1, <1>7 DEF Crash, SentOnce, Unreserved, UploadRow
<1>8. CASE UNCHANGED <<upload, put, object>>
  BY <1>1, <1>8 DEF SentOnce, Unreserved
<1>9. QED
  BY <1>2, <1>3, <1>4, <1>5, <1>6, <1>7, <1>8
     DEF Next, UploadNext, DrainNext, LeaseOver, PictureRemove, UserPurge, UserDelete,
         DrainStart, DrainClaim, DrainEnd, DrainDeleted, DrainDeleteFailed, store, vars

\* What the board shows of the tables.
boardImage == <<Live, Display, Place, Spent>>

LEMMA BoardImage == boardImage = Board!boardVars /\ boardImage' = Board!boardVars'
BY DEF boardImage, Board!boardVars

LEMMA BoardUnchanged ==
    ASSUME UNCHANGED <<user, picture, upload, put, object>>
    PROVE  UNCHANGED boardImage
BY DEF boardImage, Live, Display, Place, Spent, Finished, Referenced

LEMMA LiveUnchanged ==
    ASSUME UNCHANGED user
    PROVE  Live' = Live
BY DEF Live

LEMMA DisplayUnchanged ==
    ASSUME UNCHANGED <<user, picture>>
    PROVE  Display' = Display
BY DEF Display

LEMMA PlaceUnchanged ==
    ASSUME UNCHANGED <<put, object>>
    PROVE  Place' = Place
BY DEF Place

LEMMA SpentUnchanged ==
    ASSUME UNCHANGED <<user, picture, upload>>
    PROVE  Spent' = Spent
BY DEF Spent, Finished, Referenced

\* A key is on show on the board when a profile refers to it.
LEMMA ShownIsReferenced ==
    ASSUME NEW k \in Keys
    PROVE  Board!OnShow(k) <=> Referenced(k)
<1>1. k # None
  BY ProfilePicturesAssumption
<1>2. \A u \in Users : Display[u] = k <=> picture[u] = k /\ user[u] = "live"
  BY <1>1 DEF Display
<1>3. QED
  BY <1>2 DEF Board!OnShow, Referenced

LEMMA BoardStep ==
    TypeOK /\ Separated /\ AllSentOnce /\ [Next]_vars => [Board!BoardNext]_boardImage
<1> SUFFICES ASSUME TypeOK, Separated, AllSentOnce, [Next]_vars
             PROVE  Board!BoardNext \/ UNCHANGED boardImage
  OBVIOUS
<1>1. Owned /\ (\A k \in Keys : Separate(k) /\ SentOnce(k))
  BY DEF Separated, AllSentOnce
<1>2. None \notin UploadRow /\ None \notin Keys
  BY ProfilePicturesAssumption, NoneRowAssumption
<1>3. ASSUME NEW k \in Keys, NEW u \in Users, ImportStart(k, u)
      PROVE  UNCHANGED boardImage
  <2>1. \A q \in Keys : Finished(q)' <=> Finished(q)
    BY <1>3 DEF ImportStart, Finished, TypeOK
  <2>2. Spent' = Spent
    BY <1>3, <2>1 DEF ImportStart, Spent, Referenced
  <2>3. QED
    BY <1>3, <2>2, LiveUnchanged, DisplayUnchanged, PlaceUnchanged DEF ImportStart, store, boardImage
<1>4. ASSUME NEW k \in Keys, ImportReserve(k) \/ \E u \in Users : UploadReserve(k, u)
      PROVE  UNCHANGED boardImage
  <2>1. /\ Unreserved(k) /\ UNCHANGED <<user, picture, object>>
        /\ put' = [put EXCEPT ![k] = "sent"]
        /\ \A q \in Keys \ {k} : upload'[q] = upload[q]
    BY <1>4 DEF ImportReserve, UploadReserve, Unreserved, TypeOK
  <2>2. ~Finished(k)'
    <3>1. CASE ImportReserve(k)
      <4>1. upload[k] \in UploadRow /\ upload' = [upload EXCEPT ![k].phase = "putting"]
        BY <3>1 DEF ImportReserve, TypeOK
      <4>2. QED
        BY <4>1 DEF TypeOK, UploadRow, Finished
    <3>2. CASE \E u \in Users : UploadReserve(k, u)
      BY <3>2 DEF UploadReserve, Finished, TypeOK
    <3>3. QED
      BY <1>4, <3>1, <3>2
  <2>3. \A q \in Keys : Finished(q)' <=> Finished(q)
    BY <2>1, <2>2 DEF Finished, Unreserved
  <2>4. Spent' = Spent
    BY <2>1, <2>3 DEF Spent, Referenced
  <2>5. put[k] # "landed"
    BY <1>1, <2>1 DEF SentOnce
  <2>6. \A q \in Keys : put'[q] = "landed" <=> put[q] = "landed"
    BY <2>1, <2>5 DEF TypeOK
  <2>7. Place' = Place
    BY <2>1, <2>6 DEF Place
  <2>8. QED
    BY <2>1, <2>4, <2>7, LiveUnchanged, DisplayUnchanged DEF boardImage
<1>5. ASSUME NEW k \in Keys, UploadFail(k) \/ (UploadFinish(k) /\ ~Publishable(k))
      PROVE  Board!PicturesGivenUp({k})
  <2>1. /\ upload[k] # None /\ upload[k].phase = "putting"
        /\ UploadOver(k) /\ UNCHANGED <<user, picture, put, object>>
    BY <1>5 DEF UploadFail, UploadFinish, Putting, store
  <2>2. \A q \in Keys : Finished(q)' <=> Finished(q) \/ q = k
    BY <2>1, UploadOverTyped DEF Finished
  <2>3. ~Referenced(k) /\ \A q \in Keys : Referenced(q)' <=> Referenced(q)
    BY <1>1, <2>1 DEF Owned, Referenced
  <2>4. Spent' = Spent \cup {k}
    BY <2>2, <2>3 DEF Spent
  <2>5. QED
    BY <2>1, <2>3, <2>4, ShownIsReferenced, LiveUnchanged, DisplayUnchanged, PlaceUnchanged
       DEF Board!PicturesGivenUp, Board!Spend
<1>6. ASSUME NEW k \in Keys, UploadFinish(k), Publishable(k)
      PROVE  \E u \in Users : Board!PictureShown(u, k)
  <2> DEFINE u == upload[k].user
             old == picture[u]
  <2>1. /\ u \in Users /\ old \in Keys \cup {None} /\ user[u] = "live"
        /\ upload[k] # None /\ upload[k].phase = "putting"
        /\ picture' = [picture EXCEPT ![u] = k]
        /\ UploadOver(k) /\ UNCHANGED <<user, put, object>>
    BY <1>6 DEF UploadFinish, Putting, Publishable, TypeOK, UploadRow, store
  <2>2. k \in object
    BY <1>1, <1>6 DEF UploadFinish, Publishable, Held, Uploading, Separate
  <2>3. \A q \in Keys : Finished(q)' <=> Finished(q) \/ q = k
    BY <2>1, UploadOverTyped DEF Finished
  <2>4. old # k /\ ~Finished(k) /\ \A v \in Users : picture[v] # k
    BY <1>1, <2>1 DEF Owned, Finished
  <2>5. old \in Keys => Finished(old) /\ \A v \in Users \ {u} : picture[v] # old
    BY <1>1, <2>1 DEF Owned, Finished
  <2> HIDE DEF u, old
  <2>6. picture[u] = old
    BY DEF u, old
  <2>7. Display' = [Display EXCEPT ![u] = k]
    BY <2>1 DEF Display, TypeOK
  <2>8. \A q \in Keys : Referenced(q)' <=> (Referenced(q) /\ q # old) \/ q = k
    BY <2>1, <2>5, <2>6 DEF Referenced, TypeOK
  <2>9. Referenced(old)
    BY <2>1, <2>6 DEF Referenced
  <2>10. Spent' = Spent \cup ({old} \ {None})
    BY <1>2, <2>1, <2>3, <2>4, <2>5, <2>8, <2>9 DEF Spent
  <2>11. Display[u] = old
    BY <2>1, <2>6 DEF Display
  <2>12. u \in Live /\ Place[k] = "stored" /\ ~Referenced(k) /\ k \notin Spent
    BY <2>1, <2>2, <2>4 DEF Live, Place, Referenced, Spent
  <2>13. Board!PictureShown(u, k)
    BY <2>1, <2>7, <2>10, <2>11, <2>12, ShownIsReferenced, LiveUnchanged, PlaceUnchanged
       DEF Board!PictureShown, Board!Spend
  <2>14. QED
    BY <2>1, <2>13
<1>7. ASSUME NEW u \in Users, PictureRemove(u)
      PROVE  Board!PictureTakenDown(u)
  <2> DEFINE old == picture[u]
  <2>1. /\ user[u] = "live" /\ old \in Keys
        /\ picture' = [picture EXCEPT ![u] = None]
        /\ UNCHANGED <<user, upload, put, object>>
    BY <1>7 DEF PictureRemove, TypeOK, store
  <2>2. Finished(old) /\ \A v \in Users \ {u} : picture[v] # old
    BY <1>1, <2>1 DEF Owned, Finished
  <2>3. \A q \in Keys : Referenced(q)' <=> Referenced(q) /\ q # old
    BY <1>2, <2>1, <2>2 DEF Referenced, TypeOK
  <2>4. \A q \in Keys : Finished(q)' <=> Finished(q)
    BY <2>1 DEF Finished
  <2>5. Spent' = Spent \cup {old}
    BY <2>1, <2>2, <2>3, <2>4 DEF Spent
  <2>6. Display' = [Display EXCEPT ![u] = None] /\ Display[u] = old /\ u \in Live
    BY <2>1 DEF Display, Live, TypeOK
  <2>7. QED
    BY <1>2, <2>1, <2>5, <2>6, LiveUnchanged, PlaceUnchanged
       DEF Board!PictureTakenDown, Board!Spend
<1>8. ASSUME NEW u \in Users, NEW origin \in BOOLEAN, UserDelete(u, origin)
      PROVE  Board!PersonLeaves(u)
  <2> DEFINE old == picture[u]
  <2>1. /\ user[u] = "live" /\ old \in Keys \cup {None}
        /\ user' = [user EXCEPT ![u] = "deleted"]
        /\ UNCHANGED <<picture, upload, put, object>>
    BY <1>8 DEF UserDelete, TypeOK, store
  <2>2. old \in Keys => Finished(old) /\ \A v \in Users \ {u} : picture[v] # old
    BY <1>1, <2>1 DEF Owned, Finished
  <2>3. \A q \in Keys : Referenced(q)' <=> Referenced(q) /\ q # old
    BY <2>1, <2>2 DEF Referenced, TypeOK
  <2>4. \A q \in Keys : Finished(q)' <=> Finished(q)
    BY <2>1 DEF Finished
  <2>5. Spent' = Spent \cup ({old} \ {None})
    BY <1>2, <2>1, <2>2, <2>3, <2>4 DEF Spent
  <2>6. Display' = [Display EXCEPT ![u] = None] /\ Display[u] = old
    BY <2>1 DEF Display, TypeOK
  <2>7. u \in Live /\ Live' = Live \ {u}
    BY <2>1 DEF Live, TypeOK
  <2>8. QED
    BY <2>1, <2>5, <2>6, <2>7, PlaceUnchanged DEF Board!PersonLeaves, Board!Spend
<1>9. ASSUME NEW u \in Users, UserPurge(u)
      PROVE  UNCHANGED boardImage
  <2>1. /\ user[u] # "live" /\ user' = [user EXCEPT ![u] = "purged"]
        /\ picture' = [picture EXCEPT ![u] = None]
        /\ UNCHANGED <<upload, put, object>>
    BY <1>9 DEF UserPurge, store
  <2>2. \A v \in Users : /\ user'[v] = "live" <=> user[v] = "live"
                         /\ user[v] = "live" => picture'[v] = picture[v]
    BY <2>1 DEF TypeOK
  <2>3. Live' = Live /\ Display' = Display
    BY <2>2 DEF Live, Display
  <2>4. Spent' = Spent
    BY <2>1, <2>2 DEF Spent, Finished, Referenced
  <2>5. QED
    BY <2>1, <2>3, <2>4, PlaceUnchanged DEF boardImage
<1>10. ASSUME NEW k \in Keys, PutLand(k)
       PROVE  Board!PictureArrives(k)
  <2>1. /\ put[k] = "sent" /\ put' = [put EXCEPT ![k] = "landed"]
        /\ object' = object \cup {k} /\ UNCHANGED <<user, picture, upload>>
    BY <1>10 DEF PutLand
  <2>2. k \notin object
    BY <1>1, <2>1 DEF SentOnce
  <2>3. Place[k] = "outside" /\ Place' = [Place EXCEPT ![k] = "stored"]
    BY <2>1, <2>2 DEF Place, TypeOK
  <2>4. QED
    BY <2>1, <2>3, LiveUnchanged, DisplayUnchanged, SpentUnchanged
       DEF Board!PictureArrives, Board!PlacedAt
<1>11. ASSUME NEW k \in Keys, PutLose(k)
       PROVE  UNCHANGED boardImage
  <2>1. \A q \in Keys : put'[q] = "landed" <=> put[q] = "landed"
    BY <1>11 DEF PutLose, TypeOK
  <2>2. Place' = Place
    BY <1>11, <2>1 DEF PutLose, Place
  <2>3. QED
    BY <1>11, <2>2, LiveUnchanged, DisplayUnchanged, SpentUnchanged DEF PutLose, boardImage
<1>12. ASSUME NEW k \in Keys, StragglerLand(k) \/ \E d \in Drains : DeleteLand(d) /\ drain[d].key = k
       PROVE  Board!PictureGoes(k) \/ UNCHANGED boardImage
  <2>1. /\ Touched(k) /\ object' = object \ {k} /\ UNCHANGED <<user, picture, upload, put>>
    BY <1>12 DEF StragglerLand, DeleteLand, Touched
  <2>2. CASE k \notin object
    BY <2>1, <2>2, BoardUnchanged
  <2>3. CASE k \in object
    <3>1. put[k] = "landed" /\ ~Referenced(k)
      BY <1>1, <2>1, <2>3 DEF SentOnce, Separate
    <3>2. Place[k] = "stored" /\ Place' = [Place EXCEPT ![k] = "gone"]
      BY <2>1, <2>3, <3>1 DEF Place
    <3>3. QED
      BY <2>1, <3>1, <3>2, ShownIsReferenced, LiveUnchanged, DisplayUnchanged, SpentUnchanged
         DEF Board!PictureGoes, Board!PlacedAt
  <2>4. QED
    BY <2>2, <2>3
<1>13. ASSUME Crash
       PROVE  \E S \in SUBSET Keys : Board!PicturesGivenUp(S)
  <2> DEFINE S == {k \in Keys : upload[k] # None /\ upload[k].phase # "over"}
  <2>1. \A q \in Keys : Finished(q)' <=> Finished(q) \/ q \in S
    BY <1>2, <1>13 DEF Crash, Finished, TypeOK, UploadRow
  <2>2. \A q \in S : ~Referenced(q)
    BY <1>1 DEF Owned, Referenced
  <2>3. \A q \in Keys : Referenced(q)' <=> Referenced(q)
    BY <1>13 DEF Crash, Referenced
  <2>4. Spent' = Spent \cup S
    BY <2>1, <2>2, <2>3 DEF Spent
  <2>5. Board!PicturesGivenUp(S)
    BY <1>13, <2>2, <2>4, ShownIsReferenced, LiveUnchanged, DisplayUnchanged, PlaceUnchanged
       DEF Crash, Board!PicturesGivenUp, Board!Spend
  <2>6. QED
    BY <2>5
<1>14. ASSUME UNCHANGED <<user, picture, upload, put, object>>
       PROVE  UNCHANGED boardImage
  BY <1>14, BoardUnchanged
<1>15. ASSUME NEW d \in Drains, DeleteLand(d)
       PROVE  Board!BoardNext \/ UNCHANGED boardImage
  <2>1. drain[d].key \in Keys
    BY <1>15 DEF DeleteLand, TypeOK, DrainRow
  <2>2. QED
    BY <1>12, <1>15, <2>1 DEF Board!BoardNext
<1>16. QED
  <2>1. CASE \E k \in Keys : UploadNext(k) \/ PutLand(k) \/ PutLose(k) \/ StragglerLand(k)
                               \/ LeaseOver(k)
    <3>1. PICK k \in Keys : UploadNext(k) \/ PutLand(k) \/ PutLose(k) \/ StragglerLand(k)
                               \/ LeaseOver(k)
      BY <2>1
    <3>2. CASE LeaseOver(k)
      BY <3>2, <1>14 DEF LeaseOver, store
    <3>3. CASE UploadNext(k)
      BY <3>3, <1>3, <1>4, <1>5, <1>6 DEF UploadNext, Board!BoardNext
    <3>4. QED
      BY <3>1, <3>2, <3>3, <1>10, <1>11, <1>12 DEF Board!BoardNext
  <2>2. CASE \E u \in Users : PictureRemove(u) \/ UserPurge(u)
                                \/ \E origin \in BOOLEAN : UserDelete(u, origin)
    BY <2>2, <1>7, <1>8, <1>9 DEF Board!BoardNext
  <2>3. CASE \E d \in Drains : DrainStart(d) \/ DrainNext(d)
    BY <2>3, <1>14 DEF DrainStart, DrainNext, DrainClaim, DrainEnd, DrainDeleted, DrainDeleteFailed,
                       store
  <2>4. CASE UNCHANGED vars
    BY <2>4, <1>14 DEF vars
  <2>5. CASE Crash
    BY <2>5, <1>13 DEF Board!BoardNext
  <2>6. QED
    BY <2>1, <2>2, <2>3, <2>4, <2>5, <1>15 DEF Next

\* Of all that uploads, drains and crashes do, a reader of profiles sees the
\* board: a picture is shown by one profile and once, is in the store while it
\* is shown, and does not come back, neither to the store nor with its user.
THEOREM PicturesImplementBoard == Spec => ImplementsPictureBoard
<1>1. Init => Board!BoardInit
  BY ProfilePicturesAssumption
     DEF Init, Board!BoardInit, Live, Display, Place, Spent, Finished
<1>2. TypeOK /\ Separated /\ AllSentOnce /\ [Next]_vars => [Board!BoardNext]_Board!boardVars
  BY BoardStep, BoardImage
<1>3. QED
  BY <1>1, <1>2, SentOnceInit, SentOnceStep, SeparatedInit, SeparatedStep, TypeCorrectness, PTL
     DEF Spec, ImplementsPictureBoard, Board!BoardSpec

=============================================================================
