---------------------- MODULE RecordingLifecycleProofs ----------------------
(***************************************************************************)
(* Proofs about the life of a clip, for any number of clips, any batch     *)
(* size, any number of crashes and any set of faults. One inductive        *)
(* invariant, Custody, says what each goroutine knows about the clips it   *)
(* holds; the safety properties of the run are read off from it.           *)
(***************************************************************************)
EXTENDS RecordingLifecycle, TLAPS

USE NAssumption, BatchAssumption, FaultsAssumption

-----------------------------------------------------------------------------
(***************************************************************************)
(* Statements against the table.                                           *)
(***************************************************************************)

\* A row of the table that an UPDATE or DELETE does not name is left alone.
OthersKept(r) == \A q \in Recs : q # r => row'[q] = row[q]

LEMMA CreateRow ==
  ASSUME TypeOK, NEW r \in Recs, Create(r)
  PROVE  /\ row' \in [Recs -> Row]
         /\ OthersKept(r)
         /\ row'[r].exists /\ ~row'[r].complete /\ ~row'[r].uploaded
         /\ ~row'[r].key /\ ~row'[r].localRemoved
  BY DEF TypeOK, Create, OthersKept, Row, NoRow

LEMMA FinalizeRow ==
  ASSUME TypeOK, NEW r \in Recs, Finalize(r)
  PROVE  /\ row' \in [Recs -> Row]
         /\ OthersKept(r)
         /\ row[r].exists => /\ row'[r].exists /\ row'[r].complete
                             /\ row'[r].uploaded = row[r].uploaded
                             /\ row'[r].key = row[r].key
                             /\ row'[r].localRemoved = row[r].localRemoved
         /\ ~row[r].exists => row'[r] = row[r]
  BY DEF TypeOK, Finalize, OthersKept, Row

LEMMA MarkUploadedRow ==
  ASSUME TypeOK, NEW r \in Recs, NEW hasKey \in BOOLEAN, MarkUploaded(r, hasKey)
  PROVE  /\ row' \in [Recs -> Row]
         /\ OthersKept(r)
         /\ row[r].exists => /\ row'[r].exists
                             /\ row'[r].complete = row[r].complete
                             /\ row'[r].uploaded /\ row'[r].key = hasKey
                             /\ row'[r].localRemoved = row[r].localRemoved
         /\ ~row[r].exists => row'[r] = row[r]
<1>1. CASE row[r].exists
  <2>1. row' = [row EXCEPT ![r] = [row[r] EXCEPT !.uploaded = TRUE, !.key = hasKey]]
    BY <1>1 DEF TypeOK, MarkUploaded, Row
  <2>. QED BY <1>1, <2>1 DEF TypeOK, OthersKept, Row
<1>2. CASE ~row[r].exists
  BY <1>2 DEF TypeOK, MarkUploaded, OthersKept, Row
<1>. QED BY <1>1, <1>2

LEMMA MarkLocalRemovedRow ==
  ASSUME TypeOK, NEW r \in Recs, MarkLocalRemoved(r)
  PROVE  /\ row' \in [Recs -> Row]
         /\ OthersKept(r)
         /\ row[r].exists => /\ row'[r].exists
                             /\ row'[r].complete = row[r].complete
                             /\ row'[r].uploaded = row[r].uploaded
                             /\ row'[r].key = row[r].key
                             /\ row'[r].localRemoved
         /\ ~row[r].exists => row'[r] = row[r]
  BY DEF TypeOK, MarkLocalRemoved, OthersKept, Row

LEMMA DeleteRow ==
  ASSUME TypeOK, NEW r \in Recs, Delete(r)
  PROVE  /\ row' \in [Recs -> Row]
         /\ OthersKept(r)
         /\ row'[r] = NoRow
  BY DEF TypeOK, Delete, OthersKept, Row, NoRow

\* A listing holds only recordings of the set it was cut from.
LEMMA Listings ==
  /\ \A limit : PendingUploads(limit) \subseteq PendingUploadsAll
  /\ PendingUploadsAll \subseteq Recs
  /\ \A only : OldestComplete(only) \subseteq Recs
  /\ \A S, n : First(S, n) \subseteq S
  /\ \A S : Oldest(S) \subseteq S
  BY DEF PendingUploads, PendingUploadsAll, OldestComplete, First, Oldest

-----------------------------------------------------------------------------
\* What Take leaves behind: a retention worker that holds clips of its queue.
LEMMA TakeType ==
  ASSUME TypeOK, NEW queue \in SUBSET Recs, NEW archived \in SUBSET Recs,
         Take(queue, archived)
  PROVE  /\ ret' \in [pc : RetPCs, s3 : BOOLEAN, only : BOOLEAN, queue : SUBSET Recs,
                      archived : SUBSET Recs, cur : Recs \cup {None}]
         /\ ret'.pc \in {"until", "unlink"}
         /\ ret'.pc = "unlink" => ret'.cur \in queue
         /\ ret'.queue \subseteq queue
         /\ ret'.archived \subseteq archived
         /\ ret'.s3 = ret.s3 /\ ret'.only = ret.only
<1>1. CASE ret' = [ret EXCEPT !.pc = "until", !.queue = {}, !.archived = {}, !.cur = None]
  BY <1>1 DEF TypeOK, RetPCs
<1>2. ASSUME NEW r \in Oldest(queue),
             ret' = [ret EXCEPT !.pc = "unlink", !.queue = queue \ {r},
                                !.archived = archived, !.cur = r]
      PROVE  /\ ret' \in [pc : RetPCs, s3 : BOOLEAN, only : BOOLEAN, queue : SUBSET Recs,
                          archived : SUBSET Recs, cur : Recs \cup {None}]
             /\ ret'.pc = "unlink" /\ ret'.cur \in queue /\ ret'.queue \subseteq queue
             /\ ret'.archived \subseteq archived
             /\ ret'.s3 = ret.s3 /\ ret'.only = ret.only
  <2>1. r \in queue
    BY Listings
  <2>. QED BY <1>2, <2>1 DEF TypeOK, RetPCs
<1>. QED BY <1>1, <1>2 DEF Take

\* What UpAfter leaves behind: nothing, or a worker about to look at its queue.
LEMMA UpAfterType ==
  ASSUME TypeOK, NEW queue \in SUBSET Recs
  PROVE  /\ UpAfter(queue) \in [pc : UpPCs, deleteLocal : BOOLEAN, queue : SUBSET Recs,
                                cur : Recs \cup {None}]
         /\ UpAfter(queue).pc \in {"idle", "next"}
         /\ UpAfter(queue).pc = "next" => UpAfter(queue).queue # {}
         /\ UpAfter(queue).queue = queue
  BY DEF TypeOK, UpAfter, UpIdle, UpPCs

-----------------------------------------------------------------------------
\* Every step keeps the type invariant.
LEMMA TypePreserved == TypeOK /\ [Next]_vars => TypeOK'
<1> SUFFICES ASSUME TypeOK, [Next]_vars PROVE TypeOK'
  OBVIOUS
<1>1. ASSUME NEW r \in Recs, OpenFile(r) PROVE TypeOK'
  BY <1>1 DEF OpenFile, TypeOK
<1>2. ASSUME NEW r \in Recs, SegmentStarted(r) PROVE TypeOK'
  <2>1. row' \in [Recs -> Row]
    BY <1>2, CreateRow DEF SegmentStarted, TypeOK
  <2>. QED BY <1>2, <2>1 DEF SegmentStarted, TypeOK
<1>3. ASSUME NEW r \in Recs, SegmentFinalized(r) PROVE TypeOK'
  <2>1. row' \in [Recs -> Row]
    BY <1>3, FinalizeRow DEF SegmentFinalized, TypeOK
  <2>. QED BY <1>3, <2>1 DEF SegmentFinalized, TypeOK
<1>4. CASE UploadTick
  <2>1. PendingUploads(BatchSize) \in SUBSET Recs
    BY Listings
  <2>2. PICK deleteLocal \in BOOLEAN :
          up' = [UpIdle EXCEPT !.pc = "next", !.deleteLocal = deleteLocal,
                               !.queue = PendingUploads(BatchSize)]
    BY <1>4 DEF UploadTick
  <2>3. up' = [pc |-> "next", deleteLocal |-> deleteLocal,
               queue |-> PendingUploads(BatchSize), cur |-> None]
    BY <2>2 DEF UpIdle
  <2>. QED BY <1>4, <2>1, <2>3 DEF UploadTick, UpPCs, TypeOK
<1>5. CASE UploadStat
  <2>1. PICK r \in up.queue :
          \/ r \in disk /\ up' = [up EXCEPT !.pc = "open", !.queue = @ \ {r}, !.cur = r]
             /\ UNCHANGED row
          \/ (MarkUploaded(r, FALSE) \/ UNCHANGED row) /\ up' = UpAfter(up.queue \ {r})
    BY <1>5, Listings DEF UploadStat
  <2>2. up.queue \subseteq Recs
    BY DEF TypeOK
  <2>3. row' \in [Recs -> Row]
    BY <2>1, <2>2, MarkUploadedRow DEF TypeOK
  <2>4. /\ up' \in [pc : UpPCs, deleteLocal : BOOLEAN, queue : SUBSET Recs,
                    cur : Recs \cup {None}]
        /\ up'.pc = "next" => up'.queue # {}
        /\ up'.pc \notin {"idle", "next"} => up'.cur \in Recs
    <3>1. CASE up' = [up EXCEPT !.pc = "open", !.queue = @ \ {r}, !.cur = r]
      BY <2>2, <3>1 DEF TypeOK, UpPCs
    <3>2. CASE up' = UpAfter(up.queue \ {r})
      BY <2>2, <3>2, UpAfterType
    <3>. QED BY <2>1, <3>1, <3>2
  <2>. QED BY <1>5, <2>3, <2>4 DEF UploadStat, TypeOK
<1>6. ASSUME UploadOpen \/ UploadDone \/ UploadFails PROVE TypeOK'
  <2>1. /\ up' \in [pc : UpPCs, deleteLocal : BOOLEAN, queue : SUBSET Recs,
                    cur : Recs \cup {None}]
        /\ up'.pc = "next" => up'.queue # {}
        /\ up'.pc \notin {"idle", "next"} => up'.cur \in Recs
    BY <1>6, UpAfterType DEF UploadOpen, UploadDone, UploadFails, TypeOK, UpPCs
  <2>. QED BY <1>6, <2>1 DEF UploadOpen, UploadDone, UploadFails, TypeOK
<1>7. ASSUME UploadMark \/ UploadUnlink \/ UploadFlag PROVE TypeOK'
  <2>1. row' \in [Recs -> Row]
    BY <1>7, MarkUploadedRow, MarkLocalRemovedRow
       DEF UploadMark, UploadUnlink, UploadFlag, TypeOK
  <2>2. /\ up' \in [pc : UpPCs, deleteLocal : BOOLEAN, queue : SUBSET Recs,
                    cur : Recs \cup {None}]
        /\ up'.pc = "next" => up'.queue # {}
        /\ up'.pc \notin {"idle", "next"} => up'.cur \in Recs
    <3>1. \/ up' = UpAfter(up.queue)
          \/ \E pc \in {"unlink", "flag"} : up' = [up EXCEPT !.pc = pc]
      BY <1>7 DEF UploadMark, UploadUnlink, UploadFlag
    <3>2. up.cur \in Recs /\ up.queue \in SUBSET Recs
      BY <1>7 DEF UploadMark, UploadUnlink, UploadFlag, TypeOK
    <3>. QED BY <3>1, <3>2, UpAfterType DEF TypeOK, UpPCs
  <2>3. disk' \subseteq Recs
    BY <1>7 DEF UploadMark, UploadUnlink, UploadFlag, TypeOK
  <2>. QED BY <1>7, <2>1, <2>2, <2>3 DEF UploadMark, UploadUnlink, UploadFlag, TypeOK
<1>8. CASE RetentionTick
  BY <1>8 DEF RetentionTick, RetIdle, RetPCs, TypeOK
<1>9. ASSUME RetentionAge \/ RetentionUntil \/ RetentionRow PROVE TypeOK'
  <2>1. ret' = RetIdle \/ \E queue, archived \in SUBSET Recs : Take(queue, archived)
    <3>1. CASE RetentionAge
      <4>1. PICK n \in 0..N : List(First(OldestComplete(ret.only), n))
        BY <3>1 DEF RetentionAge
      <4>. QED BY <4>1, Listings DEF List
    <3>2. CASE RetentionUntil
      BY <3>2, Listings DEF RetentionUntil, List
    <3>3. CASE RetentionRow
      BY <3>3 DEF RetentionRow, TypeOK
    <3>. QED BY <1>9, <3>1, <3>2, <3>3
  <2>2. /\ ret' \in [pc : RetPCs, s3 : BOOLEAN, only : BOOLEAN, queue : SUBSET Recs,
                     archived : SUBSET Recs, cur : Recs \cup {None}]
        /\ ret'.pc \in {"unlink", "row"} => ret'.cur \in Recs
    <3>1. CASE ret' = RetIdle
      BY <3>1 DEF RetIdle, RetPCs
    <3>2. ASSUME NEW queue \in SUBSET Recs, NEW archived \in SUBSET Recs,
                 Take(queue, archived)
          PROVE  /\ ret' \in [pc : RetPCs, s3 : BOOLEAN, only : BOOLEAN, queue : SUBSET Recs,
                              archived : SUBSET Recs, cur : Recs \cup {None}]
                 /\ ret'.pc \in {"unlink", "row"} => ret'.cur \in Recs
      BY <3>2, TakeType
    <3>. QED BY <2>1, <3>1, <3>2
  <2>3. row' \in [Recs -> Row]
    BY <1>9, MarkLocalRemovedRow, DeleteRow
       DEF RetentionAge, RetentionUntil, RetentionRow, TypeOK
  <2>. QED BY <1>9, <2>2, <2>3 DEF RetentionAge, RetentionUntil, RetentionRow, TypeOK
<1>10. ASSUME RetentionUnlink \/ RetentionFails PROVE TypeOK'
  <2>1. CASE RetentionUnlink
    BY <2>1 DEF RetentionUnlink, RetPCs, TypeOK
  <2>2. CASE RetentionFails
    <3>1. interrupted' \subseteq Recs
      BY <2>2 DEF RetentionFails, TypeOK
    <3>. QED BY <2>2, <3>1 DEF RetentionFails, RetIdle, RetPCs, TypeOK
  <2>. QED BY <1>10, <2>1, <2>2
<1>11. ASSUME NEW r \in Recs, ApiDelete(r) PROVE TypeOK'
  BY <1>11 DEF ApiDelete, TypeOK
<1>12. ASSUME ApiUnlink \/ ApiFails PROVE TypeOK'
  BY <1>12 DEF ApiUnlink, ApiFails, DelIdle, TypeOK
<1>13. CASE ApiRow
  <2>1. row' \in [Recs -> Row]
    BY <1>13, DeleteRow DEF ApiRow, TypeOK
  <2>. QED BY <1>13, <2>1 DEF ApiRow, DelIdle, TypeOK
<1>14. CASE Crash
  BY <1>14 DEF Crash, UpIdle, RetIdle, DelIdle, UpPCs, RetPCs, TypeOK
<1>15. CASE UNCHANGED vars
  BY <1>15 DEF vars, TypeOK
<1>. QED
  BY <1>1, <1>2, <1>3, <1>4, <1>5, <1>6, <1>7, <1>8, <1>9, <1>10, <1>11, <1>12, <1>13,
     <1>14, <1>15
  DEF Next, Record, Upload, UploadStep, Retain, Api

\* Type correctness: a worker past the head of its loop always has a clip in hand.
THEOREM TypeCorrect == Spec => []TypeOK
<1>1. Init => TypeOK
  BY DEF Init, TypeOK, UpIdle, RetIdle, DelIdle, UpPCs, RetPCs, NoRow, Row
<1>. QED BY <1>1, TypePreserved, PTL DEF Spec

-----------------------------------------------------------------------------
(***************************************************************************)
(* The strengthening. UpHolds and RetHolds are the clips a worker still    *)
(* has ahead of it or in its hands.                                        *)
(***************************************************************************)
UpHolds == up.queue \cup (IF up.pc \in {"idle", "next"} THEN {} ELSE {up.cur})

RetHolds == ret.queue \cup (IF ret.pc \in {"unlink", "row"} THEN {ret.cur} ELSE {})

\* A row exists from SegmentStarted on; what the workers write on it they write
\* on a complete row; the file is there before the row is.
RowsFollowRecorder ==
  \A r \in Recs :
    /\ row[r].exists \/ row[r] = NoRow
    /\ row[r].exists => phase[r] \in {"writing", "over"}
    /\ row[r].complete => row[r].exists /\ phase[r] = "over"
    /\ row[r].uploaded \/ row[r].key \/ row[r].localRemoved => row[r].complete
    /\ phase[r] = "idle" => r \notin disk
    /\ phase[r] = "file" => r \in disk

\* The workers hold finished clips only.
HeldAreOver ==
  \A r \in UpHolds \cup RetHolds :
    phase[r] = "over" /\ (row[r].exists => row[r].complete)

\* The upload worker is the only one to mark a clip uploaded, and does it once.
UploadCustody ==
  /\ \A r \in up.queue : ~row[r].uploaded
  /\ up.pc \in {"open", "send", "mark"} => ~row[up.cur].uploaded
  /\ up.pc \notin {"idle", "next"} => up.cur \notin up.queue
  /\ up.pc \in {"mark", "unlink", "flag"} => up.cur \in s3
  /\ up.pc = "flag" => up.cur \notin disk

\* A marked clip stays marked: the local file may go.
UnlinkAfterMark ==
  "mark" \notin Faults =>
    (up.pc \in {"unlink", "flag"} /\ row[up.cur].exists => Archived(up.cur))

\* What was archived when it was listed still is.
SnapshotsTrue ==
  \A r \in ret.archived : phase[r] = "over" /\ (row[r].exists => Archived(r))

DeletersUnlinkFirst ==
  /\ ret.pc = "row" => ret.cur \notin disk
  /\ del.pc # "idle" => phase[del.cur] \in {"writing", "over"}
  /\ del.pc = "row" => del.cur \notin disk

\* Marked uploaded without a key only because there was no file to upload.
UploadedOrGone ==
  "stat" \notin Faults =>
    /\ \A r \in Recs : row[r].uploaded /\ r \in disk => r \in s3
    /\ ret.only => \A r \in RetHolds : r \in disk => r \in s3

Custody ==
  /\ TypeOK
  /\ RowsFollowRecorder
  /\ HeldAreOver
  /\ UploadCustody
  /\ UnlinkAfterMark
  /\ SnapshotsTrue
  /\ DeletersUnlinkFirst
  /\ UploadedOrGone
  /\ KeyNamesObject
  /\ "mark" \notin Faults => LocalRemovedIsArchived
  /\ "mark" \notin Faults => ListedClipPlayable

-----------------------------------------------------------------------------
LEMMA CustodyInitially == Init => Custody
<1> SUFFICES ASSUME Init PROVE Custody
  OBVIOUS
<1>1. TypeOK
  BY DEF Init, TypeOK, UpIdle, RetIdle, DelIdle, UpPCs, RetPCs, NoRow, Row
<1>2. UpHolds = {} /\ RetHolds = {}
  BY DEF Init, UpHolds, RetHolds, UpIdle, RetIdle
<1>3. \A r \in Recs : row[r] = NoRow /\ ~row[r].exists /\ ~row[r].complete
                      /\ ~row[r].uploaded /\ ~row[r].key /\ ~row[r].localRemoved
  BY DEF Init, NoRow
<1>. QED
  BY <1>1, <1>2, <1>3
  DEF Init, Custody, RowsFollowRecorder, HeldAreOver, UploadCustody, UnlinkAfterMark,
      SnapshotsTrue, DeletersUnlinkFirst, UploadedOrGone, KeyNamesObject,
      LocalRemovedIsArchived, ListedClipPlayable, Archived, UpIdle, RetIdle, DelIdle

LEMMA CustodyPreserved == Custody /\ [Next]_vars => Custody'
<1> SUFFICES ASSUME Custody, [Next]_vars PROVE Custody'
  OBVIOUS
<1> USE DEF Custody
<1>0. TypeOK /\ TypeOK'
  BY TypePreserved
<1> USE DEF RowsFollowRecorder, HeldAreOver, UploadCustody, UnlinkAfterMark,
      SnapshotsTrue, DeletersUnlinkFirst, UploadedOrGone, KeyNamesObject,
      LocalRemovedIsArchived, ListedClipPlayable, Archived, UpHolds, RetHolds
<1>1. ASSUME NEW r \in Recs, OpenFile(r) PROVE Custody'
  BY <1>1, <1>0 DEF OpenFile, TypeOK
<1>2. ASSUME NEW r \in Recs, SegmentStarted(r) PROVE Custody'
  <2>1. CASE phase' = [phase EXCEPT ![r] = "writing"] /\ Create(r)
    <3>1. phase[r] = "file" /\ ~row[r].exists /\ r \in disk
      BY <1>2, <1>0 DEF SegmentStarted
    <3>2. \A q \in Recs : q # r => phase'[q] = phase[q] /\ row'[q] = row[q]
      BY <1>0, <2>1, CreateRow DEF TypeOK, OthersKept
    <3>3. /\ phase'[r] = "writing" /\ row'[r].exists /\ ~row'[r].complete
          /\ ~row'[r].uploaded /\ ~row'[r].key /\ ~row'[r].localRemoved
      BY <1>0, <2>1, CreateRow DEF TypeOK
    <3>. QED BY <1>2, <1>0, <3>1, <3>2, <3>3 DEF SegmentStarted, TypeOK
  <2>2. CASE phase' = [phase EXCEPT ![r] = "over"] /\ UNCHANGED row
    BY <1>2, <1>0, <2>2 DEF SegmentStarted, TypeOK
  <2>. QED BY <1>2, <2>1, <2>2 DEF SegmentStarted
<1>3. ASSUME NEW r \in Recs, SegmentFinalized(r) PROVE Custody'
  <2>1. \A q \in Recs : q # r => phase'[q] = phase[q] /\ row'[q] = row[q]
    BY <1>3, <1>0, FinalizeRow DEF SegmentFinalized, TypeOK, OthersKept
  <2>2. phase[r] = "writing" /\ phase'[r] = "over"
    BY <1>3, <1>0 DEF SegmentFinalized, TypeOK
  <2>3. \/ row'[r] = row[r]
        \/ /\ row[r].exists /\ row'[r].exists /\ row'[r].complete
           /\ row'[r].uploaded = row[r].uploaded
           /\ row'[r].key = row[r].key
           /\ row'[r].localRemoved = row[r].localRemoved
    BY <1>3, <1>0, FinalizeRow DEF SegmentFinalized
  <2>. QED BY <1>3, <1>0, <2>1, <2>2, <2>3 DEF SegmentFinalized, TypeOK
<1>4. CASE UploadTick
  BY <1>4, <1>0, Listings DEF UploadTick, UpIdle, TypeOK, PendingUploadsAll
<1>5. CASE UploadStat
  <2>1. PICK r \in up.queue :
          \/ r \in disk /\ up' = [up EXCEPT !.pc = "open", !.queue = @ \ {r}, !.cur = r]
             /\ UNCHANGED row
          \/ /\ r \notin disk \/ "stat" \in Faults
             /\ MarkUploaded(r, FALSE) /\ up' = UpAfter(up.queue \ {r})
          \/ UNCHANGED row /\ up' = UpAfter(up.queue \ {r})
    BY <1>5, Listings DEF UploadStat
  <2>2. /\ r \in Recs /\ up.queue \ {r} \in SUBSET Recs
        /\ up.pc = "next" /\ phase[r] = "over" /\ ~row[r].uploaded
        /\ row[r].exists => row[r].complete
    BY <1>5, <1>0, <2>1 DEF UploadStat, TypeOK
  <2>3. CASE /\ up' = [up EXCEPT !.pc = "open", !.queue = @ \ {r}, !.cur = r]
             /\ UNCHANGED row
    <3>1. up'.pc = "open" /\ up'.queue = up.queue \ {r} /\ up'.cur = r
      BY <1>0, <2>3 DEF TypeOK
    <3>. QED BY <1>5, <1>0, <2>2, <2>3, <3>1 DEF UploadStat, TypeOK
  <2>4. CASE /\ r \notin disk \/ "stat" \in Faults
             /\ MarkUploaded(r, FALSE) /\ up' = UpAfter(up.queue \ {r})
    <3>1. up'.pc \in {"idle", "next"} /\ up'.queue = up.queue \ {r}
      BY <1>0, <2>2, <2>4, UpAfterType
    <3>2. \A q \in Recs : q # r => row'[q] = row[q]
      BY <1>0, <2>2, <2>4, MarkUploadedRow DEF OthersKept
    <3>3. \/ ~row[r].exists /\ row'[r] = row[r]
          \/ /\ row[r].exists /\ row'[r].exists
             /\ row'[r].complete = row[r].complete
             /\ row'[r].uploaded /\ ~row'[r].key
             /\ row'[r].localRemoved = row[r].localRemoved
      BY <1>0, <2>2, <2>4, MarkUploadedRow
    <3>4. UNCHANGED <<disk, s3, phase, ret, del, interrupted, crashes>>
      BY <1>5 DEF UploadStat
    <3>5. RowsFollowRecorder' /\ HeldAreOver'
      BY <1>0, <2>2, <3>1, <3>2, <3>3, <3>4 DEF TypeOK
    <3>6. UploadCustody' /\ UnlinkAfterMark'
      BY <1>0, <2>2, <3>1, <3>2, <3>3, <3>4 DEF TypeOK
    <3>7. SnapshotsTrue' /\ DeletersUnlinkFirst' /\ KeyNamesObject'
      BY <1>0, <2>2, <3>2, <3>3, <3>4 DEF TypeOK
    <3>8. UploadedOrGone'
      BY <1>0, <2>2, <2>4, <3>2, <3>3, <3>4 DEF TypeOK
    <3>9. "mark" \notin Faults => LocalRemovedIsArchived' /\ ListedClipPlayable'
      BY <1>0, <2>2, <3>2, <3>3, <3>4 DEF TypeOK
    <3> HIDE DEF RowsFollowRecorder, HeldAreOver, UploadCustody, UnlinkAfterMark,
          SnapshotsTrue, DeletersUnlinkFirst, UploadedOrGone, KeyNamesObject,
          LocalRemovedIsArchived, ListedClipPlayable
    <3>. QED BY <1>0, <3>5, <3>6, <3>7, <3>8, <3>9
  <2>5. CASE UNCHANGED row /\ up' = UpAfter(up.queue \ {r})
    <3>1. up'.pc \in {"idle", "next"} /\ up'.queue = up.queue \ {r}
      BY <1>0, <2>2, <2>5, UpAfterType
    <3>2. UNCHANGED <<disk, s3, row, phase, ret, del, interrupted, crashes>>
      BY <1>5, <2>5 DEF UploadStat
    <3>3. RowsFollowRecorder' /\ HeldAreOver'
      BY <1>0, <2>2, <3>1, <3>2 DEF TypeOK
    <3>4. UploadCustody' /\ UnlinkAfterMark'
      BY <1>0, <2>2, <3>1, <3>2 DEF TypeOK
    <3>5. SnapshotsTrue' /\ DeletersUnlinkFirst' /\ KeyNamesObject'
      BY <1>0, <3>2 DEF TypeOK
    <3>6. UploadedOrGone'
      BY <1>0, <3>2 DEF TypeOK
    <3>7. "mark" \notin Faults => LocalRemovedIsArchived' /\ ListedClipPlayable'
      BY <1>0, <3>2 DEF TypeOK
    <3> HIDE DEF RowsFollowRecorder, HeldAreOver, UploadCustody, UnlinkAfterMark,
          SnapshotsTrue, DeletersUnlinkFirst, UploadedOrGone, KeyNamesObject,
          LocalRemovedIsArchived, ListedClipPlayable
    <3>. QED BY <1>0, <3>3, <3>4, <3>5, <3>6, <3>7
  <2>. QED BY <2>1, <2>3, <2>4, <2>5
<1>6. CASE UploadOpen
  BY <1>6, <1>0, UpAfterType DEF UploadOpen, TypeOK
<1>7. CASE UploadDone
  BY <1>7, <1>0 DEF UploadDone, TypeOK
<1>8. CASE UploadFails
  BY <1>8, <1>0, UpAfterType DEF UploadFails, TypeOK
<1>9. CASE UploadMark
  <2>1. up.cur \in Recs /\ up.queue \in SUBSET Recs
    BY <1>9, <1>0 DEF UploadMark, TypeOK
  <2>2. /\ up'.pc \in {"idle", "next", "unlink"}
        /\ up'.queue = up.queue
        /\ up'.pc = "unlink" => up'.cur = up.cur
    BY <1>9, <1>0, <2>1, UpAfterType DEF UploadMark, TypeOK
  <2>3. \A q \in Recs : q # up.cur => row'[q] = row[q]
    BY <1>9, <1>0, <2>1, MarkUploadedRow DEF UploadMark, OthersKept
  <2>4. \/ /\ row'[up.cur] = row[up.cur]
           /\ row[up.cur].exists => "mark" \in Faults
        \/ /\ row[up.cur].exists /\ row'[up.cur].exists
           /\ row'[up.cur].complete = row[up.cur].complete
           /\ row'[up.cur].uploaded /\ row'[up.cur].key
           /\ row'[up.cur].localRemoved = row[up.cur].localRemoved
    BY <1>9, <1>0, <2>1, MarkUploadedRow DEF UploadMark
  <2>. QED BY <1>9, <1>0, <2>1, <2>2, <2>3, <2>4 DEF UploadMark, TypeOK
<1>10. CASE UploadUnlink
  BY <1>10, <1>0, UpAfterType DEF UploadUnlink, TypeOK
<1>11. CASE UploadFlag
  BY <1>11, <1>0, UpAfterType, MarkLocalRemovedRow DEF UploadFlag, TypeOK, OthersKept
<1>12. CASE RetentionTick
  BY <1>12, <1>0 DEF RetentionTick, RetIdle, TypeOK
<1>13. ASSUME RetentionAge \/ RetentionUntil PROVE Custody'
  <2>1. \/ ret' = RetIdle
        \/ \E queue \in SUBSET OldestComplete(ret.only) : List(queue)
    BY <1>13, Listings DEF RetentionAge, RetentionUntil
  <2>2. \/ ret'.pc = "idle" /\ ret'.queue = {} /\ ret'.archived = {} /\ ~ret'.only
        \/ /\ ret'.pc \in {"until", "unlink"} /\ ret'.only = ret.only
           /\ ret'.queue \subseteq OldestComplete(ret.only)
           /\ ret'.pc = "unlink" => ret'.cur \in OldestComplete(ret.only)
           /\ \A r \in ret'.archived : r \in OldestComplete(ret.only) /\ Archived(r)
    <3>1. CASE ret' = RetIdle
      BY <3>1 DEF RetIdle
    <3>2. ASSUME NEW queue \in SUBSET OldestComplete(ret.only), List(queue)
          PROVE  /\ ret'.pc \in {"until", "unlink"} /\ ret'.only = ret.only
                 /\ ret'.queue \subseteq queue
                 /\ ret'.pc = "unlink" => ret'.cur \in queue
                 /\ \A r \in ret'.archived : r \in queue /\ Archived(r)
      <4> DEFINE archived == {r \in queue : Archived(r)}
      <4>1. queue \in SUBSET Recs /\ archived \in SUBSET Recs /\ Take(queue, archived)
        BY <3>2, Listings DEF List
      <4>2. \A r \in archived : r \in queue /\ Archived(r)
        OBVIOUS
      <4> HIDE DEF archived
      <4>. QED BY <1>0, <3>2, <4>1, <4>2, TakeType
    <3>. QED BY <2>1, <3>1, <3>2
  <2>3. RetHolds' \subseteq OldestComplete(ret.only) /\ (ret'.only => ret.only)
    BY <2>2
  <2>4. UNCHANGED <<disk, s3, row, phase, up, del, interrupted, crashes>>
        /\ ret.pc \in {"age", "until"} /\ ret'.pc # "row"
    BY <1>13, <2>2 DEF RetentionAge, RetentionUntil
  <2>. QED BY <1>0, <2>2, <2>3, <2>4 DEF OldestComplete, TypeOK
<1>14. CASE RetentionUnlink
  BY <1>14, <1>0 DEF RetentionUnlink, TypeOK
<1>15. CASE RetentionRow
  <2>1. ret.cur \in Recs /\ ret.pc = "row" /\ ret.cur \notin disk
        /\ ret.queue \in SUBSET Recs /\ ret.archived \in SUBSET Recs
        /\ Take(ret.queue, ret.archived)
        /\ UNCHANGED <<disk, s3, phase, up, del, interrupted, crashes>>
    BY <1>15, <1>0 DEF RetentionRow, TypeOK
  <2>2. /\ ret'.pc \in {"until", "unlink"} /\ ret'.only = ret.only
        /\ ret'.pc = "unlink" => ret'.cur \in ret.queue
        /\ ret'.queue \subseteq ret.queue
        /\ ret'.archived \subseteq ret.archived
    BY <1>0, <2>1, TakeType
  <2>3. \A q \in Recs : q # ret.cur => row'[q] = row[q]
    BY <1>15, <1>0, <2>1, MarkLocalRemovedRow, DeleteRow DEF RetentionRow, OthersKept
  <2>4. \/ row'[ret.cur] = NoRow
        \/ row'[ret.cur] = row[ret.cur] /\ ~row[ret.cur].exists
        \/ /\ ret.cur \in ret.archived
           /\ row[ret.cur].exists /\ row'[ret.cur].exists
           /\ row'[ret.cur].complete = row[ret.cur].complete
           /\ row'[ret.cur].uploaded = row[ret.cur].uploaded
           /\ row'[ret.cur].key = row[ret.cur].key
    BY <1>15, <1>0, <2>1, MarkLocalRemovedRow, DeleteRow DEF RetentionRow
  <2>5. RetHolds' \subseteq ret.queue
    BY <2>2
  <2>. QED BY <1>0, <2>1, <2>2, <2>3, <2>4, <2>5 DEF TypeOK, NoRow
<1>16. CASE RetentionFails
  BY <1>16, <1>0 DEF RetentionFails, RetIdle, TypeOK
<1>17. ASSUME NEW r \in Recs, ApiDelete(r) PROVE Custody'
  BY <1>17, <1>0 DEF ApiDelete, TypeOK
<1>18. CASE ApiUnlink
  BY <1>18, <1>0 DEF ApiUnlink, TypeOK
<1>19. CASE ApiRow
  BY <1>19, <1>0, DeleteRow DEF ApiRow, DelIdle, TypeOK, OthersKept, NoRow
<1>20. CASE ApiFails
  BY <1>20, <1>0 DEF ApiFails, DelIdle, TypeOK
<1>21. CASE Crash
  BY <1>21, <1>0 DEF Crash, UpIdle, RetIdle, DelIdle, TypeOK
<1>22. CASE UNCHANGED vars
  BY <1>22, <1>0 DEF vars
<1> HIDE DEF Custody
<1>. QED
  BY <1>1, <1>2, <1>3, <1>4, <1>5, <1>6, <1>7, <1>8, <1>9, <1>10, <1>11, <1>12, <1>13,
     <1>14, <1>15, <1>16, <1>17, <1>18, <1>19, <1>20, <1>21, <1>22
  DEF Next, Record, Upload, UploadStep, Retain, Api

LEMMA CustodyInvariant == Spec => []Custody
  BY CustodyInitially, CustodyPreserved, PTL DEF Spec

-----------------------------------------------------------------------------
(***************************************************************************)
(* The properties of the runs.                                             *)
(***************************************************************************)

\* A row that names an S3 key names an object that is there, whatever fails.
THEOREM KeysNameObjects == Spec => []KeyNamesObject
<1>1. Custody => KeyNamesObject
  BY DEF Custody
<1>. QED BY <1>1, CustodyInvariant, PTL

\* As long as MarkUploaded itself never fails after an upload, a row that says the
\* local file was removed belongs to a clip that is preserved on S3.
THEOREM LocalRemovedMeansArchived ==
  ASSUME "mark" \notin Faults
  PROVE  Spec => []LocalRemovedIsArchived
<1>1. Custody => LocalRemovedIsArchived
  BY DEF Custody
<1>. QED BY <1>1, CustodyInvariant, PTL

\* Under the same assumption every listed clip can be played, unless its deletion is
\* under way or was cut off.
THEOREM ListedClipsPlay ==
  ASSUME "mark" \notin Faults
  PROVE  Spec => []ListedClipPlayable
<1>1. Custody => ListedClipPlayable
  BY DEF Custody
<1>. QED BY <1>1, CustodyInvariant, PTL

\* No worker ever unlinks the file of a clip that is being written.
THEOREM OpenClipsUntouched == Spec => OpenClipUntouched
<1>1. Custody /\ [Next]_vars =>
        [\A r \in Recs :
           (phase[r] \in {"file", "writing"} /\ r \in disk /\ r \notin disk')
             => del.pc = "unlink" /\ del.cur = r]_vars
  <2> SUFFICES ASSUME Custody, [Next]_vars, NEW r \in Recs,
                      phase[r] \in {"file", "writing"}, r \in disk, r \notin disk'
               PROVE  del.pc = "unlink" /\ del.cur = r
    OBVIOUS
  <2>1. \/ UploadUnlink
        \/ RetentionUnlink
        \/ ApiUnlink
    BY DEF Next, Record, Upload, UploadStep, Retain, Api, vars, OpenFile, SegmentStarted,
           SegmentFinalized, UploadTick, UploadStat, UploadOpen, UploadMark, UploadFlag,
           UploadDone, UploadFails, RetentionTick, RetentionAge, RetentionUntil,
           RetentionRow, RetentionFails, ApiDelete, ApiRow, ApiFails, Crash
  <2>2. ~UploadUnlink /\ ~RetentionUnlink
    BY DEF Custody, HeldAreOver, UpHolds, RetHolds, UploadUnlink, RetentionUnlink
  <2>3. CASE ApiUnlink
    BY <2>3 DEF ApiUnlink
  <2>. QED BY <2>1, <2>2, <2>3
<1>. QED BY <1>1, CustodyInvariant, PTL DEF Spec, OpenClipUntouched

\* As long as os.Stat finds every file that is there, retention limited to uploaded
\* recordings never unlinks the only copy of a clip.
THEOREM OnlyBackedUpDeletedHolds ==
  ASSUME "stat" \notin Faults
  PROVE  Spec => OnlyBackedUpDeleted
<1>1. Custody /\ [Next]_vars =>
        [\A r \in Recs :
           (ret.pc = "unlink" /\ ret.only /\ ret'.pc = "row" /\ r \in disk \ disk')
             => r \in s3]_vars
  <2> SUFFICES ASSUME Custody, [Next]_vars, NEW r \in Recs,
                      ret.pc = "unlink", ret.only, ret'.pc = "row", r \in disk \ disk'
               PROVE  r \in s3
    OBVIOUS
  <2>1. RetentionUnlink
    BY DEF Next, Record, Upload, UploadStep, Retain, Api, vars, OpenFile, SegmentStarted,
           SegmentFinalized, UploadTick, UploadStat, UploadOpen, UploadMark, UploadFlag,
           UploadDone, UploadFails, UploadUnlink, RetentionTick, RetentionAge,
           RetentionUntil, RetentionRow, RetentionFails, RetIdle, ApiDelete, ApiUnlink,
           ApiRow, ApiFails, Crash
  <2>. QED BY <2>1 DEF Custody, UploadedOrGone, RetHolds, RetentionUnlink
<1>. QED BY <1>1, CustodyInvariant, PTL DEF Spec, OnlyBackedUpDeleted

=============================================================================
