-------------------------- MODULE RecordingsProofs --------------------------
(***************************************************************************)
(* The rows, the objects and erasure, for any questions and any number of  *)
(* concurrent requests. Each lemma keeps one conjunct of IInv through a    *)
(* step of one request; the participant's own steps touch none of them.    *)
(***************************************************************************)
EXTENDS Recordings, TLAPS

\* Every step of a request keeps the types.
LEMMA TypeStep ==
  ASSUME TypeOK, ControlState,
         NEW r \in Requests, Upload(r) \/ Delete(r) \/ Erase(r) \/ Die(r)
  PROVE  TypeOK'
<1>. USE RecordingsAssumption DEF TypeOK, At, Goto
<1>0. /\ tx[r] \in Tx /\ Rows \in SUBSET Requests
  BY DEF Rows
<1>1. CASE Upload(r)
  <2>1. CASE \E q \in Questions : SendUpload(r, q)
    <3>1. PICK q \in Questions : SendUpload(r, q)
      BY <2>1
    <3>2. [tx[r] EXCEPT !.pc = "find", !.question = q] \in Tx
      BY <1>0 DEF Tx
    <3>. QED
      BY <3>1, <3>2 DEF SendUpload
  <2>2. CASE FindExisting(r)
    <3>1. recording[tx[r].question] \in Requests \cup {None}
      BY <2>2 DEF FindExisting, ControlState
    <3>2. [tx[r] EXCEPT !.old = recording[tx[r].question],
                        !.pc = IF recording[tx[r].question] = None THEN "put" ELSE "free"] \in Tx
      BY <1>0, <3>1 DEF Tx
    <3>. QED
      BY <2>2, <3>2 DEF FindExisting
  <2>3. CASE FreeSlot(r)
    BY <2>3 DEF FreeSlot, Tx, ControlState
  <2>4. CASE PutObject(r)
    BY <2>4 DEF PutObject, Tx, ControlState
  <2>5. CASE PutFails(r)
    BY <2>5 DEF PutFails, Released, Tx, ControlState
  <2>6. CASE CommitUpload(r)
    BY <2>6 DEF CommitUpload, SlotFree, Released, Tx, ControlState
  <2>7. CASE CommitFails(r)
    BY <2>7 DEF CommitFails, Released, Tx, ControlState
  <2>8. CASE Cleanup(r)
    BY <2>8 DEF Cleanup, Uploaded, delete_audio, Tx, ControlState
  <2>9. CASE Refresh(r)
    BY <2>9 DEF Refresh, Tx, ControlState
  <2>10. CASE Sweep(r)
    BY <2>10 DEF Sweep, Swept, delete_audio, Tx, ControlState
  <2>. QED
    BY <1>1, <2>1, <2>2, <2>3, <2>4, <2>5, <2>6, <2>7, <2>8, <2>9, <2>10 DEF
       Upload
<1>2. CASE Delete(r)
  <2>1. CASE \E q \in Questions : SendDelete(r, q)
    <3>1. PICK q \in Questions : SendDelete(r, q)
      BY <2>1
    <3>2. [tx[r] EXCEPT !.pc = "drop", !.question = q, !.old = recording[q]] \in Tx
      BY <1>0 DEF Tx
    <3>. QED
      BY <3>1, <3>2 DEF SendDelete
  <2>2. CASE DropRow(r)
    BY <2>2 DEF DropRow, Tx, ControlState
  <2>. QED
    BY <1>2, <2>1, <2>2 DEF Delete
<1>3. CASE Erase(r)
  <2>1. CASE SendErase(r)
    <3>1. [tx[r] EXCEPT !.snap = person,
                        !.pc = IF person.erased THEN "done" ELSE "list"] \in Tx
      BY <1>0 DEF Tx
    <3>. QED
      BY <2>1, <3>1 DEF SendErase
  <2>2. CASE ListKeys(r)
    <3>1. [tx[r] EXCEPT !.keys = Rows, !.left = Rows, !.pc = "objects"] \in Tx
      BY <1>0 DEF Tx
    <3>. QED
      BY <2>2, <3>1 DEF ListKeys
  <2>3. CASE DeleteObject(r)
    BY <2>3 DEF DeleteObject, delete_audio, Tx, ControlState
  <2>4. CASE FindRows(r)
    <3>1. [tx[r] EXCEPT !.rows = Rows, !.pc = "erase"] \in Tx
      BY <1>0 DEF Tx
    <3>. QED
      BY <2>4, <3>1 DEF FindRows
  <2>5. CASE CommitErase(r)
    <3>1. Erased(tx[r].snap) \in Person
      BY <1>0 DEF Erased, FlushedColumn, Person, Tx
    <3>2. [q \in Questions |-> IF recording[q] \in ErasedRows(r) THEN None ELSE recording[q]]
            \in [Questions -> Requests \cup {None}]
      OBVIOUS
    <3>3. [tx[r] EXCEPT !.pc = "done"] \in Tx
      BY <1>0 DEF Tx
    <3>. QED
      BY <2>5, <3>1, <3>2, <3>3 DEF CommitErase
  <2>. QED
    BY <1>3, <2>1, <2>2, <2>3, <2>4, <2>5 DEF Erase
<1>4. CASE Die(r)
  BY <1>4 DEF Die, Released, Tx, ControlState
<1>. QED
  BY <1>1, <1>2, <1>3, <1>4

\* Every step of a request leaves it at a point its record fits.
LEMMA ControlStep ==
  ASSUME TypeOK, ControlState,
         NEW r \in Requests, Upload(r) \/ Delete(r) \/ Erase(r) \/ Die(r)
  PROVE  ControlState'
<1>. USE RecordingsAssumption DEF TypeOK, Tx, ControlState, At, Goto
<1>1. CASE Upload(r)
  <2>1. CASE \E q \in Questions : SendUpload(r, q)
    BY <2>1 DEF SendUpload, MayWrite
  <2>2. CASE FindExisting(r)
    BY <2>2 DEF FindExisting
  <2>3. CASE FreeSlot(r)
    BY <2>3 DEF FreeSlot
  <2>4. CASE PutObject(r)
    BY <2>4 DEF PutObject
  <2>5. CASE PutFails(r)
    BY <2>5 DEF PutFails, Released
  <2>6. CASE CommitUpload(r)
    BY <2>6 DEF CommitUpload, SlotFree, Released
  <2>7. CASE CommitFails(r)
    BY <2>7 DEF CommitFails, Released
  <2>8. CASE Cleanup(r)
    BY <2>8 DEF Cleanup, Uploaded, delete_audio
  <2>9. CASE Refresh(r)
    BY <2>9 DEF Refresh
  <2>10. CASE Sweep(r)
    BY <2>10 DEF Sweep, Swept, delete_audio
  <2>. QED
    BY <1>1, <2>1, <2>2, <2>3, <2>4, <2>5, <2>6, <2>7, <2>8, <2>9, <2>10 DEF
       Upload
<1>2. CASE Delete(r)
  <2>1. CASE \E q \in Questions : SendDelete(r, q)
    BY <2>1 DEF SendDelete, MayWrite
  <2>2. CASE DropRow(r)
    BY <2>2 DEF DropRow
  <2>. QED
    BY <1>2, <2>1, <2>2 DEF Delete
<1>3. CASE Erase(r)
  <2>1. CASE SendErase(r)
    BY <2>1 DEF SendErase
  <2>2. CASE ListKeys(r)
    BY <2>2 DEF ListKeys
  <2>3. CASE DeleteObject(r)
    BY <2>3 DEF DeleteObject, delete_audio
  <2>4. CASE FindRows(r)
    BY <2>4 DEF FindRows
  <2>5. CASE CommitErase(r)
    BY <2>5 DEF CommitErase, ErasedRows, Erased, FlushedColumn
  <2>. QED
    BY <1>3, <2>1, <2>2, <2>3, <2>4, <2>5 DEF Erase
<1>4. CASE Die(r)
  BY <1>4 DEF Die, Released
<1>. QED
  BY <1>1, <1>2, <1>3, <1>4

\* Keys are taken from rows only, and a key whose upload committed stays so.
LEMMA KeysStep ==
  ASSUME TypeOK, ControlState, KeysCommitted,
         NEW r \in Requests, Upload(r) \/ Delete(r) \/ Erase(r) \/ Die(r)
  PROVE  KeysCommitted'
<1>. USE RecordingsAssumption DEF TypeOK, Tx, ControlState, KeysCommitted,
   Final, Rows, At, Goto
<1>1. CASE Upload(r)
  <2>1. CASE \E q \in Questions : SendUpload(r, q)
    BY <2>1 DEF SendUpload, MayWrite
  <2>2. CASE FindExisting(r)
    BY <2>2 DEF FindExisting
  <2>3. CASE FreeSlot(r)
    BY <2>3 DEF FreeSlot
  <2>4. CASE PutObject(r)
    BY <2>4 DEF PutObject
  <2>5. CASE PutFails(r)
    BY <2>5 DEF PutFails, Released
  <2>6. CASE CommitUpload(r)
    BY <2>6 DEF CommitUpload, SlotFree, Released
  <2>7. CASE CommitFails(r)
    BY <2>7 DEF CommitFails, Released
  <2>8. CASE Cleanup(r)
    BY <2>8 DEF Cleanup, Uploaded, delete_audio
  <2>9. CASE Refresh(r)
    BY <2>9 DEF Refresh
  <2>10. CASE Sweep(r)
    BY <2>10 DEF Sweep, Swept, delete_audio
  <2>. QED
    BY <1>1, <2>1, <2>2, <2>3, <2>4, <2>5, <2>6, <2>7, <2>8, <2>9, <2>10 DEF
       Upload
<1>2. CASE Delete(r)
  <2>1. CASE \E q \in Questions : SendDelete(r, q)
    BY <2>1 DEF SendDelete, MayWrite
  <2>2. CASE DropRow(r)
    BY <2>2 DEF DropRow
  <2>. QED
    BY <1>2, <2>1, <2>2 DEF Delete
<1>3. CASE Erase(r)
  <2>1. CASE SendErase(r)
    BY <2>1 DEF SendErase
  <2>2. CASE ListKeys(r)
    BY <2>2 DEF ListKeys
  <2>3. CASE DeleteObject(r)
    BY <2>3 DEF DeleteObject, delete_audio
  <2>4. CASE FindRows(r)
    BY <2>4 DEF FindRows
  <2>5. CASE CommitErase(r)
    BY <2>5 DEF CommitErase, ErasedRows, Erased, FlushedColumn
  <2>. QED
    BY <1>3, <2>1, <2>2, <2>3, <2>4, <2>5 DEF Erase
<1>4. CASE Die(r)
  BY <1>4 DEF Die, Released
<1>. QED
  BY <1>1, <1>2, <1>3, <1>4

\* Nobody deletes the object of an upload that has not committed.
LEMMA ObjectStep ==
  ASSUME TypeOK, ControlState, KeysCommitted, CommitsObject,
         NEW r \in Requests, Upload(r) \/ Delete(r) \/ Erase(r) \/ Die(r)
  PROVE  CommitsObject'
<1>. USE RecordingsAssumption DEF TypeOK, Tx, ControlState, KeysCommitted,
   CommitsObject, Final, Rows, At, Goto
<1>1. CASE Upload(r)
  <2>1. CASE \E q \in Questions : SendUpload(r, q)
    BY <2>1 DEF SendUpload, MayWrite
  <2>2. CASE FindExisting(r)
    BY <2>2 DEF FindExisting
  <2>3. CASE FreeSlot(r)
    BY <2>3 DEF FreeSlot
  <2>4. CASE PutObject(r)
    BY <2>4 DEF PutObject
  <2>5. CASE PutFails(r)
    BY <2>5 DEF PutFails, Released
  <2>6. CASE CommitUpload(r)
    BY <2>6 DEF CommitUpload, SlotFree, Released
  <2>7. CASE CommitFails(r)
    BY <2>7 DEF CommitFails, Released
  <2>8. CASE Cleanup(r)
    BY <2>8 DEF Cleanup, Uploaded, delete_audio
  <2>9. CASE Refresh(r)
    BY <2>9 DEF Refresh
  <2>10. CASE Sweep(r)
    BY <2>10 DEF Sweep, Swept, delete_audio
  <2>. QED
    BY <1>1, <2>1, <2>2, <2>3, <2>4, <2>5, <2>6, <2>7, <2>8, <2>9, <2>10 DEF
       Upload
<1>2. CASE Delete(r)
  <2>1. CASE \E q \in Questions : SendDelete(r, q)
    BY <2>1 DEF SendDelete, MayWrite
  <2>2. CASE DropRow(r)
    BY <2>2 DEF DropRow
  <2>. QED
    BY <1>2, <2>1, <2>2 DEF Delete
<1>3. CASE Erase(r)
  <2>1. CASE SendErase(r)
    BY <2>1 DEF SendErase
  <2>2. CASE ListKeys(r)
    BY <2>2 DEF ListKeys
  <2>3. CASE DeleteObject(r)
    BY <2>3 DEF DeleteObject, delete_audio
  <2>4. CASE FindRows(r)
    BY <2>4 DEF FindRows
  <2>5. CASE CommitErase(r)
    BY <2>5 DEF CommitErase, ErasedRows, Erased, FlushedColumn
  <2>. QED
    BY <1>3, <2>1, <2>2, <2>3, <2>4, <2>5 DEF Erase
<1>4. CASE Die(r)
  BY <1>4 DEF Die, Released
<1>. QED
  BY <1>1, <1>2, <1>3, <1>4

\* While a row is locked nobody else changes it.
LEMMA LockStep ==
  ASSUME TypeOK, ControlState, LockHolder,
         NEW r \in Requests, Upload(r) \/ Delete(r) \/ Erase(r) \/ Die(r)
  PROVE  LockHolder'
<1>. USE RecordingsAssumption DEF TypeOK, Tx, ControlState, LockHolder, Rows,
   At, Goto
<1>1. CASE Upload(r)
  <2>1. CASE \E q \in Questions : SendUpload(r, q)
    BY <2>1 DEF SendUpload, MayWrite
  <2>2. CASE FindExisting(r)
    BY <2>2 DEF FindExisting
  <2>3. CASE FreeSlot(r)
    BY <2>3 DEF FreeSlot
  <2>4. CASE PutObject(r)
    BY <2>4 DEF PutObject
  <2>5. CASE PutFails(r)
    BY <2>5 DEF PutFails, Released
  <2>6. CASE CommitUpload(r)
    BY <2>6 DEF CommitUpload, SlotFree, Released
  <2>7. CASE CommitFails(r)
    BY <2>7 DEF CommitFails, Released
  <2>8. CASE Cleanup(r)
    BY <2>8 DEF Cleanup, Uploaded, delete_audio
  <2>9. CASE Refresh(r)
    BY <2>9 DEF Refresh
  <2>10. CASE Sweep(r)
    BY <2>10 DEF Sweep, Swept, delete_audio
  <2>. QED
    BY <1>1, <2>1, <2>2, <2>3, <2>4, <2>5, <2>6, <2>7, <2>8, <2>9, <2>10 DEF
       Upload
<1>2. CASE Delete(r)
  <2>1. CASE \E q \in Questions : SendDelete(r, q)
    BY <2>1 DEF SendDelete, MayWrite
  <2>2. CASE DropRow(r)
    BY <2>2 DEF DropRow
  <2>. QED
    BY <1>2, <2>1, <2>2 DEF Delete
<1>3. CASE Erase(r)
  <2>1. CASE SendErase(r)
    BY <2>1 DEF SendErase
  <2>2. CASE ListKeys(r)
    BY <2>2 DEF ListKeys
  <2>3. CASE DeleteObject(r)
    BY <2>3 DEF DeleteObject, delete_audio
  <2>4. CASE FindRows(r)
    BY <2>4 DEF FindRows
  <2>5. CASE CommitErase(r)
    BY <2>5 DEF CommitErase, ErasedRows, Erased, FlushedColumn
  <2>. QED
    BY <1>3, <2>1, <2>2, <2>3, <2>4, <2>5 DEF Erase
<1>4. CASE Die(r)
  BY <1>4 DEF Die, Released
<1>. QED
  BY <1>1, <1>2, <1>3, <1>4

\* A request begins to sweep when its key has left the row, and no key comes back.
LEMMA SweptStep ==
  ASSUME TypeOK, ControlState, KeysCommitted, SweptHasNoRow,
         NEW r \in Requests, Upload(r) \/ Delete(r) \/ Erase(r) \/ Die(r)
  PROVE  SweptHasNoRow'
<1>. USE RecordingsAssumption DEF TypeOK, Tx, ControlState, KeysCommitted,
   SweptHasNoRow, Final, Rows, At, Goto
<1>1. CASE Upload(r)
  <2>1. CASE \E q \in Questions : SendUpload(r, q)
    BY <2>1 DEF SendUpload, MayWrite
  <2>2. CASE FindExisting(r)
    BY <2>2 DEF FindExisting
  <2>3. CASE FreeSlot(r)
    BY <2>3 DEF FreeSlot
  <2>4. CASE PutObject(r)
    BY <2>4 DEF PutObject
  <2>5. CASE PutFails(r)
    BY <2>5 DEF PutFails, Released
  <2>6. CASE CommitUpload(r)
    BY <2>6 DEF CommitUpload, SlotFree, Released
  <2>7. CASE CommitFails(r)
    BY <2>7 DEF CommitFails, Released
  <2>8. CASE Cleanup(r)
    BY <2>8 DEF Cleanup, Uploaded, delete_audio
  <2>9. CASE Refresh(r)
    BY <2>9 DEF Refresh
  <2>10. CASE Sweep(r)
    BY <2>10 DEF Sweep, Swept, delete_audio
  <2>. QED
    BY <1>1, <2>1, <2>2, <2>3, <2>4, <2>5, <2>6, <2>7, <2>8, <2>9, <2>10 DEF
       Upload
<1>2. CASE Delete(r)
  <2>1. CASE \E q \in Questions : SendDelete(r, q)
    BY <2>1 DEF SendDelete, MayWrite
  <2>2. CASE DropRow(r)
    BY <2>2 DEF DropRow
  <2>. QED
    BY <1>2, <2>1, <2>2 DEF Delete
<1>3. CASE Erase(r)
  <2>1. CASE SendErase(r)
    BY <2>1 DEF SendErase
  <2>2. CASE ListKeys(r)
    BY <2>2 DEF ListKeys
  <2>3. CASE DeleteObject(r)
    BY <2>3 DEF DeleteObject, delete_audio
  <2>4. CASE FindRows(r)
    BY <2>4 DEF FindRows
  <2>5. CASE CommitErase(r)
    BY <2>5 DEF CommitErase, ErasedRows, Erased, FlushedColumn
  <2>. QED
    BY <1>3, <2>1, <2>2, <2>3, <2>4, <2>5 DEF Erase
<1>4. CASE Die(r)
  BY <1>4 DEF Die, Released
<1>. QED
  BY <1>1, <1>2, <1>3, <1>4

\* The row of a commit has its object, and an object is deleted after its row or
\* by an erasure that listed it.
LEMMA RowStep ==
  ASSUME TypeOK, ControlState, KeysCommitted, CommitsObject, SweptHasNoRow,
     RowHasObject,
         NEW r \in Requests, Upload(r) \/ Delete(r) \/ Erase(r) \/ Die(r)
  PROVE  RowHasObject'
<1>. USE RecordingsAssumption DEF TypeOK, Tx, ControlState, KeysCommitted,
   CommitsObject, SweptHasNoRow, RowHasObject, ErasureHas, Final, Rows, At,
   Goto
<1>1. CASE Upload(r)
  <2>1. CASE \E q \in Questions : SendUpload(r, q)
    BY <2>1 DEF SendUpload, MayWrite
  <2>2. CASE FindExisting(r)
    BY <2>2 DEF FindExisting
  <2>3. CASE FreeSlot(r)
    BY <2>3 DEF FreeSlot
  <2>4. CASE PutObject(r)
    BY <2>4 DEF PutObject
  <2>5. CASE PutFails(r)
    BY <2>5 DEF PutFails, Released
  <2>6. CASE CommitUpload(r)
    BY <2>6 DEF CommitUpload, SlotFree, Released
  <2>7. CASE CommitFails(r)
    BY <2>7 DEF CommitFails, Released
  <2>8. CASE Cleanup(r)
    BY <2>8 DEF Cleanup, Uploaded, delete_audio
  <2>9. CASE Refresh(r)
    BY <2>9 DEF Refresh
  <2>10. CASE Sweep(r)
    BY <2>10 DEF Sweep, Swept, delete_audio
  <2>. QED
    BY <1>1, <2>1, <2>2, <2>3, <2>4, <2>5, <2>6, <2>7, <2>8, <2>9, <2>10 DEF
       Upload
<1>2. CASE Delete(r)
  <2>1. CASE \E q \in Questions : SendDelete(r, q)
    BY <2>1 DEF SendDelete, MayWrite
  <2>2. CASE DropRow(r)
    BY <2>2 DEF DropRow
  <2>. QED
    BY <1>2, <2>1, <2>2 DEF Delete
<1>3. CASE Erase(r)
  <2>1. CASE SendErase(r)
    BY <2>1 DEF SendErase
  <2>2. CASE ListKeys(r)
    BY <2>2 DEF ListKeys
  <2>3. CASE DeleteObject(r)
    BY <2>3 DEF DeleteObject, delete_audio
  <2>4. CASE FindRows(r)
    BY <2>4 DEF FindRows
  <2>5. CASE CommitErase(r)
    BY <2>5 DEF CommitErase, ErasedRows, Erased, FlushedColumn
  <2>. QED
    BY <1>3, <2>1, <2>2, <2>3, <2>4, <2>5 DEF Erase
<1>4. CASE Die(r)
  BY <1>4 DEF Die, Released
<1>. QED
  BY <1>1, <1>2, <1>3, <1>4

\* A request that is over stays as it is, and a failed DELETE is history.
LEMMA AbandonedStays ==
  ASSUME TypeOK, ControlState,
         NEW r \in Requests, Upload(r) \/ Delete(r) \/ Erase(r) \/ Die(r),
         NEW key, Abandoned(key)
  PROVE  Abandoned(key)'
<1>. USE DEF TypeOK, Tx, ControlState, At, Goto
<1>1. undeleted \subseteq undeleted'
  BY DEF Upload, SendUpload, FindExisting, FreeSlot, PutObject, PutFails, CommitUpload,
     CommitFails, Cleanup, Refresh, Sweep, Delete, SendDelete, DropRow, Erase, SendErase,
     ListKeys, DeleteObject, FindRows, CommitErase, Die, delete_audio
<1>2. /\ \A k \in Requests : k # r => tx'[k] = tx[k]
      /\ tx[r].pc \notin {"done", "raised", "died"}
  <2>1. CASE Upload(r)
    BY <2>1 DEF Upload, SendUpload, FindExisting, FreeSlot, PutObject, PutFails, CommitUpload,
       CommitFails, Cleanup, Refresh, Sweep
  <2>2. CASE Delete(r)
    BY <2>2 DEF Delete, SendDelete, DropRow
  <2>3. CASE Erase(r)
    BY <2>3 DEF Erase, SendErase, ListKeys, DeleteObject, FindRows, CommitErase
  <2>4. CASE Die(r)
    BY <2>4 DEF Die
  <2>. QED
    BY <2>1, <2>2, <2>3, <2>4
<1>3. ASSUME tx[r].rows # {}
      PROVE  tx'[r].rows = tx[r].rows /\ tx'[r].keys = tx[r].keys
  <2>1. tx[r].pc = "erase"
    BY <1>2, <1>3
  <2>2. CommitErase(r) \/ Die(r)
    BY <2>1 DEF Upload, SendUpload, FindExisting, FreeSlot, PutObject, PutFails, CommitUpload,
       CommitFails, Cleanup, Refresh, Sweep, Delete, SendDelete, DropRow, Erase, SendErase,
       ListKeys, DeleteObject, FindRows
  <2>. QED
    BY <2>2 DEF CommitErase, Die
<1>. QED
  BY <1>1, <1>2, <1>3 DEF Abandoned

\* A key that leaves its row is in the hands of the request that took it out.
LEMMA OrphanStep ==
  ASSUME TypeOK, ControlState, KeysCommitted, LockHolder, NoOrphanYet, ErasureProgress,
         NEW r \in Requests, Upload(r) \/ Delete(r) \/ Erase(r) \/ Die(r)
  PROVE  NoOrphanYet'
<1>. USE RecordingsAssumption DEF TypeOK, Tx, Person, ControlState,
   KeysCommitted, LockHolder, NoOrphanYet, Final, Rows, At, Goto
<1>a. \A key : Abandoned(key) => Abandoned(key)'
  BY AbandonedStays
<1>1. CASE Upload(r)
  <2>1. CASE \E q \in Questions : SendUpload(r, q)
    BY <1>a, <2>1 DEF SendUpload, MayWrite
  <2>2. CASE FindExisting(r)
    BY <1>a, <2>2 DEF FindExisting
  <2>3. CASE FreeSlot(r)
    <3>1. \A k \in Requests : tx[k].pc # "free" => tx'[k] = tx[k]
      BY <1>a, <2>3 DEF FreeSlot
    <3>2. \A k \in Requests : tx'[k].old = tx[k].old
      BY <1>a, <2>3 DEF FreeSlot
    <3>3. UNCHANGED <<person, recording, objects>>
      BY <1>a, <2>3 DEF FreeSlot
    <3>. QED
      BY <1>a, <3>1, <3>2, <3>3
  <2>4. CASE PutObject(r)
    BY <1>a, <2>4 DEF PutObject
  <2>5. CASE PutFails(r)
    BY <1>a, <2>5 DEF PutFails, Released
  <2>6. CASE CommitUpload(r)
    BY <1>a, <2>6 DEF CommitUpload, SlotFree, Released
  <2>7. CASE CommitFails(r)
    BY <1>a, <2>7 DEF CommitFails, Released
  <2>8. CASE Cleanup(r)
    BY <1>a, <2>8 DEF Cleanup, Uploaded, delete_audio, Abandoned
  <2>9. CASE Refresh(r)
    BY <1>a, <2>9 DEF Refresh, Abandoned
  <2>10. CASE Sweep(r)
    BY <1>a, <2>10 DEF Sweep, Swept, delete_audio, Abandoned
  <2>. QED
    BY <1>1, <2>1, <2>2, <2>3, <2>4, <2>5, <2>6, <2>7, <2>8, <2>9, <2>10 DEF
       Upload
<1>2. CASE Delete(r)
  <2>1. CASE \E q \in Questions : SendDelete(r, q)
    BY <1>a, <2>1 DEF SendDelete, MayWrite
  <2>2. CASE DropRow(r)
    BY <1>a, <2>2 DEF DropRow
  <2>. QED
    BY <1>2, <2>1, <2>2 DEF Delete
<1>3. CASE Erase(r)
  <2>1. CASE SendErase(r)
    BY <1>a, <2>1 DEF SendErase
  <2>2. CASE ListKeys(r)
    BY <1>a, <2>2 DEF ListKeys
  <2>3. CASE DeleteObject(r)
    BY <1>a, <2>3 DEF DeleteObject, delete_audio
  <2>4. CASE FindRows(r)
    BY <1>a, <2>4 DEF FindRows
  <2>5. CASE CommitErase(r)
    <3>1. /\ \A k \in Requests : k # r => tx'[k] = tx[k]
          /\ tx'[r] = [tx[r] EXCEPT !.pc = "done"] /\ tx[r].pc = "erase"
          /\ UNCHANGED <<objects, undeleted>>
      BY <2>5 DEF CommitErase
    <3>2. \A key \in Rows : key \notin Rows' => key \in tx[r].rows
      BY <2>5 DEF CommitErase, ErasedRows
    <3>3. ASSUME NEW key \in objects, key \in tx[r].rows
          PROVE  Abandoned(key)'
      <4>1. CASE key \in tx[r].keys
        BY <3>1, <3>3, <4>1 DEF ErasureProgress, Abandoned
      <4>2. CASE key \notin tx[r].keys
        BY <3>1, <3>3, <4>2 DEF Abandoned
      <4>. QED
        BY <4>1, <4>2
    <3>4. \A key \in objects : key \in Rows' \/ tx'[key].pc \in {"commit", "cleanup"}
             \/ (\E k \in Requests : tx'[k].old = key /\ tx'[k].pc \in {"refresh", "sweep"})
             \/ Abandoned(key)'
      BY <1>a, <3>1, <3>2, <3>3
    <3>. QED
      BY <3>1, <3>4
  <2>. QED
    BY <1>3, <2>1, <2>2, <2>3, <2>4, <2>5 DEF Erase
<1>4. CASE Die(r)
  BY <1>a, <1>4 DEF Die, Released, Abandoned
<1>. QED
  BY <1>1, <1>2, <1>3, <1>4

\* What an erasure deleted from the store is not put again, and the rows it
\* listed are among those its DELETE finds.
LEMMA ErasureStep ==
  ASSUME TypeOK, ControlState, KeysCommitted, ErasureProgress,
         NEW r \in Requests, Upload(r) \/ Delete(r) \/ Erase(r) \/ Die(r)
  PROVE  ErasureProgress'
<1>. USE RecordingsAssumption DEF TypeOK, Tx, ControlState, KeysCommitted,
   ErasureProgress, Final, Rows, At, Goto
<1>1. CASE Upload(r)
  <2>1. CASE \E q \in Questions : SendUpload(r, q)
    BY <2>1 DEF SendUpload, MayWrite
  <2>2. CASE FindExisting(r)
    BY <2>2 DEF FindExisting
  <2>3. CASE FreeSlot(r)
    BY <2>3 DEF FreeSlot
  <2>4. CASE PutObject(r)
    BY <2>4 DEF PutObject
  <2>5. CASE PutFails(r)
    BY <2>5 DEF PutFails, Released
  <2>6. CASE CommitUpload(r)
    BY <2>6 DEF CommitUpload, SlotFree, Released
  <2>7. CASE CommitFails(r)
    BY <2>7 DEF CommitFails, Released
  <2>8. CASE Cleanup(r)
    BY <2>8 DEF Cleanup, Uploaded, delete_audio
  <2>9. CASE Refresh(r)
    BY <2>9 DEF Refresh
  <2>10. CASE Sweep(r)
    BY <2>10 DEF Sweep, Swept, delete_audio
  <2>. QED
    BY <1>1, <2>1, <2>2, <2>3, <2>4, <2>5, <2>6, <2>7, <2>8, <2>9, <2>10 DEF
       Upload
<1>2. CASE Delete(r)
  <2>1. CASE \E q \in Questions : SendDelete(r, q)
    BY <2>1 DEF SendDelete, MayWrite
  <2>2. CASE DropRow(r)
    BY <2>2 DEF DropRow
  <2>. QED
    BY <1>2, <2>1, <2>2 DEF Delete
<1>3. CASE Erase(r)
  <2>1. CASE SendErase(r)
    BY <2>1 DEF SendErase
  <2>2. CASE ListKeys(r)
    BY <2>2 DEF ListKeys
  <2>3. CASE DeleteObject(r)
    BY <2>3 DEF DeleteObject, delete_audio
  <2>4. CASE FindRows(r)
    BY <2>4 DEF FindRows
  <2>5. CASE CommitErase(r)
    BY <2>5 DEF CommitErase, ErasedRows, Erased, FlushedColumn
  <2>. QED
    BY <1>3, <2>1, <2>2, <2>3, <2>4, <2>5 DEF Erase
<1>4. CASE Die(r)
  BY <1>4 DEF Die, Released
<1>. QED
  BY <1>1, <1>2, <1>3, <1>4

\* A step that leaves the requests, the rows and the store alone keeps everything but the types.
LEMMA QuietStep ==
  ASSUME IInv, UNCHANGED <<recording, rowLock, objects, undeleted, tx>>
  PROVE  /\ ControlState' /\ KeysCommitted' /\ CommitsObject' /\ LockHolder'
         /\ SweptHasNoRow' /\ RowHasObject' /\ NoOrphanYet' /\ ErasureProgress'
<1>0. Rows' = Rows /\ \A r : Final(r)' = Final(r) /\ ErasureHas(r)' = ErasureHas(r)
  BY DEF Rows, Final, ErasureHas
<1>1. ControlState'
  BY DEF IInv, ControlState
<1>2. KeysCommitted'
  BY DEF IInv, KeysCommitted, Final
<1>3. CommitsObject'
  BY DEF IInv, CommitsObject, At
<1>4. LockHolder'
  BY DEF IInv, LockHolder
<1>5. SweptHasNoRow'
  BY DEF IInv, SweptHasNoRow, At, Rows
<1>6. RowHasObject'
  BY DEF IInv, RowHasObject, ErasureHas
<1>7. NoOrphanYet'
  BY DEF IInv, NoOrphanYet, Abandoned, At, Rows
<1>8. ErasureProgress'
  BY DEF IInv, ErasureProgress, At, Rows
<1>. QED
  BY <1>1, <1>2, <1>3, <1>4, <1>5, <1>6, <1>7, <1>8

\* The invariant the four properties follow from.
THEOREM RecordingsInvariant == Spec => []IInv
<1>1. Init => IInv
  <2>. SUFFICES ASSUME Init PROVE IInv
    OBVIOUS
  <2>1. TypeOK
    BY DEF Init, TypeOK, Tx, Person, IdleTx, NewPerson
  <2>2. ControlState /\ KeysCommitted /\ CommitsObject /\ LockHolder
    BY DEF Init, IdleTx, ControlState, KeysCommitted, CommitsObject, LockHolder, At
  <2>3. SweptHasNoRow /\ RowHasObject /\ NoOrphanYet /\ ErasureProgress
    BY DEF Init, IdleTx, SweptHasNoRow, RowHasObject, NoOrphanYet,
       ErasureProgress, At
  <2>. QED
    BY <2>1, <2>2, <2>3 DEF IInv
<1>2. IInv /\ [Next]_vars => IInv'
  <2>. SUFFICES ASSUME IInv, [Next]_vars PROVE IInv'
    OBVIOUS
  <2>1. ASSUME NEW r \in Requests, Upload(r) \/ Delete(r) \/ Erase(r) \/ Die(r)
        PROVE  IInv'
    BY <2>1, TypeStep, ControlStep, KeysStep, ObjectStep, LockStep, SweptStep, RowStep,
       OrphanStep, ErasureStep DEF IInv
  <2>2. CASE SaveDraft \/ Submit
    <3>1. TypeOK'
      BY <2>2 DEF IInv, TypeOK, Person, SaveDraft, Submit
    <3>. QED
      BY <2>2, <3>1, QuietStep DEF IInv, SaveDraft, Submit
  <2>3. CASE UNCHANGED vars
    <3>1. TypeOK'
      BY <2>3 DEF IInv, TypeOK, vars
    <3>. QED
      BY <2>3, <3>1, QuietStep DEF IInv, vars
  <2>. QED
    BY <2>1, <2>2, <2>3 DEF Next
<1>. QED
  BY <1>1, <1>2, PTL DEF Spec

\* Every variable of Recordings keeps its type.
THEOREM RecordingsTypes == Spec => []TypeOK
<1>1. IInv => TypeOK
  BY DEF IInv
<1>. QED
  BY <1>1, RecordingsInvariant, PTL

\* No committed row points at nothing, unless an erasure is on its way to it
\* (delete_recording: "never a row pointing at nothing").
THEOREM RowsHaveObjects == Spec => []RowHasObject
<1>1. IInv => RowHasObject
  BY DEF IInv
<1>. QED
  BY <1>1, RecordingsInvariant, PTL

\* No object is left that neither a row nor a request knows of, but in the four
\* ways Abandoned names.
THEOREM OrphansAreAccounted == Spec => []NoOrphan
<1>1. IInv => NoOrphan
  <2>. SUFFICES ASSUME IInv, NEW key \in objects
                PROVE  key \in Rows \/ InHand(key) \/ Abandoned(key)
    BY DEF NoOrphan
  <2>1. \/ key \in Rows
        \/ tx[key].pc \in {"commit", "cleanup"}
        \/ \E r \in Requests : tx[r].old = key /\ tx[r].pc \in {"refresh", "sweep"}
        \/ Abandoned(key)
    BY DEF IInv, NoOrphanYet
  <2>. QED
    BY <2>1 DEF InHand
<1>. QED
  BY <1>1, RecordingsInvariant, PTL

\* A committed erasure leaves no row of what it listed, and no object but those
\* whose DELETE failed.
THEOREM ErasureTakesWhatItCan == Spec => []ErasesWhatItListed
<1>1. IInv => ErasesWhatItListed
  BY DEF IInv, ErasureProgress, ErasesWhatItListed, At
<1>. QED
  BY <1>1, RecordingsInvariant, PTL
=============================================================================
