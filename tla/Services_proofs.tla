--------------------------- MODULE Services_proofs ----------------------------
(***************************************************************************)
(* Theorems about Files: for any contents, sheets, rows and stops, what    *)
(* is cited is there, and the disk holds nothing but what a row holds or a *)
(* stop left.  And about the services together: whatever the interleaving, *)
(* what is proved of each one alone holds of the process that runs them.   *)
(***************************************************************************)
EXTENDS Services, Notifier_proofs, EcoleAccount_proofs, Statements_proofs

\* An identifier names one row, now and in the last export
OneRow(rows) == \A r, s \in rows : r.id = s.id => r = s

\* The last export is whole: what its links cite is in it
ExportIsWhole ==
    /\ OneRow(backup.files)
    /\ \A r \in backup.files : r.kind = "equipment"
    /\ \A l \in backup.links : \E r \in backup.files : r.id = l[2]

LinksCite == \A l \in links : \E r \in fileRows : r.kind = "equipment" /\ r.id = l[2]

\* A photo, saved or still in its form, is there unless a start pruned it or it
\* was deleted by its number
PhotosKept ==
    \A id \in (cited \union form) \ (forgotten \union erased) :
        \E r \in fileRows : r.kind \in OwnerKinds /\ r.id = id

BytesThere == \A r \in fileRows : r.sha \in disk \/ r.id \in missing \union rolledBack

\* The inductive invariant
FilesIInv ==
    /\ FilesTypeOK
    /\ OneRow(fileRows) /\ ExportIsWhole /\ LinksCite /\ PhotosKept
    /\ BytesThere /\ DiskIsHeld

-----------------------------------------------------------------------------
\* The identifier of a new row is one that nothing mentions.
LEMMA NextIsNew == room => nextId \in FileId /\ nextId \notin given
<1> SUFFICES ASSUME room PROVE nextId \in FileId /\ nextId \notin given
    OBVIOUS
<1> DEFINE T == FileId \ given
           R == OpToRel(<, Nat)
<1>1. T \subseteq Nat /\ T # {} /\ FileId \subseteq Nat
    BY FilesAssumption DEF room, FileId
<1>2. PICK x \in T : \A y \in T : <<y, x>> \notin R
  <2> HIDE DEF T, R
  <2>1. IsWellFoundedOn(R, Nat)
      BY NatLessThanWellFounded DEF R
  <2> QED BY <1>1, <2>1, WFMin
<1>3. \A y \in T : ~(y < x)
  <2> SUFFICES ASSUME NEW y \in T, y < x PROVE FALSE
      OBVIOUS
  <2>1. <<y, x>> \in Nat \X Nat
      BY <1>1
  <2>2. <<y, x>> \in R
      BY <2>1 DEF OpToRel
  <2> QED BY <1>2, <2>2
<1>4. x \in FileId /\ x \notin given /\ \A j \in FileId : j < x => j \in given
    BY <1>3
<1> QED BY <1>4 DEF nextId

\* Bytes that a row left holds stay; the others stay unless a row that went held them.
LEMMA Released ==
    ASSUME NEW d, NEW rows, NEW gone, NEW b
    PROVE  b \in releaseBlob(d, rows, gone) <=>
               b \in d /\ (b \notin holding(gone) \/ b \in holding(rows))
BY DEF releaseBlob

\* Bytes are held when a row has them.
LEMMA Holders ==
    ASSUME NEW rows, NEW b
    PROVE  b \in holding(rows) <=> \E r \in rows : r.sha = b
BY DEF holding

\* Rows go, and their bytes with the last of them, whole or cut short.
LEMMA RemoveKeepsBytes ==
    ASSUME BytesThere, DiskIsHeld, FilesTypeOK, NEW gone \in SUBSET fileRows, remove(gone),
           UNCHANGED <<missing, rolledBack>>
    PROVE  /\ BytesThere' /\ DiskIsHeld'
           /\ fileRows' = fileRows \ gone
           /\ disk' \subseteq Blob /\ left' \subseteq Blob
           /\ serving' \in BOOLEAN /\ stopsMade' \in Nat
<1>1. fileRows' = fileRows \ gone
    BY DEF remove
<1>2. CASE goesOn /\ disk' = releaseBlob(disk, fileRows', gone) /\ UNCHANGED left
  <2>1. \A b : b \in disk' <=>
                   b \in disk /\ (b \notin holding(gone) \/ b \in holding(fileRows'))
      BY <1>2, Released
  <2>2. BytesThere'
      BY <1>1, <2>1, Holders DEF BytesThere
  <2>3. DiskIsHeld'
    <3> SUFFICES ASSUME NEW b \in disk', b \notin left' PROVE b \in holding(fileRows')
        BY DEF DiskIsHeld
    <3>1. b \in disk /\ (b \notin holding(gone) \/ b \in holding(fileRows'))
        BY <2>1
    <3>2. b \in holding(fileRows)
        BY <3>1, <1>2 DEF DiskIsHeld
    <3>3. b \notin holding(gone) => b \in holding(fileRows')
        BY <3>2, <1>1, Holders
    <3> QED BY <3>1, <3>3
  <2> QED BY <1>1, <1>2, <2>1, <2>2, <2>3 DEF FilesTypeOK, goesOn
<1>3. CASE stop /\ left' = left \union holding(gone) /\ UNCHANGED disk
  <2>1. BytesThere'
      BY <1>1, <1>3 DEF BytesThere
  <2>2. DiskIsHeld'
    <3> SUFFICES ASSUME NEW b \in disk', b \notin left' PROVE b \in holding(fileRows')
        BY DEF DiskIsHeld
    <3>1. b \in disk /\ b \notin left /\ b \notin holding(gone)
        BY <1>3
    <3>2. b \in holding(fileRows)
        BY <3>1 DEF DiskIsHeld
    <3> QED BY <1>1, <3>1, <3>2, Holders
  <2>3. holding(gone) \subseteq Blob
      BY DEF holding, FilesTypeOK, FileRow
  <2>4. disk' \subseteq Blob /\ left' \subseteq Blob
      BY <1>3, <2>3 DEF FilesTypeOK
  <2>5. serving' \in BOOLEAN /\ stopsMade' \in Nat
    <3>1. serving' = FALSE /\ stopsMade' = stopsMade + 1 /\ stopsMade \in Nat
        BY <1>3 DEF FilesTypeOK, stop
    <3>2. serving' \in BOOLEAN
        BY <3>1
    <3>3. stopsMade' \in Nat
        BY <3>1
    <3> QED BY <3>2, <3>3
  <2> QED BY <1>1, <2>1, <2>2, <2>4, <2>5
<1> QED BY <1>1, <1>2, <1>3 DEF remove

\* There is no row and no file at first.
LEMMA InitFiles == FilesInit => FilesIInv
BY DEF FilesInit, FilesIInv, FilesTypeOK, OneRow, ExportIsWhole, LinksCite, PhotosKept,
       BytesThere, DiskIsHeld, holding, Export

\* Whether a step is whole or cut short, the service is up or not.
LEMMA Stopping == FilesTypeOK /\ (goesOn \/ stop) => serving' \in BOOLEAN /\ stopsMade' \in Nat
<1>1. FilesTypeOK /\ (goesOn \/ stop) => serving' \in BOOLEAN
    BY DEF goesOn, stop, FilesTypeOK
<1>2. FilesTypeOK => stopsMade \in Nat
    BY DEF FilesTypeOK
<1>3. (goesOn \/ stop) => stopsMade' = stopsMade \/ stopsMade' = stopsMade + 1
    BY DEF goesOn, stop
<1>4. FilesTypeOK /\ (goesOn \/ stop) => stopsMade' \in Nat
  <2> SUFFICES ASSUME stopsMade \in Nat, stopsMade' = stopsMade \/ stopsMade' = stopsMade + 1
               PROVE  stopsMade' \in Nat
      BY <1>2, <1>3
  <2> QED OBVIOUS
<1> QED BY <1>1, <1>4

\* What concerns neither the rows nor the bytes nor the citations.
LEMMA IdleKeeps ==
    ASSUME FilesIInv, UNCHANGED <<disk, fileRows, citations, backup, fileHistory>>,
           serving' \in BOOLEAN, stopsMade' \in Nat
    PROVE  FilesIInv'
BY DEF FilesIInv, FilesTypeOK, OneRow, ExportIsWhole, LinksCite, PhotosKept, BytesThere,
       DiskIsHeld, holding, citations, fileHistory
-----------------------------------------------------------------------------
\* Rows go that no citation mentions, but for photos a start forgets.
LEMMA RemoveKeeps ==
    ASSUME FilesIInv, NEW gone \in SUBSET fileRows, remove(gone),
           UNCHANGED <<backup, missing, rolledBack>>,
           links' \subseteq links, cited' \subseteq FileId, form' \subseteq FileId,
           cited' \union form' \subseteq cited \union form,
           geste' \in BOOLEAN, forgotten \subseteq forgotten', forgotten' \subseteq FileId,
           erased \subseteq erased', erased' \subseteq FileId,
           \A l \in links' : \A r \in gone : r.kind = "equipment" => r.id # l[2],
           \A id \in (cited' \union form') \ (forgotten' \union erased') :
               \A r \in gone : r.kind \in OwnerKinds => r.id # id
    PROVE  FilesIInv'
<1> USE DEF FilesIInv
<1>1. /\ BytesThere' /\ DiskIsHeld'
      /\ fileRows' = fileRows \ gone
      /\ disk' \subseteq Blob /\ left' \subseteq Blob
      /\ serving' \in BOOLEAN /\ stopsMade' \in Nat
    BY RemoveKeepsBytes
<1>2. FilesTypeOK'
    BY <1>1 DEF FilesTypeOK
<1>3. OneRow(fileRows)' /\ ExportIsWhole'
    BY <1>1 DEF OneRow, ExportIsWhole
<1>4. LinksCite'
    BY <1>1 DEF LinksCite
<1>5. PhotosKept'
    BY <1>1 DEF PhotosKept
<1> QED BY <1>1, <1>2, <1>3, <1>4, <1>5

\* A new row, of bytes written first.
LEMMA StoreKeeps ==
    ASSUME FilesIInv, NEW k \in Kind, NEW b \in Blob, NEW id \in FileId,
           room, id = nextId,
           disk' = disk \union {b},
           fileRows' = fileRows \union {[id |-> id, kind |-> k, sha |-> b]},
           UNCHANGED <<backup, fileHistory>>,
           cited' = cited, geste' = geste,
           serving' \in BOOLEAN, stopsMade' \in Nat,
           \/ form' = form
           \/ form' = form \union {id} /\ k \in OwnerKinds,
           \/ links' = links
           \/ k = "equipment" /\ \E item \in Item : links' = links \union {<<item, id>>}
    PROVE  FilesIInv'
<1> USE DEF FilesIInv
<1> DEFINE new == [id |-> id, kind |-> k, sha |-> b]
<1>1. new \in FileRow /\ new.id = id /\ new.kind = k /\ new.sha = b
    BY DEF FileRow
<1> HIDE DEF new
<1>2. fileRows' = fileRows \union {new}
    BY DEF new
<1>3. \A r \in fileRows : r.id # id
    BY NextIsNew DEF given, ids
<1>4. FilesTypeOK'
    BY <1>1, <1>2 DEF FilesTypeOK, fileHistory
<1>5. OneRow(fileRows)' /\ ExportIsWhole'
    BY <1>1, <1>2, <1>3 DEF OneRow, ExportIsWhole
<1>6. LinksCite'
    BY <1>1, <1>2 DEF LinksCite
<1>7. PhotosKept'
    BY <1>1, <1>2 DEF PhotosKept, fileHistory
<1>8. BytesThere'
    BY <1>1, <1>2 DEF BytesThere, fileHistory
<1>9. DiskIsHeld'
  <2> SUFFICES ASSUME NEW c \in disk', c \notin left' PROVE c \in holding(fileRows')
      BY DEF DiskIsHeld
  <2>1. CASE c = b
      BY <2>1, <1>1, <1>2, Holders
  <2>2. CASE c \in disk
    <3>1. c \in holding(fileRows)
        BY <2>2 DEF DiskIsHeld, fileHistory
    <3> QED BY <3>1, <1>2, Holders
  <2> QED BY <2>1, <2>2
<1> QED BY <1>4, <1>5, <1>6, <1>7, <1>8, <1>9

\* Storing: a photo of a form, a proof or a piece, a file of a sheet.
LEMMA StoringKeeps ==
    ASSUME FilesIInv, NEW b \in Blob,
           \/ (\E k \in OwnerKinds : postPhoto(k, b)) \/ storeCut(b) \/ attachCut(b)
           \/ \E k \in {"maintenance", "finances"} : postOwned(k, b)
           \/ \E item \in Item : attach(item, b)
    PROVE  FilesIInv'
<1> USE DEF FilesIInv
<1>1. goesOn => serving' \in BOOLEAN /\ stopsMade' \in Nat
    BY Stopping
<1>2. stop => serving' \in BOOLEAN /\ stopsMade' \in Nat
    BY Stopping
<1>3. ASSUME NEW k \in OwnerKinds, postPhoto(k, b) PROVE FilesIInv'
  <2>1. PICK id \in FileId : store(k, b, id) /\ form' = form \union {id}
                             /\ UNCHANGED <<links, cited, geste, backup>>
      BY <1>3 DEF postPhoto
  <2> QED BY <2>1, <1>1, StoreKeeps DEF store, Kind, OwnerKinds
<1>4. CASE storeCut(b)
  <2>1. /\ stop /\ disk' = disk \union {b} /\ left' = left \union {b}
        /\ UNCHANGED <<fileRows, links, cited, form, geste, backup, missing, rolledBack,
                       forgotten, erased>>
      BY <1>4 DEF storeCut, citations
  <2>2. FilesTypeOK'
      BY <2>1, <1>2 DEF FilesTypeOK
  <2>3. BytesThere' /\ DiskIsHeld'
      BY <2>1 DEF BytesThere, DiskIsHeld, holding
  <2>4. OneRow(fileRows)' /\ ExportIsWhole' /\ LinksCite' /\ PhotosKept'
      BY <2>1 DEF OneRow, ExportIsWhole, LinksCite, PhotosKept
  <2> QED BY <2>2, <2>3, <2>4
<1>5. CASE attachCut(b)
  <2>1. nextId \in FileId
      BY <1>5, NextIsNew DEF attachCut
  <2>2. /\ room /\ stop /\ disk' = disk \union {b}
        /\ fileRows' = fileRows \union {[id |-> nextId, kind |-> "equipment", sha |-> b]}
        /\ UNCHANGED <<links, cited, form, geste, backup, fileHistory>>
      BY <1>5 DEF attachCut, citations
  <2> QED BY <2>1, <2>2, <1>2, StoreKeeps DEF Kind, OwnerKinds
<1>6. CASE \E k \in {"maintenance", "finances"} : postOwned(k, b)
  <2>1. PICK k \in {"maintenance", "finances"}, id \in FileId :
            store(k, b, id) /\ UNCHANGED <<links, cited, form, geste, backup>>
      BY <1>6 DEF postOwned, citations
  <2> QED BY <2>1, <1>1, StoreKeeps DEF store, Kind, OwnerKinds
<1>7. ASSUME NEW item \in Item, attach(item, b) PROVE FilesIInv'
  <2>1. CASE known("equipment", b) # {}
    <3>1. /\ UNCHANGED <<disk, fileRows, fileHistory, cited, form, geste, backup>> /\ goesOn
          /\ \E r \in known("equipment", b) : links' = links \union {<<item, r.id>>}
        BY <1>7, <2>1 DEF attach
    <3>2. PICK r \in fileRows : r.kind = "equipment" /\ links' = links \union {<<item, r.id>>}
        BY <3>1 DEF known, ofKind
    <3>3. FilesTypeOK'
        BY <3>1, <3>2, <1>1 DEF FilesTypeOK, FileRow, fileHistory
    <3>4. LinksCite'
        BY <3>1, <3>2 DEF LinksCite
    <3>5. OneRow(fileRows)' /\ ExportIsWhole' /\ PhotosKept' /\ BytesThere' /\ DiskIsHeld'
        BY <3>1 DEF OneRow, ExportIsWhole, PhotosKept, BytesThere, DiskIsHeld, holding,
                    fileHistory
    <3> QED BY <3>3, <3>4, <3>5
  <2>2. CASE known("equipment", b) = {}
    <3>1. PICK id \in FileId : /\ store("equipment", b, id)
                               /\ links' = links \union {<<item, id>>}
                               /\ UNCHANGED <<cited, form, geste, backup>>
        BY <1>7, <2>2 DEF attach
    <3> QED BY <3>1, <1>1, StoreKeeps DEF store, Kind, OwnerKinds
  <2> QED BY <2>1, <2>2
<1> QED BY <1>3, <1>4, <1>5, <1>6, <1>7

\* Detaching, removing a proof or a piece, deleting a photo.
LEMMA RemovingKeeps ==
    ASSUME FilesIInv, \/ \E l \in links : detach(l)
                      \/ \E r \in fileRows : removeOwned(r) \/ deletePhoto(r)
    PROVE  FilesIInv'
<1> USE DEF FilesIInv
<1>0. /\ cited \subseteq FileId /\ form \subseteq FileId /\ geste \in BOOLEAN
      /\ forgotten \subseteq FileId /\ erased \subseteq FileId
    BY DEF FilesTypeOK
<1>1. ASSUME NEW l \in links, detach(l) PROVE FilesIInv'
  <2> DEFINE gone == orphan(links', l[2])
  <2>1. /\ links' = links \ {l} /\ remove(gone)
        /\ UNCHANGED <<cited, form, geste, backup, missing, rolledBack, forgotten, erased>>
      BY <1>1 DEF detach
  <2>2. gone \in SUBSET fileRows /\ \A r \in gone : r.id = l[2] /\ \A m \in links' : m[2] # r.id
      BY DEF orphan
  <2>3. \A r \in gone : r.kind = "equipment"
      BY <2>2 DEF LinksCite, OneRow
  <2> HIDE DEF gone
  <2> QED BY <2>1, <2>2, <2>3, <1>0, RemoveKeeps DEF OwnerKinds
<1>2. ASSUME NEW r \in fileRows, removeOwned(r) PROVE FilesIInv'
  <2>1. /\ r.kind \in {"maintenance", "finances"} /\ remove({r})
        /\ UNCHANGED <<links, cited, form, geste, backup, missing, rolledBack, forgotten, erased>>
      BY <1>2 DEF removeOwned, citations
  <2>2. {r} \in SUBSET fileRows /\ \A s \in {r} : s.kind \notin OwnerKinds \union {"equipment"}
      BY <2>1 DEF OwnerKinds
  <2> QED BY <2>1, <2>2, <1>0, RemoveKeeps
<1>3. ASSUME NEW r \in fileRows, deletePhoto(r) PROVE FilesIInv'
  <2>1. /\ r.kind \in OwnerKinds /\ remove({r})
        /\ erased' = erased \union ({r.id} \intersect (cited \union form))
        /\ UNCHANGED <<links, cited, form, geste, backup, missing, rolledBack, forgotten>>
      BY <1>3 DEF deletePhoto, citations
  <2>2. {r} \in SUBSET fileRows /\ \A s \in {r} : s.kind # "equipment"
      BY <2>1 DEF OwnerKinds
  <2>3. erased \subseteq erased' /\ erased' \subseteq FileId
      BY <2>1, <1>0
  <2>4. \A id \in (cited \union form) \ (forgotten \union erased') : id # r.id
      BY <2>1
  <2> QED BY <2>1, <2>2, <2>3, <2>4, <1>0, RemoveKeeps
<1> QED BY <1>1, <1>2, <1>3

\* The document, its forms, the gesture; an export.
LEMMA CitingKeeps ==
    ASSUME FilesIInv,
           \/ \E id \in FileId : savePhoto(id) \/ leavePhoto(id)
           \/ removeGeste \/ exportModule
    PROVE  FilesIInv'
<1> USE DEF FilesIInv
<1>1. /\ UNCHANGED <<disk, fileRows, links, fileHistory>> /\ goesOn
      /\ cited' \subseteq cited \union form /\ form' \subseteq form
      /\ geste' \in BOOLEAN
      /\ exportModule \/ UNCHANGED backup
    BY DEF savePhoto, leavePhoto, removeGeste, exportModule, citations, FilesTypeOK
<1>2. ExportIsWhole' /\ backup' \in Export
  <2>1. CASE exportModule
    <3>1. backup' = [files |-> {r \in fileRows : \E l \in links : l[2] = r.id},
                     links |-> links]
        BY <2>1 DEF exportModule
    <3>2. \A r \in backup'.files : r \in fileRows /\ \E l \in links : l[2] = r.id
        BY <3>1
    <3>3. \A r \in backup'.files : r.kind = "equipment"
        BY <3>2 DEF LinksCite, OneRow
    <3>4. \A l \in backup'.links : \E r \in backup'.files : r.id = l[2]
        BY <3>1 DEF LinksCite
    <3>5. OneRow(backup'.files)
        BY <3>2 DEF OneRow
    <3>6. backup' \in Export
        BY <3>1 DEF Export, FilesTypeOK
    <3> QED BY <3>3, <3>4, <3>5, <3>6 DEF ExportIsWhole, OneRow
  <2>2. CASE UNCHANGED backup
      BY <2>2 DEF ExportIsWhole, OneRow, FilesTypeOK
  <2> QED BY <1>1, <2>1, <2>2
<1>3. FilesTypeOK'
    BY <1>1, <1>2 DEF FilesTypeOK, goesOn, fileHistory
<1>4. PhotosKept'
    BY <1>1 DEF PhotosKept, fileHistory
<1>5. OneRow(fileRows)' /\ LinksCite' /\ BytesThere' /\ DiskIsHeld'
    BY <1>1 DEF OneRow, LinksCite, BytesThere, DiskIsHeld, holding, fileHistory
<1> QED BY <1>2, <1>3, <1>4, <1>5

\* The equipments come back from an export, under new identifiers.
LEMMA RestoreKeeps == FilesIInv /\ restoreModule => FilesIInv'
<1> SUFFICES ASSUME FilesIInv, restoreModule PROVE FilesIInv'
    OBVIOUS
<1> USE DEF FilesIInv
<1> DEFINE previous == ofKind("equipment")
<1>1. PICK new \in [backup.files -> FileId \ given] :
        LET again == {[r EXCEPT !.id = new[r]] : r \in backup.files}
            rows == (fileRows \ previous) \union again
            lost == {r.id : r \in {a \in again : a.sha \notin disk}}
        IN  /\ \A r, s \in backup.files : r.id < s.id => new[r] < new[s]
            /\ fileRows' = rows
            /\ links' = UNION {{<<l[1], new[r]>> : l \in {m \in backup.links : m[2] = r.id}}
                               : r \in backup.files}
            /\ missing' = missing \union lost
            /\ \/ goesOn /\ disk' = releasedBytes(rows, previous) /\ UNCHANGED left
               \/ stop /\ left' = left \union holding(previous) /\ UNCHANGED disk
            /\ UNCHANGED <<cited, form, geste, backup, rolledBack, forgotten, erased>>
    BY DEF restoreModule
<1> DEFINE again == {[r EXCEPT !.id = new[r]] : r \in backup.files}
           kept == fileRows \ previous
           lost == {r.id : r \in {a \in again : a.sha \notin disk}}
<1>2. /\ \A r, s \in backup.files : r.id < s.id => new[r] < new[s]
      /\ fileRows' = kept \union again
      /\ missing' = missing \union lost
      /\ \/ goesOn /\ disk' = releaseBlob(disk, fileRows', previous) /\ UNCHANGED left
         \/ stop /\ left' = left \union holding(previous) /\ UNCHANGED disk
      /\ UNCHANGED <<cited, form, geste, backup, rolledBack, forgotten, erased>>
    BY <1>1 DEF releasedBytes
<1>3. \A l \in links' : \E r \in backup.files, m \in backup.links : l = <<m[1], new[r]>>
    BY <1>1
<1>4. /\ backup.files \subseteq FileRow /\ backup.links \subseteq Item \X FileId
      /\ \A r \in backup.files : r.id \in Nat /\ r.kind = "equipment" /\ new[r] \in FileId
                                 /\ new[r] \notin given
    BY <1>1, FilesAssumption DEF FilesTypeOK, Export, FileRow, FileId, ExportIsWhole
<1>5. /\ \A a \in again : \E r \in backup.files :
             a.id = new[r] /\ a.kind = "equipment" /\ a.sha = r.sha /\ a \in FileRow
                 /\ a = [r EXCEPT !.id = new[r]]
      /\ \A r \in backup.files : \E a \in again : a.id = new[r]
  <2> DEFINE renewed(r) == [r EXCEPT !.id = new[r]]
  <2>1. ASSUME NEW r \in backup.files
        PROVE  /\ renewed(r).id = new[r] /\ renewed(r).kind = "equipment"
               /\ renewed(r).sha = r.sha /\ renewed(r) \in FileRow
    <3>1. r \in FileRow /\ r.kind = "equipment" /\ new[r] \in FileId
        BY <1>4
    <3> QED BY <3>1 DEF FileRow
  <2>2. again = {renewed(r) : r \in backup.files}
      OBVIOUS
  <2> HIDE DEF renewed, again
  <2>3. \A a \in again : \E r \in backup.files :
            a.id = new[r] /\ a.kind = "equipment" /\ a.sha = r.sha /\ a \in FileRow
                /\ a = renewed(r)
      BY <2>1, <2>2
  <2>4. \A r \in backup.files : \E a \in again : a.id = new[r]
      BY <2>1, <2>2
  <2> QED BY <2>3, <2>4 DEF renewed
<1>6. \A a \in kept : a \in fileRows /\ a.kind # "equipment" /\ a.id \in given
    BY DEF ofKind, given, ids
<1>7. \A r, s \in backup.files : new[r] = new[s] => r = s
  <2> SUFFICES ASSUME NEW r \in backup.files, NEW s \in backup.files, new[r] = new[s]
               PROVE  r = s
      OBVIOUS
  <2>1. new[r] \in Nat /\ r.id \in Nat /\ s.id \in Nat
      BY <1>4, FilesAssumption DEF FileId
  <2>2. ~(r.id < s.id) /\ ~(s.id < r.id)
      BY <1>2, <2>1
  <2>3. r.id = s.id
      BY <2>1, <2>2
  <2> QED BY <2>3 DEF ExportIsWhole, OneRow
<1>8. lost \subseteq FileId /\ \A a \in again : a.sha \in disk \/ a.id \in lost
    BY <1>4, <1>5
<1> HIDE DEF again, kept, lost, previous
<1>9. OneRow(fileRows)'
  <2> SUFFICES ASSUME NEW a \in kept \union again, NEW b \in kept \union again, a.id = b.id
               PROVE  a = b
      BY <1>2 DEF OneRow
  <2>1. CASE a \in kept /\ b \in kept
      BY <2>1, <1>6 DEF OneRow
  <2>2. CASE a \in again /\ b \in again
      BY <2>2, <1>5, <1>7
  <2>3. CASE a \in kept <=> b \notin kept
      BY <2>3, <1>4, <1>5, <1>6
  <2> QED BY <2>1, <2>2, <2>3
<1>10. ExportIsWhole'
    BY <1>2 DEF ExportIsWhole, OneRow
<1>11. LinksCite'
  <2> SUFFICES ASSUME NEW l \in links'
               PROVE  \E r \in fileRows' : r.kind = "equipment" /\ r.id = l[2]
      BY DEF LinksCite
  <2>1. PICK r \in backup.files : l[2] = new[r]
      BY <1>3
  <2> QED BY <2>1, <1>2, <1>5
<1>12. PhotosKept'
  <2>1. \A r \in fileRows : r.kind \in OwnerKinds => r \in kept
      BY DEF kept, previous, ofKind, OwnerKinds
  <2> QED BY <2>1, <1>2 DEF PhotosKept
<1>13. goesOn \/ stop => serving' \in BOOLEAN /\ stopsMade' \in Nat
    BY Stopping
<1>14. FilesTypeOK'
  <2>1. fileRows' \subseteq FileRow
      BY <1>2, <1>5, <1>6 DEF FilesTypeOK
  <2>2. links' \subseteq Item \X FileId
      BY <1>3, <1>4
  <2>3. missing' \subseteq FileId
      BY <1>2, <1>8 DEF FilesTypeOK
  <2>4. disk' \subseteq Blob /\ left' \subseteq Blob
    <3>1. holding(previous) \subseteq Blob
        BY DEF holding, previous, ofKind, FilesTypeOK, FileRow
    <3> QED BY <3>1, <1>2 DEF FilesTypeOK, releaseBlob
  <2>5. serving' \in BOOLEAN /\ stopsMade' \in Nat
      BY <1>2, <1>13
  <2> QED BY <2>1, <2>2, <2>3, <2>4, <2>5, <1>2 DEF FilesTypeOK
<1>15. BytesThere'
  <2> SUFFICES ASSUME NEW r \in fileRows'
               PROVE  r.sha \in disk' \/ r.id \in missing' \union rolledBack'
      BY DEF BytesThere
  <2>1. r.sha \in disk => r.sha \in disk'
      BY <1>2, Released, Holders
  <2>2. CASE r \in kept
      BY <2>1, <2>2, <1>2, <1>6 DEF BytesThere
  <2>3. CASE r \in again
      BY <2>1, <2>3, <1>2, <1>8
  <2> QED BY <2>2, <2>3, <1>2
<1>16. DiskIsHeld'
  <2> SUFFICES ASSUME NEW b \in disk', b \notin left' PROVE b \in holding(fileRows')
      BY DEF DiskIsHeld
  <2>1. b \in disk /\ b \notin left /\ (b \notin holding(previous) \/ b \in holding(fileRows'))
      BY <1>2, Released
  <2>2. PICK r \in fileRows : r.sha = b
      BY <2>1, Holders DEF DiskIsHeld
  <2>3. r \in previous \/ r \in kept
      BY DEF kept
  <2> QED BY <2>1, <2>2, <2>3, <1>2, Holders
<1> QED BY <1>9, <1>10, <1>11, <1>12, <1>14, <1>15, <1>16

\* The equipments are erased; or the rows are not, and their bytes are.
LEMMA ResetKeeps == FilesIInv /\ resetModule => FilesIInv'
<1> SUFFICES ASSUME FilesIInv, resetModule PROVE FilesIInv'
    OBVIOUS
<1> USE DEF FilesIInv
<1> DEFINE gone == ofKind("equipment")
<1>1. /\ disk' = releaseBlob(disk, fileRows \ gone, gone)
      /\ \/ goesOn /\ fileRows' = fileRows \ gone /\ links' = {} /\ UNCHANGED rolledBack
         \/ stop /\ rolledBack' = rolledBack \union ids(gone) /\ UNCHANGED <<fileRows, links>>
      /\ UNCHANGED <<cited, form, geste, backup, missing, left, forgotten, erased>>
    BY DEF resetModule
<1>2. gone \subseteq fileRows /\ \A r \in fileRows : r \in gone <=> r.kind = "equipment"
    BY DEF ofKind
<1>3. ids(gone) \subseteq FileId /\ \A r \in gone : r.id \in ids(gone)
    BY <1>2 DEF ids, FilesTypeOK, FileRow
<1> HIDE DEF gone
<1>4. \A b : b \in disk' <=> b \in disk /\ (b \notin holding(gone) \/ b \in holding(fileRows \ gone))
    BY <1>1, Released
<1>5. FilesTypeOK'
  <2>1. goesOn \/ stop => serving' \in BOOLEAN /\ stopsMade' \in Nat
      BY Stopping
  <2>2. fileRows' \subseteq fileRows /\ links' \subseteq links /\ rolledBack' \subseteq FileId
      BY <1>1, <1>3 DEF FilesTypeOK
  <2>3. disk' \subseteq disk
      BY <1>4
  <2> QED BY <1>1, <2>1, <2>2, <2>3 DEF FilesTypeOK
<1>6. OneRow(fileRows)' /\ ExportIsWhole' /\ LinksCite'
    BY <1>1 DEF OneRow, ExportIsWhole, LinksCite
<1>7. PhotosKept'
    BY <1>1, <1>2 DEF PhotosKept, OwnerKinds
<1>8. BytesThere'
    BY <1>1, <1>2, <1>3, <1>4, Holders DEF BytesThere
<1>9. DiskIsHeld'
  <2> SUFFICES ASSUME NEW b \in disk', b \notin left' PROVE b \in holding(fileRows')
      BY DEF DiskIsHeld
  <2>1. PICK r \in fileRows : r.sha = b
      BY <1>1, <1>4, Holders DEF DiskIsHeld
  <2>2. \E s \in fileRows \ gone : s.sha = b
      BY <2>1, <1>4, Holders
  <2> QED BY <2>2, <1>1, Holders
<1> QED BY <1>5, <1>6, <1>7, <1>8, <1>9

\* The service stops; it starts again, and prunes.
LEMMA StartKeeps == FilesIInv /\ (StopService \/ StartAgain) => FilesIInv'
<1> SUFFICES ASSUME FilesIInv, StopService \/ StartAgain PROVE FilesIInv'
    OBVIOUS
<1>1. CASE StopService
  <2>1. stop /\ UNCHANGED <<disk, fileRows, citations, backup, fileHistory>>
      BY <1>1 DEF StopService
  <2>2. serving' \in BOOLEAN /\ stopsMade' \in Nat
      BY <2>1, Stopping DEF FilesIInv
  <2> QED BY <2>1, <2>2, IdleKeeps
<1>2. CASE StartAgain
  <2> USE DEF FilesIInv
  <2> DEFINE gone == {r \in fileRows : r.id \notin referenced}
  <2>1. /\ serving' = TRUE /\ UNCHANGED stopsMade
        /\ fileRows' = fileRows \ gone
        /\ disk' = releaseBlob(disk, fileRows', gone)
        /\ forgotten' = forgotten \union (form \intersect ids(gone))
        /\ UNCHANGED <<links, cited, form, geste, backup, missing, rolledBack, left, erased>>
      BY <1>2 DEF StartAgain, citations
  <2>2. gone \in SUBSET fileRows
      OBVIOUS
  <2>3. /\ \A r \in gone : r.id \notin cited /\ \A l \in links : r.id # l[2]
        /\ \A r \in gone : r.id \in ids(gone)
      BY DEF referenced, ids
  <2> HIDE DEF gone
  <2>4. /\ forgotten \subseteq forgotten' /\ forgotten' \subseteq FileId
        /\ \A id \in (cited \union form) \ (forgotten' \union erased') : \A r \in gone : r.id # id
      BY <2>1, <2>3 DEF FilesTypeOK
  <2>5. \A b : b \in disk' <=> b \in disk /\ (b \notin holding(gone) \/ b \in holding(fileRows'))
      BY <2>1, Released
  <2>6. FilesTypeOK'
      BY <2>1, <2>4, <2>5 DEF FilesTypeOK
  <2>7. OneRow(fileRows)' /\ ExportIsWhole' /\ LinksCite'
      BY <2>1, <2>3 DEF OneRow, ExportIsWhole, LinksCite
  <2>8. PhotosKept'
      BY <2>1, <2>4 DEF PhotosKept
  <2>9. BytesThere'
      BY <2>1, <2>5, Holders DEF BytesThere
  <2>10. DiskIsHeld'
    <3> SUFFICES ASSUME NEW b \in disk', b \notin left' PROVE b \in holding(fileRows')
        BY DEF DiskIsHeld
    <3>1. PICK r \in fileRows : r.sha = b
        BY <2>1, <2>5, Holders DEF DiskIsHeld
    <3> QED BY <3>1, <2>1, <2>5, Holders
  <2> QED BY <2>6, <2>7, <2>8, <2>9, <2>10
<1> QED BY <1>1, <1>2

\* Every step keeps the invariant.
LEMMA NextFiles == FilesIInv /\ [FilesNext]_fileVars => FilesIInv'
<1> SUFFICES ASSUME FilesIInv, [FilesNext]_fileVars PROVE FilesIInv'
    OBVIOUS
<1>1. ASSUME NEW b \in Blob,
             \/ (\E k \in OwnerKinds : postPhoto(k, b)) \/ storeCut(b) \/ attachCut(b)
             \/ \E k \in {"maintenance", "finances"} : postOwned(k, b)
             \/ \E item \in Item : attach(item, b)
      PROVE  FilesIInv'
    BY <1>1, StoringKeeps
<1>2. CASE \/ \E l \in links : detach(l)
           \/ \E r \in fileRows : removeOwned(r) \/ deletePhoto(r)
    BY <1>2, RemovingKeeps
<1>3. CASE \/ \E id \in FileId : savePhoto(id) \/ leavePhoto(id)
           \/ removeGeste \/ exportModule
    BY <1>3, CitingKeeps
<1>4. CASE restoreModule
    BY <1>4, RestoreKeeps
<1>5. CASE resetModule
    BY <1>5, ResetKeeps
<1>6. CASE StopService \/ StartAgain
    BY <1>6, StartKeeps
<1>7. CASE UNCHANGED fileVars
  <2>1. /\ UNCHANGED <<disk, fileRows, citations, backup, fileHistory>>
        /\ serving' = serving /\ stopsMade' = stopsMade
      BY <1>7 DEF fileVars, citations, fileHistory
  <2>2. serving \in BOOLEAN /\ stopsMade \in Nat
      BY DEF FilesIInv, FilesTypeOK
  <2> QED BY <2>1, <2>2, IdleKeeps
<1> QED BY <1>1, <1>2, <1>3, <1>4, <1>5, <1>6, <1>7 DEF FilesNext

\* In every reachable state rows, bytes and citations agree: FilesIInv.
THEOREM FilesAreSound == FilesSpec => []FilesIInv
BY InitFiles, NextFiles, PTL DEF FilesSpec

\* CitedIsThere holds in every reachable state, stops of the service included
\* and photos deleted by their number included (storage/, and the modules that
\* hold files).
THEOREM CitedFilesAreThere == FilesSpec => []CitedIsThere
<1>1. FilesIInv => CitedIsThere
  <2> SUFFICES ASSUME FilesIInv PROVE CitedIsThere
      OBVIOUS
  <2>1. \A l \in links : \E r \in ofKind("equipment") : r.id = l[2]
      BY DEF FilesIInv, LinksCite, ofKind
  <2>2. cited \ (forgotten \union erased) \subseteq ids(ofKind("recipe") \union ofKind("shop"))
      BY DEF FilesIInv, PhotosKept, ofKind, ids, OwnerKinds
  <2> QED BY <2>1, <2>2 DEF FilesIInv, BytesThere, CitedIsThere
<1> QED BY <1>1, FilesAreSound, PTL

\* DiskIsHeld holds in every reachable state: no bytes are left that no row holds,
\* but those of a step cut short (storage/).
THEOREM BytesAreHeld == FilesSpec => []DiskIsHeld
<1>1. FilesIInv => DiskIsHeld
    BY DEF FilesIInv
<1> QED BY <1>1, FilesAreSound, PTL

\* The tables, the disk and the last export are well formed in every reachable
\* state: an identifier is one of the table, a row has bytes of a known content.
THEOREM FilesTypeCorrect == FilesSpec => []FilesTypeOK
<1>1. FilesIInv => FilesTypeOK
    BY DEF FilesIInv
<1> QED BY <1>1, FilesAreSound, PTL

-----------------------------------------------------------------------------
(***************************************************************************)
(* The services together.                                                  *)
(***************************************************************************)

\* The process implements each of its services: a step of another one is a
\* stutter for it.
THEOREM ProcessServes ==
  ProcessSpec => NotifierSpec /\ EcoleSpec /\ StatementsSpec /\ FilesSpec
<1> DEFINE all == <<notifierVars, ecoleVars, statementVars, fileVars>>
<1>1. [ProcessNext]_all => [NotifierNext]_notifierVars
  BY DEF ProcessNext
<1>2. [ProcessNext]_all => [EcoleNext]_ecoleVars
  BY DEF ProcessNext
<1>3. [ProcessNext]_all => [StatementsNext]_statementVars
  BY DEF ProcessNext
<1>4. [ProcessNext]_all => [FilesNext]_fileVars
  BY DEF ProcessNext
<1>5. QED
  BY <1>1, <1>2, <1>3, <1>4, PTL
     DEF ProcessSpec, NotifierSpec, EcoleSpec, StatementsSpec, FilesSpec

\* The behaviours explored, where one service moves all along, are behaviours of
\* the process.
THEOREM OneAtATime == ServicesSpec => ProcessSpec
<1> DEFINE all == <<notifierVars, ecoleVars, statementVars, fileVars>>
<1>1. ServicesInit => NotifierInit /\ EcoleInit /\ StatementsInit /\ FilesInit
  BY DEF ServicesInit
<1>2. [ServicesNext]_servicesVars => [ProcessNext]_all
  BY DEF ServicesNext, ProcessNext, servicesVars
<1>3. QED
  BY <1>1, <1>2, PTL DEF ServicesSpec, ProcessSpec

\* The four services together keep their tables, queues and journals well formed.
THEOREM ServicesTypeCorrect == ProcessSpec => []ServicesTypeOK
<1>1. NotifierTypeOK /\ EcoleTypeOK /\ StatementsTypeOK /\ FilesTypeOK => ServicesTypeOK
  BY DEF ServicesTypeOK
<1>2. QED
  BY <1>1, ProcessServes, NotifierTypeCorrect, EcoleTypeCorrect, StatementsTypeCorrect,
     FilesTypeCorrect, PTL

\* Together they keep what each one promises: reminders ring once, and after the
\* quiet hours; a blocked account shows its question; an overlapping statement
\* brings its delta, transfers that no hand tore keep both legs; what is cited is
\* there and nothing else is on the disk, but for what Files names (a photo
\* deleted by its number, one pruned in its form, losses of a restore or a reset).
THEOREM ServicesAreSafe ==
  ProcessSpec => [](/\ RingsOnce /\ DeferredToTheEndOfQuiet
                    /\ QuestionToAnswer
                    /\ UniqueFingerprint /\ OnlyTheDelta /\ TransfersPaired
                    /\ CitedIsThere /\ DiskIsHeld)
BY ProcessServes, RemindersRingOnce, RemindersWaitForMorning, BlockedAccountsAsk,
   FingerprintsAreUnique, ImportsBringTheDelta, TransfersStayPaired, CitedFilesAreThere,
   BytesAreHeld, PTL

\* ... and when the passages of the École planner do not overlap, it pauses in time.
THEOREM PausesTogether == ASSUME OnePassage PROVE ProcessSpec => []NotInsistent
BY ProcessServes, PausesAreKept, PTL

=============================================================================
