-------------------------------- MODULE Files --------------------------------
(***************************************************************************)
(* Files of the household: bytes on the disk, named by their fingerprint   *)
(* (backend storage/blobs.ts), and the rows that hold them, in two tables: *)
(* hh_attachments (storage/files.ts: photos, invoices of an equipment,     *)
(* proofs of a maintenance gesture) and fin_attachments (finances/         *)
(* attachments.ts).  A row is cited by a recipe or a shopping article of   *)
(* the document, by the sheets of equipments, or belongs to its owner.     *)
(*                                                                         *)
(* A request writes to the disk and to the database one after the other,   *)
(* without waiting in between: nothing interleaves, but the process may    *)
(* stop there (`cut`).  Starting again prunes what nothing cites.          *)
(***************************************************************************)
EXTENDS Integers, FiniteSets

CONSTANTS
    Blob,             \* contents, known by their fingerprint
    Item,             \* sheets of equipments
    MaxRows, MaxCuts \* bounds

ASSUME FilesAssumption == MaxRows \in Nat

FileId == 1..MaxRows
OwnerKinds == {"recipe", "shop"}        \* what the route /api/files serves
Kind == OwnerKinds \union {"equipment", "maintenance", "finances"}
FileRow == [id : FileId, kind : Kind, sha : Blob]

VARIABLES
    disk,       \* the bytes there are
    fileRows,   \* the rows of both tables
    links,      \* eqp_attachments: pairs of a sheet and a file
    cited,      \* the photos the recipes and the articles of the document cite
    form,       \* photos sent from a form that is not saved yet
    geste,      \* the maintenance gesture of the proofs exists
    serving,    \* the service runs
    backup,     \* the last export of the equipments: files and links
    stopsMade,
    \* histories: files restored without their bytes, and files of a reset that
    \* was rolled back; bytes left by a stop; photos pruned while in a form;
    \* photos deleted by their number while something cites them or is about to
    missing, rolledBack, left, forgotten, erased

fileVars == <<disk, fileRows, links, cited, form, geste, serving, backup, stopsMade,
              missing, rolledBack, left, forgotten, erased>>
citations == <<links, cited, form, geste>>
fileHistory == <<missing, rolledBack, left, forgotten, erased>>

Export == [files : SUBSET FileRow, links : SUBSET (Item \X FileId)]

FilesTypeOK ==
    /\ disk \subseteq Blob /\ fileRows \subseteq FileRow
    /\ links \subseteq Item \X FileId /\ cited \subseteq FileId /\ form \subseteq FileId
    /\ geste \in BOOLEAN /\ serving \in BOOLEAN /\ backup \in Export /\ stopsMade \in Nat
    /\ missing \subseteq FileId /\ rolledBack \subseteq FileId
    /\ left \subseteq Blob /\ forgotten \subseteq FileId /\ erased \subseteq FileId

FilesInit ==
    /\ disk = {} /\ fileRows = {} /\ links = {} /\ cited = {} /\ form = {}
    /\ geste = TRUE /\ serving = TRUE /\ backup = [files |-> {}, links |-> {}]
    /\ stopsMade = 0
    /\ missing = {} /\ rolledBack = {} /\ left = {} /\ forgotten = {} /\ erased = {}

-----------------------------------------------------------------------------
ids(rows) == {r.id : r \in rows}
holding(rows) == {r.sha : r \in rows}
ofKind(k) == {r \in fileRows : r.kind = k}

\* An identifier is never given twice (AUTOINCREMENT); here, not as long as
\* anything still mentions it
given == ids(fileRows) \union ids(backup.files) \union {l[2] : l \in links} \union cited
             \union form \union missing \union rolledBack \union forgotten \union erased
nextId == CHOOSE i \in FileId : i \notin given /\ \A j \in FileId : j < i => j \in given
room == FileId \ given # {}

\* Mutant: a table looks at its own rows only
releaseBlobOwn(d, rows, gone) ==
    d \ {r.sha : r \in {g \in gone : ~\E h \in rows : h.kind = g.kind /\ h.sha = g.sha}}

\* releaseBlob(), after the rows `gone` went: bytes nobody holds leave the disk
releaseBlob(d, rows, gone) == d \ (holding(gone) \ holding(rows))

\* the process stops in the middle of a request; or the request is over
stop == serving /\ serving' = FALSE /\ stopsMade < MaxCuts /\ stopsMade' = stopsMade + 1
goesOn == serving /\ UNCHANGED <<serving, stopsMade>>

\* remove(): the rows, then the bytes
remove(gone) ==
    /\ fileRows' = fileRows \ gone
    /\ \/ goesOn /\ disk' = releaseBlob(disk, fileRows', gone) /\ UNCHANGED left
       \/ /\ gone # {} /\ stop
          /\ left' = left \union holding(gone)
          /\ UNCHANGED disk

-----------------------------------------------------------------------------
(***************************************************************************)
(* Storing.                                                                *)
(***************************************************************************)
\* storeOnce(): a row of the same kind with the same bytes, still on the disk
known(k, b) == {r \in ofKind(k) : r.sha = b /\ b \in disk}

\* store(): bytes, then the row; `id` is the file the caller will cite.  The
\* process may stop before the row is written
store(k, b, id) ==
    /\ room /\ id = nextId
    /\ disk' = disk \union {b}
    /\ fileRows' = fileRows \union {[id |-> id, kind |-> k, sha |-> b]}
    /\ goesOn /\ UNCHANGED fileHistory
storeCut(b) ==
    /\ stop
    /\ disk' = disk \union {b}
    /\ left' = left \union {b}
    /\ UNCHANGED <<fileRows, citations, backup, missing, rolledBack, forgotten, erased>>

\* POST /api/files, a photo taken in the form of a recipe or of an article
postPhoto(k, b) ==
    \E id \in FileId :
        /\ store(k, b, id)
        /\ form' = form \union {id}
        /\ UNCHANGED <<links, cited, geste, backup>>

\* a proof of the gesture, a piece of the finances
postOwned(k, b) ==
    \E id \in FileId :
        /\ k = "maintenance" => geste
        /\ store(k, b, id)
        /\ UNCHANGED <<citations, backup>>

\* POST /items/:id/attachments: stored once, however many sheets cite it
attach(item, b) ==
    /\ IF known("equipment", b) # {}
       THEN /\ \E r \in known("equipment", b) :
                  /\ \A s \in known("equipment", b) : r.id <= s.id
                  /\ links' = links \union {<<item, r.id>>}
            /\ UNCHANGED <<disk, fileRows, fileHistory>> /\ goesOn
       ELSE \E id \in FileId : store("equipment", b, id) /\ links' = links \union {<<item, id>>}
    /\ UNCHANGED <<cited, form, geste, backup>>

\* ... or stored, and the process stops before it is attached
attachCut(b) ==
    /\ room /\ stop
    /\ known("equipment", b) = {}
    /\ disk' = disk \union {b}
    /\ fileRows' = fileRows \union {[id |-> nextId, kind |-> "equipment", sha |-> b]}
    /\ UNCHANGED <<citations, backup, fileHistory>>

-----------------------------------------------------------------------------
(***************************************************************************)
(* Removing.                                                               *)
(***************************************************************************)
orphan(others, id) == {r \in fileRows : r.id = id /\ \A l \in others : l[2] # id}

\* DELETE /attachments/:id
detach(l) ==
    /\ links' = links \ {l}
    /\ remove(orphan(links', l[2]))
    /\ UNCHANGED <<cited, form, geste, backup, missing, rolledBack, forgotten, erased>>

\* DELETE of a proof or of a piece
removeOwned(r) ==
    /\ r.kind \in {"maintenance", "finances"}
    /\ r.kind = "maintenance" => geste
    /\ remove({r})
    /\ UNCHANGED <<citations, backup, missing, rolledBack, forgotten, erased>>

\* DELETE /api/files/:id: the row and its bytes at once, whatever cites them
deletePhoto(r) ==
    /\ r.kind \in OwnerKinds
    /\ remove({r})
    /\ erased' = erased \union ({r.id} \intersect (cited \union form))
    /\ UNCHANGED <<citations, backup, missing, rolledBack, forgotten>>

\* The document: a recipe or an article is saved with its photo, or without; a
\* form is left; the gesture is removed
savePhoto(id) ==
    /\ id \in form
    /\ form' = form \ {id} /\ cited' = cited \union {id}
    /\ UNCHANGED <<disk, fileRows, links, geste, backup, fileHistory>> /\ goesOn
leavePhoto(id) ==
    /\ id \in cited \union form
    /\ form' = form \ {id} /\ cited' = cited \ {id}
    /\ UNCHANGED <<disk, fileRows, links, geste, backup, fileHistory>> /\ goesOn
removeGeste ==
    /\ geste /\ geste' = FALSE
    /\ UNCHANGED <<disk, fileRows, links, cited, form, backup, fileHistory>> /\ goesOn

-----------------------------------------------------------------------------
(***************************************************************************)
(* The module Équipements as a whole (equipements/backup.ts).              *)
(***************************************************************************)
exportModule ==
    /\ backup' = [files |-> {r \in fileRows : \E l \in links : l[2] = r.id}, links |-> links]
    /\ UNCHANGED <<disk, fileRows, citations, fileHistory>> /\ goesOn

\* Mutant: the bytes of before are forgotten
releasedNoBytes(new, previous) == disk

releasedBytes(new, previous) == releaseBlob(disk, new, previous)

\* Rows and links replaced, under new identifiers; then the bytes of before.
\* Bytes that are no longer there are reported.
restoreModule ==
    LET previous == ofKind("equipment")
        n == Cardinality(backup.files)
    IN \E new \in [backup.files -> FileId \ given] :
        LET again == {[r EXCEPT !.id = new[r]] : r \in backup.files}
            rows == (fileRows \ previous) \union again
            lost == {r.id : r \in {a \in again : a.sha \notin disk}}
        IN  /\ \A r, s \in backup.files : r.id < s.id => new[r] < new[s]
            /\ \A r \in backup.files, j \in FileId \ given : j < new[r] => \E s \in backup.files : new[s] = j
            /\ fileRows' = rows
            /\ links' = UNION {{<<l[1], new[r]>> : l \in {m \in backup.links : m[2] = r.id}}
                               : r \in backup.files}
            /\ missing' = missing \union lost
            /\ \/ goesOn /\ disk' = releasedBytes(rows, previous) /\ UNCHANGED left
               \/ stop /\ left' = left \union holding(previous) /\ UNCHANGED disk
            /\ UNCHANGED <<cited, form, geste, backup, rolledBack, forgotten, erased>>

\* Everything of the module is erased in one transaction, in which the bytes
\* leave the disk as well
resetModule ==
    LET gone == ofKind("equipment")
    IN  /\ disk' = releaseBlob(disk, fileRows \ gone, gone)
        /\ \/ /\ goesOn
              /\ fileRows' = fileRows \ gone /\ links' = {}
              /\ UNCHANGED rolledBack
           \/ /\ stop                                   \* rolled back
              /\ rolledBack' = rolledBack \union ids(gone)
              /\ UNCHANGED <<fileRows, links>>
        /\ UNCHANGED <<cited, form, geste, backup, missing, left, forgotten, erased>>

-----------------------------------------------------------------------------
(***************************************************************************)
(* Starting again (db.ts).                                                 *)
(***************************************************************************)
StopService ==
    /\ stop
    /\ UNCHANGED <<disk, fileRows, citations, backup, fileHistory>>

\* what the document, the sheets and the gestures cite, and the other table
referenced ==
    cited \union {l[2] : l \in links} \union ids(ofKind("finances"))
          \union IF geste THEN ids(ofKind("maintenance")) ELSE {}

\* pruneUnreferencedFiles(), then the service listens
StartAgain ==
    LET gone == {r \in fileRows : r.id \notin referenced}
    IN  /\ ~serving
        /\ serving' = TRUE /\ UNCHANGED stopsMade
        /\ fileRows' = fileRows \ gone
        /\ disk' = releaseBlob(disk, fileRows', gone)
        /\ forgotten' = forgotten \union (form \intersect ids(gone))
        /\ UNCHANGED <<citations, backup, missing, rolledBack, left, erased>>

FilesNext ==
    \/ \E b \in Blob :
           \/ \E k \in OwnerKinds : postPhoto(k, b)
           \/ storeCut(b) \/ attachCut(b)
           \/ \E k \in {"maintenance", "finances"} : postOwned(k, b)
           \/ \E item \in Item : attach(item, b)
    \/ \E l \in links : detach(l)
    \/ \E r \in fileRows : removeOwned(r) \/ deletePhoto(r)
    \/ \E id \in FileId : savePhoto(id) \/ leavePhoto(id)
    \/ removeGeste \/ exportModule \/ restoreModule \/ resetModule
    \/ StopService \/ StartAgain

FilesSpec == FilesInit /\ [][FilesNext]_fileVars

-----------------------------------------------------------------------------
\* "Un fichier n'est effacé que lorsque plus aucune table ne le réclame"
\* (docs/cuisine-architecture.md): whatever is shared, restored, pruned or cut
\* short, a sheet cites a row; a photo of a saved recipe or article has one,
\* unless its form was open when the service started again, or it was deleted
\* through DELETE /api/files/:id, which looks at no citation; and every row has
\* its bytes, unless a restoration did not find them or a reset was rolled back
\* after erasing them.
CitedIsThere ==
    /\ \A l \in links : \E r \in ofKind("equipment") : r.id = l[2]
    /\ cited \ (forgotten \union erased) \subseteq ids(ofKind("recipe") \union ofKind("shop"))
    /\ \A r \in fileRows : r.sha \in disk \/ r.id \in missing \union rolledBack

\* Nothing is left on the disk that no row holds, but for what a stop between
\* the two cut short.
DiskIsHeld == disk \ left \subseteq holding(fileRows)
=============================================================================
