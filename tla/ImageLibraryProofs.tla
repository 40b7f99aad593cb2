------------------------- MODULE ImageLibraryProofs -------------------------
(***************************************************************************)
(* Theorems about the images on the card, for any files, uploads and       *)
(* failures: the sessions exclude one another, what was acknowledged is    *)
(* stored, and no one failure loses an image.                              *)
(***************************************************************************)
EXTENDS ImageLibrary, TLAPS

-----------------------------------------------------------------------------
(* The inductive invariant *)

Published == {"drop_backup", "drop_compressed"}
Replacing == {"clear_backup", "keep", "publish"}
Synced == Replacing \cup {"restore"} \cup Published
Finishing == Synced \cup {"sync"}

\* Who holds the upload at each call, and that a copy's source is open only while
\* the copy is erased or written.
SessionsAgree ==
    /\ Exclusive
    /\ upload.open => upload.active /\ upload.file \in Files
    /\ upload.active /\ upload.file # Slot => upload.file \in Files /\ upload.id \in Uploads
    /\ copy \in {"erasing", "writing"} <=> source # None
    /\ call \in {"clear_temp", "create"} =>
          /\ Available /\ upload.file \in Files
          /\ upload.id = begun /\ begun \in Uploads
          /\ \A f \in Files, role \in Roles : dir[f][role] # begun
    /\ call = "abort" => upload.file \in Files /\ ~upload.open
    /\ call \in Finishing => upload.active /\ upload.file \in Files
    /\ call \in Synced => ~upload.open

\* No copy has two names, none is from an upload to come, and what took or had the
\* place of a destination is whole.
CardSound ==
    /\ \A f, g \in Files, r, q \in Roles :
          dir[f][r] = dir[g][q] /\ dir[f][r] # None => f = g /\ r = q
    /\ \A f \in Files, r \in Roles : dir[f][r] \in Uploads => dir[f][r] <= begun
    /\ \A f \in Files : \A role \in {"dest", "backup"} :
          Has(f, role) => dir[f][role] \in whole

\* Where the upload under way is on the card.
UploadOnCard ==
    /\ call \in Replacing => dir[upload.file]["temp"] = upload.id
    /\ call \in Published => dir[upload.file]["dest"] = upload.id /\ upload.id \in whole

\* A file that was synced has lost its acknowledgement.
AckAgrees ==
    /\ AckMeansStored
    /\ call \in Synced => acked[upload.file] = None

\* The K2 knows no page of a scan to come.
PagesAgree ==
    /\ known.gen <= catalog.gen
    /\ PageOfOwnScan

\* The image that the call under way leaves only under the temporary's name.
InTemp(f) == call \in {"keep", "publish"} /\ f = upload.file

\* Without trouble there is a backup only while it is needed; after one, an image is
\* under one of the two names, or in the temporary that is about to be published.
KeptThroughOne ==
    /\ troubles = 0 =>
          /\ \A f \in Files : Has(f, "backup") =>
                f = upload.file /\ call \in {"publish", "drop_backup"}
          /\ \A f \in published : Has(f, "dest") \/ Has(f, "backup")
          /\ call = "publish" => ~Has(upload.file, "dest")
          /\ call # "restore"
    /\ troubles = 1 =>
          \A f \in published : Has(f, "dest") \/ Has(f, "backup") \/ InTemp(f)

ServiceInv ==
    /\ LibraryTypes
    /\ SessionsAgree
    /\ CardSound
    /\ UploadOnCard
    /\ AckAgrees
    /\ KeptThroughOne

LibraryInv == ServiceInv /\ PagesAgree

USE DEF disk, sessions, pages, history, command, vars

-----------------------------------------------------------------------------
(* The card *)

Dirs == [Files -> [Roles -> Copies \cup {None}]]

\* What the removal of a file, or the failure to remove it, leaves.
LEMMA RemoveEffect ==
    ASSUME LibraryTypes, NEW f \in Files, NEW role \in Roles, Remove(f, role)
    PROVE  /\ dir' \in Dirs /\ whole' \subseteq Copies
           /\ dir'[f][role] \in {None, dir[f][role]}
           /\ \A g \in Files, r \in Roles :
                 f # g \/ role # r => dir'[g][r] = dir[g][r]
           /\ \A c \in whole : c # dir[f][role] \/ c = dir'[f][role] => c \in whole'
           /\ troubles' \in 0..MaxTroubles
           /\ \/ troubles' = troubles /\ dir'[f][role] = None
              \/ troubles' = troubles + 1 /\ dir'[f][role] = dir[f][role]
<1>1. /\ dir \in Dirs /\ whole \subseteq Copies /\ troubles \in 0..MaxTroubles
      /\ None \notin Copies
  BY CopiesAssumption, LibraryAssumption DEF LibraryTypes, StateTypes, Dirs, Copies
<1>2. CASE Works /\ dir' = [dir EXCEPT ![f][role] = None] /\ whole' = whole \ {dir[f][role]}
  BY <1>1, <1>2 DEF Works, Dirs
<1>3. CASE Has(f, role) /\ Fails /\ UNCHANGED <<dir, whole>>
  BY <1>1, <1>3, LibraryAssumption DEF Fails, Dirs
<1>4. QED
  BY <1>2, <1>3 DEF Remove

\* What a rename leaves.
LEMMA RenameEffect ==
    ASSUME LibraryTypes, NEW f \in Files, NEW from \in Roles, NEW to \in Roles, from # to,
           Renamed(f, from, to)
    PROVE  /\ dir' \in Dirs
           /\ dir'[f][to] = dir[f][from] /\ dir'[f][from] = None
           /\ \A g \in Files, r \in Roles :
                 f # g \/ r \notin {from, to} => dir'[g][r] = dir[g][r]
BY DEF LibraryTypes, StateTypes, Dirs, Renamed

LEMMA RemoveKeepsCard ==
    ASSUME LibraryTypes, CardSound, NEW f \in Files, NEW role \in Roles, Remove(f, role),
           begun' = begun
    PROVE  CardSound'
<1>1. \A g \in Files, r \in Roles : dir'[g][r] \in {None, dir[g][r]}
  BY RemoveEffect
<1>2. \A g \in Files, r \in Roles : dir'[g][r] \in Uploads => dir'[g][r] <= begun
  BY <1>1, CopiesAssumption DEF CardSound
<1>3. ASSUME NEW g \in Files, NEW r \in {"dest", "backup"}, dir'[g][r] # None
      PROVE  dir'[g][r] \in whole'
  <2>1. r \in Roles /\ dir'[g][r] = dir[g][r] /\ dir[g][r] \in whole
    BY <1>1, <1>3 DEF Roles, CardSound, Has
  <2>2. CASE f = g /\ role = r
    BY <2>1, <2>2, RemoveEffect
  <2>3. CASE f # g \/ role # r
    BY <1>3, <2>1, <2>3, RemoveEffect DEF CardSound
  <2>4. QED
    BY <2>2, <2>3
<1>4. QED
  BY <1>1, <1>2, <1>3 DEF CardSound, Has

\* A file that becomes a destination or a backup is whole.
LEMMA RenameKeepsCard ==
    ASSUME LibraryTypes, CardSound, NEW f \in Files, NEW from \in Roles, NEW to \in Roles,
           from # to, Renamed(f, from, to), dir[f][from] \in whole,
           UNCHANGED <<whole, begun>>
    PROVE  CardSound'
<1>1. \A g \in Files, r \in Roles :
         dir'[g][r] = IF f = g /\ r = to THEN dir[f][from]
                      ELSE IF f = g /\ r = from THEN None ELSE dir[g][r]
  BY RenameEffect
<1>2. \A g, h \in Files, r, q \in Roles :
         dir'[g][r] = dir'[h][q] /\ dir'[g][r] # None => g = h /\ r = q
  BY <1>1 DEF CardSound
<1>3. \A g \in Files, r \in Roles : dir'[g][r] \in Uploads => dir'[g][r] <= begun
  BY <1>1, CopiesAssumption DEF CardSound
<1>4. \A g \in Files : \A r \in {"dest", "backup"} :
         dir'[g][r] # None => dir'[g][r] \in whole
  BY <1>1 DEF CardSound, Has, Roles
<1>5. QED
  BY <1>2, <1>3, <1>4 DEF CardSound, Has

-----------------------------------------------------------------------------
(* Steps that leave the card as it is *)

\* A step that leaves the card as it is and no upload between its sync and its end.
LEMMA OffCard ==
    ASSUME ServiceInv, UNCHANGED <<dir, whole, published, acked>>,
           call' \notin Synced, begun' \in {begun, begun + 1},
           upload'.open => upload.open /\ upload'.file = upload.file /\ upload'.id = upload.id,
           \/ troubles' = troubles /\ call \notin Synced
           \/ troubles' = troubles + 1
    PROVE  /\ OpenIsTemporary' /\ OnlyWholeReplaces'
           /\ CardSound' /\ UploadOnCard' /\ AckAgrees' /\ KeptThroughOne'
<1>1. begun \in Nat /\ troubles \in Nat
  BY DEF ServiceInv, LibraryTypes, StateTypes
<1>2. OpenIsTemporary' /\ OnlyWholeReplaces'
  BY DEF ServiceInv, LibraryTypes, OpenIsTemporary, OnlyWholeReplaces, Synced, Replacing,
         Published
<1>3. CardSound'
  BY <1>1 DEF ServiceInv, CardSound, Has, Uploads
<1>4. UploadOnCard' /\ AckAgrees'
  BY DEF ServiceInv, UploadOnCard, AckAgrees, AckMeansStored, Synced, Replacing, Published
<1>5. KeptThroughOne'
  BY <1>1 DEF ServiceInv, KeptThroughOne, InTemp, Has, Synced, Replacing, Published
<1>6. QED
  BY <1>2, <1>3, <1>4, <1>5

LEMMA BeginUploadKeeps ==
    ASSUME ServiceInv, NEW f \in Files, BeginUpload(f)
    PROVE  ServiceInv'
<1>1. begun + 1 \in Uploads /\ begun' = begun + 1
  BY LibraryAssumption DEF ServiceInv, LibraryTypes, StateTypes, BeginUpload, Uploads
<1>2. upload' = [active |-> FALSE, file |-> f, id |-> begun + 1, data |-> "part", open |-> FALSE]
  BY DEF BeginUpload
<1>3. upload' \in UploadSessions
  BY <1>1, <1>2 DEF UploadSessions, Copies
<1>4. StateTypes'
  BY <1>1, <1>3, LibraryAssumption
     DEF ServiceInv, LibraryTypes, StateTypes, BeginUpload, Calls, Uploads
<1>5. SessionsAgree'
  <2>1. \A g \in Files, role \in Roles : dir[g][role] # begun + 1
    BY <1>1 DEF ServiceInv, LibraryTypes, StateTypes, CardSound
  <2>2. QED
    BY <1>1, <1>2, <2>1, LibraryAssumption
       DEF ServiceInv, SessionsAgree, Exclusive, Finishing, Synced, Replacing, Published,
           BeginUpload, Available
<1>6. /\ OpenIsTemporary' /\ OnlyWholeReplaces'
      /\ CardSound' /\ UploadOnCard' /\ AckAgrees' /\ KeptThroughOne'
  BY <1>1, <1>2, OffCard DEF BeginUpload, Idle, Synced, Replacing, Published
<1>7. QED
  BY <1>4, <1>5, <1>6 DEF ServiceInv, LibraryTypes

LEMMA DataKeeps ==
    ASSUME ServiceInv, Data
    PROVE  ServiceInv'
<1>1. upload' \in UploadSessions
  BY DEF ServiceInv, LibraryTypes, StateTypes, UploadSessions, Data
<1>2. StateTypes'
  BY <1>1, LibraryAssumption DEF ServiceInv, LibraryTypes, StateTypes, Data, Idle,
     Fails, Works, Calls, CopyStates
<1>3. SessionsAgree'
  BY LibraryAssumption DEF ServiceInv, LibraryTypes, StateTypes, UploadSessions,
     SessionsAgree, Exclusive, Finishing, Synced, Replacing, Published, Data, Idle,
     Available
<1>4. /\ OpenIsTemporary' /\ OnlyWholeReplaces'
      /\ CardSound' /\ UploadOnCard' /\ AckAgrees' /\ KeptThroughOne'
  BY OffCard DEF ServiceInv, LibraryTypes, StateTypes, UploadSessions,
     SessionsAgree, Data, Idle, Fails, Works, Synced, Replacing, Published
<1>5. QED
  BY <1>2, <1>3, <1>4 DEF ServiceInv, LibraryTypes

LEMMA EndKeeps ==
    ASSUME ServiceInv, End
    PROVE  ServiceInv'
<1>1. upload' \in UploadSessions
  BY DEF ServiceInv, LibraryTypes, StateTypes, UploadSessions, End, BeginFinish
<1>2. StateTypes'
  BY <1>1, LibraryAssumption DEF ServiceInv, LibraryTypes, StateTypes, End, Idle,
     Complete, BeginFinish, Fails, Works, Calls, CopyStates
<1>3. SessionsAgree'
  BY LibraryAssumption DEF ServiceInv, LibraryTypes, StateTypes, UploadSessions,
     SessionsAgree, Exclusive, Finishing, Synced, Replacing, Published, End, Idle,
     Complete, BeginFinish, Available
<1>4. /\ OpenIsTemporary' /\ OnlyWholeReplaces'
      /\ CardSound' /\ UploadOnCard' /\ AckAgrees' /\ KeptThroughOne'
  BY OffCard DEF ServiceInv, LibraryTypes, StateTypes, UploadSessions,
     SessionsAgree, End, Idle, Complete, BeginFinish, Fails, Works, Synced, Replacing,
     Published
<1>5. QED
  BY <1>2, <1>3, <1>4 DEF ServiceInv, LibraryTypes

LEMMA AbortKeeps ==
    ASSUME ServiceInv, Abort
    PROVE  ServiceInv'
<1>1. upload' \in UploadSessions
  BY DEF ServiceInv, LibraryTypes, StateTypes, UploadSessions, Abort
<1>2. StateTypes'
  BY <1>1, LibraryAssumption DEF ServiceInv, LibraryTypes, StateTypes, Abort, Idle,
     Fails, Works, Calls, CopyStates
<1>3. SessionsAgree'
  BY LibraryAssumption DEF ServiceInv, LibraryTypes, StateTypes, UploadSessions,
     SessionsAgree, Exclusive, Finishing, Synced, Replacing, Published, Abort, Idle,
     Available
<1>4. /\ OpenIsTemporary' /\ OnlyWholeReplaces'
      /\ CardSound' /\ UploadOnCard' /\ AckAgrees' /\ KeptThroughOne'
  BY OffCard DEF ServiceInv, LibraryTypes, StateTypes, UploadSessions,
     SessionsAgree, Abort, Idle, Fails, Works, Synced, Replacing, Published
<1>5. QED
  BY <1>2, <1>3, <1>4 DEF ServiceInv, LibraryTypes

LEMMA DeselectKeeps ==
    ASSUME ServiceInv, Deselect
    PROVE  ServiceInv'
<1>1. upload' \in UploadSessions
  BY DEF ServiceInv, LibraryTypes, StateTypes, UploadSessions, Deselect
<1>2. StateTypes'
  BY <1>1, LibraryAssumption DEF ServiceInv, LibraryTypes, StateTypes, Deselect,
     Fails, Works, Calls, CopyStates
<1>3. SessionsAgree'
  BY LibraryAssumption DEF ServiceInv, LibraryTypes, StateTypes, UploadSessions,
     SessionsAgree, Exclusive, Finishing, Synced, Replacing, Published, Deselect,
     Available
<1>4. /\ OpenIsTemporary' /\ OnlyWholeReplaces'
      /\ CardSound' /\ UploadOnCard' /\ AckAgrees' /\ KeptThroughOne'
  BY OffCard DEF ServiceInv, LibraryTypes, StateTypes, UploadSessions,
     SessionsAgree, Deselect, Fails, Works, Synced, Replacing, Published
<1>5. QED
  BY <1>2, <1>3, <1>4 DEF ServiceInv, LibraryTypes

LEMMA SelectKeeps ==
    ASSUME ServiceInv, NEW f \in Files, Select(f)
    PROVE  ServiceInv'
<1>1. upload' \in UploadSessions
  BY DEF ServiceInv, LibraryTypes, StateTypes, UploadSessions, Select
<1>2. StateTypes'
  BY <1>1, LibraryAssumption DEF ServiceInv, LibraryTypes, StateTypes, Select, Idle,
     Fails, Works, Calls, CopyStates
<1>3. SessionsAgree'
  BY LibraryAssumption DEF ServiceInv, LibraryTypes, StateTypes, UploadSessions,
     SessionsAgree, Exclusive, Finishing, Synced, Replacing, Published, Select, Idle,
     Available
<1>4. /\ OpenIsTemporary' /\ OnlyWholeReplaces'
      /\ CardSound' /\ UploadOnCard' /\ AckAgrees' /\ KeptThroughOne'
  BY OffCard DEF ServiceInv, LibraryTypes, StateTypes, UploadSessions,
     SessionsAgree, Select, Idle, Fails, Works, Synced, Replacing, Published
<1>5. QED
  BY <1>2, <1>3, <1>4 DEF ServiceInv, LibraryTypes

LEMMA BeginCopyKeeps ==
    ASSUME ServiceInv, NEW f \in Files, BeginCopy(f)
    PROVE  ServiceInv'
<1>1. upload' \in UploadSessions
  <2>1. dir[f]["dest"] \in Copies \cup {None}
    BY DEF ServiceInv, LibraryTypes, StateTypes, Roles
  <2>2. CASE upload' = [active |-> TRUE, file |-> Slot, id |-> dir[f]["dest"],
                        data |-> "part", open |-> FALSE]
    BY <2>1, <2>2 DEF UploadSessions
  <2>3. CASE upload' = [upload EXCEPT !.file = Slot]
    BY <2>3 DEF ServiceInv, LibraryTypes, StateTypes, UploadSessions
  <2>4. QED
    BY <2>2, <2>3 DEF BeginCopy
<1>2. StateTypes'
  BY <1>1, LibraryAssumption DEF ServiceInv, LibraryTypes, StateTypes, BeginCopy,
     Idle, Available, Has, Fails, Works, Calls, CopyStates
<1>3. SessionsAgree'
  BY LibraryAssumption DEF ServiceInv, LibraryTypes, StateTypes, UploadSessions,
     SessionsAgree, Exclusive, Finishing, Synced, Replacing, Published, BeginCopy,
     Idle, Available
<1>4. /\ OpenIsTemporary' /\ OnlyWholeReplaces'
      /\ CardSound' /\ UploadOnCard' /\ AckAgrees' /\ KeptThroughOne'
  BY OffCard DEF ServiceInv, LibraryTypes, StateTypes, UploadSessions,
     SessionsAgree, BeginCopy, Idle, Available, Has, Fails, Works, Synced, Replacing,
     Published
<1>5. QED
  BY <1>2, <1>3, <1>4 DEF ServiceInv, LibraryTypes

LEMMA CopyEraseKeeps ==
    ASSUME ServiceInv, CopyErase
    PROVE  ServiceInv'
<1>1. upload' \in UploadSessions
  BY DEF ServiceInv, LibraryTypes, StateTypes, UploadSessions, CopyErase, FailCopy
<1>2. StateTypes'
  BY <1>1, LibraryAssumption DEF ServiceInv, LibraryTypes, StateTypes, CopyErase,
     Idle, FailCopy, Fails, Works, Calls, CopyStates
<1>3. SessionsAgree'
  BY LibraryAssumption DEF ServiceInv, LibraryTypes, StateTypes, UploadSessions,
     SessionsAgree, Exclusive, Finishing, Synced, Replacing, Published, CopyErase,
     Idle, FailCopy, Available
<1>4. /\ OpenIsTemporary' /\ OnlyWholeReplaces'
      /\ CardSound' /\ UploadOnCard' /\ AckAgrees' /\ KeptThroughOne'
  BY OffCard DEF ServiceInv, LibraryTypes, StateTypes, UploadSessions,
     SessionsAgree, CopyErase, Idle, FailCopy, Fails, Works, Synced, Replacing,
     Published
<1>5. QED
  BY <1>2, <1>3, <1>4 DEF ServiceInv, LibraryTypes

LEMMA CopyWriteKeeps ==
    ASSUME ServiceInv, CopyWrite
    PROVE  ServiceInv'
<1>1. upload' \in UploadSessions
  BY DEF ServiceInv, LibraryTypes, StateTypes, UploadSessions, CopyWrite, FailCopy
<1>2. StateTypes'
  BY <1>1, LibraryAssumption DEF ServiceInv, LibraryTypes, StateTypes, CopyWrite,
     Idle, FailCopy, Fails, Works, Calls, CopyStates
<1>3. SessionsAgree'
  BY LibraryAssumption DEF ServiceInv, LibraryTypes, StateTypes, UploadSessions,
     SessionsAgree, Exclusive, Finishing, Synced, Replacing, Published, CopyWrite,
     Idle, FailCopy, Available
<1>4. /\ OpenIsTemporary' /\ OnlyWholeReplaces'
      /\ CardSound' /\ UploadOnCard' /\ AckAgrees' /\ KeptThroughOne'
  BY OffCard DEF ServiceInv, LibraryTypes, StateTypes, UploadSessions,
     SessionsAgree, CopyWrite, Idle, FailCopy, Fails, Works, Synced, Replacing,
     Published
<1>5. QED
  BY <1>2, <1>3, <1>4 DEF ServiceInv, LibraryTypes

LEMMA StoreCopyKeeps ==
    ASSUME ServiceInv, NEW step \in BOOLEAN, StoreCopy(step)
    PROVE  ServiceInv'
<1>1. upload' \in UploadSessions
  BY DEF ServiceInv, LibraryTypes, StateTypes, UploadSessions, StoreCopy
<1>2. StateTypes'
  BY <1>1, LibraryAssumption DEF ServiceInv, LibraryTypes, StateTypes, StoreCopy,
     Idle, Fails, Works, Calls, CopyStates
<1>3. SessionsAgree'
  BY LibraryAssumption DEF ServiceInv, LibraryTypes, StateTypes, UploadSessions,
     SessionsAgree, Exclusive, Finishing, Synced, Replacing, Published, StoreCopy,
     Idle, Available
<1>4. /\ OpenIsTemporary' /\ OnlyWholeReplaces'
      /\ CardSound' /\ UploadOnCard' /\ AckAgrees' /\ KeptThroughOne'
  BY OffCard DEF ServiceInv, LibraryTypes, StateTypes, UploadSessions,
     SessionsAgree, StoreCopy, Idle, Fails, Works, Synced, Replacing, Published
<1>5. QED
  BY <1>2, <1>3, <1>4 DEF ServiceInv, LibraryTypes

LEMMA StaleStepKeeps ==
    ASSUME ServiceInv, StaleStep
    PROVE  ServiceInv'
<1>1. upload' \in UploadSessions
  BY DEF ServiceInv, LibraryTypes, StateTypes, UploadSessions, StaleStep,
     BeginFinish
<1>2. StateTypes'
  BY <1>1, LibraryAssumption DEF ServiceInv, LibraryTypes, StateTypes, StaleStep,
     Idle, Complete, BeginFinish, Fails, Works, Calls, CopyStates
<1>3. SessionsAgree'
  <2>1. source = None
    BY DEF ServiceInv, SessionsAgree, Exclusive, StaleStep
  <2>2. CASE Complete /\ BeginFinish(TRUE)
    BY <2>1, <2>2
       DEF ServiceInv, SessionsAgree, Exclusive, Finishing, Synced, Replacing, Published,
           Complete, BeginFinish, Available
  <2>3. CASE ~Complete
    <3>1. /\ copy' = "failed" /\ call' = IF upload.file = Slot THEN "none" ELSE "abort"
          /\ upload' = [upload EXCEPT !.active = FALSE, !.open = FALSE]
          /\ UNCHANGED <<dir, source, read, firmware, begun>>
      BY <2>3 DEF StaleStep
    <3>2. /\ upload.file \in Files \cup {Slot}
          /\ ~upload'.active /\ ~upload'.open /\ upload'.file = upload.file
      BY <3>1 DEF ServiceInv, LibraryTypes, StateTypes, UploadSessions
    <3>3. QED
      BY <2>1, <3>1, <3>2
         DEF ServiceInv, SessionsAgree, Exclusive, Finishing, Synced, Replacing, Published
  <2>4. QED
    BY <2>2, <2>3 DEF StaleStep
<1>4. /\ OpenIsTemporary' /\ OnlyWholeReplaces'
      /\ CardSound' /\ UploadOnCard' /\ AckAgrees' /\ KeptThroughOne'
  BY OffCard DEF ServiceInv, LibraryTypes, StateTypes, UploadSessions,
     SessionsAgree, StaleStep, Idle, Complete, BeginFinish, Fails, Works, Synced,
     Replacing, Published
<1>5. QED
  BY <1>2, <1>3, <1>4 DEF ServiceInv, LibraryTypes

LEMMA BeginReadKeeps ==
    ASSUME ServiceInv, NEW f \in Files, BeginRead(f)
    PROVE  ServiceInv'
<1>1. upload' \in UploadSessions
  BY DEF ServiceInv, LibraryTypes, StateTypes, UploadSessions, BeginRead
<1>2. StateTypes'
  BY <1>1, LibraryAssumption DEF ServiceInv, LibraryTypes, StateTypes, BeginRead,
     Idle, Available, Scan, Visible, Fails, Works, Calls, CopyStates
<1>3. SessionsAgree'
  BY LibraryAssumption DEF ServiceInv, LibraryTypes, StateTypes, UploadSessions,
     SessionsAgree, Exclusive, Finishing, Synced, Replacing, Published, BeginRead,
     Idle, Available
<1>4. /\ OpenIsTemporary' /\ OnlyWholeReplaces'
      /\ CardSound' /\ UploadOnCard' /\ AckAgrees' /\ KeptThroughOne'
  BY OffCard DEF ServiceInv, LibraryTypes, StateTypes, UploadSessions,
     SessionsAgree, BeginRead, Idle, Available, Scan, Visible, Fails, Works, Synced,
     Replacing, Published
<1>5. QED
  BY <1>2, <1>3, <1>4 DEF ServiceInv, LibraryTypes

LEMMA EndReadKeeps ==
    ASSUME ServiceInv, EndRead
    PROVE  ServiceInv'
<1>1. upload' \in UploadSessions
  BY DEF ServiceInv, LibraryTypes, StateTypes, UploadSessions, EndRead
<1>2. StateTypes'
  BY <1>1, LibraryAssumption DEF ServiceInv, LibraryTypes, StateTypes, EndRead,
     Idle, Fails, Works, Calls, CopyStates
<1>3. SessionsAgree'
  BY LibraryAssumption DEF ServiceInv, LibraryTypes, StateTypes, UploadSessions,
     SessionsAgree, Exclusive, Finishing, Synced, Replacing, Published, EndRead, Idle,
     Available
<1>4. /\ OpenIsTemporary' /\ OnlyWholeReplaces'
      /\ CardSound' /\ UploadOnCard' /\ AckAgrees' /\ KeptThroughOne'
  BY OffCard DEF ServiceInv, LibraryTypes, StateTypes, UploadSessions,
     SessionsAgree, EndRead, Idle, Fails, Works, Synced, Replacing, Published
<1>5. QED
  BY <1>2, <1>3, <1>4 DEF ServiceInv, LibraryTypes

LEMMA CatalogueKeeps ==
    ASSUME ServiceInv, Catalogue
    PROVE  ServiceInv'
<1>1. upload' \in UploadSessions
  BY DEF ServiceInv, LibraryTypes, StateTypes, UploadSessions, Catalogue
<1>2. StateTypes'
  BY <1>1, LibraryAssumption DEF ServiceInv, LibraryTypes, StateTypes, Catalogue,
     Idle, Scan, Visible, Fails, Works, Calls, CopyStates
<1>3. SessionsAgree'
  BY LibraryAssumption DEF ServiceInv, LibraryTypes, StateTypes, UploadSessions,
     SessionsAgree, Exclusive, Finishing, Synced, Replacing, Published, Catalogue,
     Idle, Available
<1>4. /\ OpenIsTemporary' /\ OnlyWholeReplaces'
      /\ CardSound' /\ UploadOnCard' /\ AckAgrees' /\ KeptThroughOne'
  BY OffCard DEF ServiceInv, LibraryTypes, StateTypes, UploadSessions,
     SessionsAgree, Catalogue, Idle, Scan, Visible, Fails, Works, Synced, Replacing,
     Published
<1>5. QED
  BY <1>2, <1>3, <1>4 DEF ServiceInv, LibraryTypes

LEMMA BeginFirmwareKeeps ==
    ASSUME ServiceInv, BeginFirmware
    PROVE  ServiceInv'
<1>1. upload' \in UploadSessions
  BY DEF ServiceInv, LibraryTypes, StateTypes, UploadSessions, BeginFirmware
<1>2. StateTypes'
  BY <1>1, LibraryAssumption DEF ServiceInv, LibraryTypes, StateTypes,
     BeginFirmware, Idle, Fails, Works, Calls, CopyStates
<1>3. SessionsAgree'
  BY LibraryAssumption DEF ServiceInv, LibraryTypes, StateTypes, UploadSessions,
     SessionsAgree, Exclusive, Finishing, Synced, Replacing, Published, BeginFirmware,
     Idle, Available
<1>4. /\ OpenIsTemporary' /\ OnlyWholeReplaces'
      /\ CardSound' /\ UploadOnCard' /\ AckAgrees' /\ KeptThroughOne'
  BY OffCard DEF ServiceInv, LibraryTypes, StateTypes, UploadSessions,
     SessionsAgree, BeginFirmware, Idle, Fails, Works, Synced, Replacing, Published
<1>5. QED
  BY <1>2, <1>3, <1>4 DEF ServiceInv, LibraryTypes

LEMMA EndFirmwareKeeps ==
    ASSUME ServiceInv, EndFirmware
    PROVE  ServiceInv'
<1>1. upload' \in UploadSessions
  BY DEF ServiceInv, LibraryTypes, StateTypes, UploadSessions, EndFirmware
<1>2. StateTypes'
  BY <1>1, LibraryAssumption DEF ServiceInv, LibraryTypes, StateTypes, EndFirmware,
     Idle, Fails, Works, Calls, CopyStates
<1>3. SessionsAgree'
  BY LibraryAssumption DEF ServiceInv, LibraryTypes, StateTypes, UploadSessions,
     SessionsAgree, Exclusive, Finishing, Synced, Replacing, Published, EndFirmware,
     Idle, Available
<1>4. /\ OpenIsTemporary' /\ OnlyWholeReplaces'
      /\ CardSound' /\ UploadOnCard' /\ AckAgrees' /\ KeptThroughOne'
  BY OffCard DEF ServiceInv, LibraryTypes, StateTypes, UploadSessions,
     SessionsAgree, EndFirmware, Idle, Fails, Works, Synced, Replacing, Published
<1>5. QED
  BY <1>2, <1>3, <1>4 DEF ServiceInv, LibraryTypes

LEMMA PowerLossKeeps ==
    ASSUME ServiceInv, PowerLoss
    PROVE  ServiceInv'
<1>1. upload' \in UploadSessions
  BY LibraryAssumption DEF ServiceInv, LibraryTypes, StateTypes, UploadSessions,
     PowerLoss, NoUpload
<1>2. StateTypes'
  <2>1. NoCatalog \in [gen: 0..MaxScans, files: SUBSET Files]
    BY LibraryAssumption DEF NoCatalog
  <2>2. troubles' \in 0..MaxTroubles
    BY LibraryAssumption DEF ServiceInv, LibraryTypes, StateTypes, PowerLoss, Fails
  <2>3. QED
    BY <1>1, <2>1, <2>2
       DEF ServiceInv, LibraryTypes, StateTypes, PowerLoss, Calls, CopyStates
<1>3. SessionsAgree'
  BY LibraryAssumption DEF ServiceInv, LibraryTypes, StateTypes, UploadSessions,
     SessionsAgree, Exclusive, Finishing, Synced, Replacing, Published, PowerLoss,
     NoUpload, Available
<1>4. /\ OpenIsTemporary' /\ OnlyWholeReplaces'
      /\ CardSound' /\ UploadOnCard' /\ AckAgrees' /\ KeptThroughOne'
  BY OffCard DEF ServiceInv, LibraryTypes, StateTypes, UploadSessions,
     SessionsAgree, PowerLoss, NoUpload, NoCatalog, Fails, Works, Synced, Replacing,
     Published
<1>5. QED
  BY <1>2, <1>3, <1>4 DEF ServiceInv, LibraryTypes

-----------------------------------------------------------------------------
(* Steps on the card *)

\* The removal of a name that no acknowledged file has keeps what was acknowledged.
LEMMA RemoveKeepsAcks ==
    ASSUME ServiceInv, NEW f \in Files, NEW role \in Roles \ {"dest"}, Remove(f, role),
           acked' = acked
    PROVE  AckMeansStored'
<1> SUFFICES ASSUME NEW g \in Files, acked[g] # None
             PROVE  dir'[g]["dest"] = acked[g] /\ acked[g] \in whole'
  BY DEF AckMeansStored
<1>1. dir[g]["dest"] = acked[g] /\ acked[g] \in whole
  BY DEF ServiceInv, AckAgrees, AckMeansStored
<1>2. dir'[g]["dest"] = dir[g]["dest"]
  BY RemoveEffect DEF ServiceInv, Roles
<1>3. acked[g] # dir[f][role]
  BY <1>1 DEF ServiceInv, CardSound, Roles
<1>4. QED
  BY <1>1, <1>2, <1>3, RemoveEffect DEF ServiceInv

\* The temporary of no upload between its sync and its end is removed.
LEMMA TempRemoved ==
    ASSUME ServiceInv, upload.file \in Files, Remove(upload.file, "temp"),
           call \notin Synced, call' \notin Synced, ~upload'.open,
           UNCHANGED <<begun, published, acked>>
    PROVE  /\ OpenIsTemporary' /\ OnlyWholeReplaces'
           /\ CardSound' /\ UploadOnCard' /\ AckAgrees' /\ KeptThroughOne'
<1>1. /\ \A g \in Files : dir'[g]["dest"] = dir[g]["dest"] /\ dir'[g]["backup"] = dir[g]["backup"]
      /\ troubles' \in {troubles, troubles + 1} /\ troubles \in Nat
  BY RemoveEffect DEF ServiceInv, LibraryTypes, StateTypes, Roles
<1>2. OpenIsTemporary' /\ OnlyWholeReplaces' /\ UploadOnCard'
  BY DEF OpenIsTemporary, OnlyWholeReplaces, UploadOnCard, Synced, Replacing, Published
<1>3. CardSound' /\ AckAgrees'
  BY RemoveKeepsCard, RemoveKeepsAcks DEF ServiceInv, AckAgrees, Roles
<1>4. KeptThroughOne'
  <2>1. /\ troubles = 0 => \A f \in Files : ~Has(f, "backup")
        /\ troubles \in {0, 1} => \A f \in published : Has(f, "dest") \/ Has(f, "backup")
    BY DEF ServiceInv, KeptThroughOne, InTemp, Synced, Replacing, Published
  <2>2. troubles' \in {0, 1} => \A f \in published : Has(f, "dest")' \/ Has(f, "backup")'
    BY <1>1, <2>1 DEF ServiceInv, LibraryTypes, StateTypes, Has
  <2>3. troubles' = 0 => \A f \in Files : ~Has(f, "backup")'
    BY <1>1, <2>1 DEF Has
  <2>4. QED
    BY <2>2, <2>3 DEF KeptThroughOne, Synced, Replacing, Published
<1>5. QED
  BY <1>2, <1>3, <1>4

LEMMA ClearTempKeeps ==
    ASSUME ServiceInv, ClearTemp
    PROVE  ServiceInv'
<1>1. /\ upload.file \in Files /\ Remove(upload.file, "temp") /\ upload' = upload
      /\ ~upload.open /\ begun \in Uploads
  BY DEF ServiceInv, SessionsAgree, Available, ClearTemp
<1>2. StateTypes'
  BY <1>1, RemoveEffect
     DEF ServiceInv, LibraryTypes, StateTypes, Dirs, ClearTemp, Calls, Roles
<1>3. SessionsAgree'
  <2>1. \A f \in Files, role \in Roles : dir'[f][role] # begun
    BY <1>1, RemoveEffect, CopiesAssumption
       DEF ServiceInv, SessionsAgree, ClearTemp, Roles
  <2>2. QED
    BY <1>1, <2>1
       DEF ServiceInv, SessionsAgree, Exclusive, Available, ClearTemp, Finishing, Synced,
           Replacing, Published
<1>4. /\ OpenIsTemporary' /\ OnlyWholeReplaces'
      /\ CardSound' /\ UploadOnCard' /\ AckAgrees' /\ KeptThroughOne'
  BY <1>1, TempRemoved DEF ClearTemp, Synced, Replacing, Published
<1>5. QED
  BY <1>2, <1>3, <1>4 DEF ServiceInv, LibraryTypes

LEMMA AbortUploadKeeps ==
    ASSUME ServiceInv, AbortUpload
    PROVE  ServiceInv'
<1>1. upload.file \in Files /\ Remove(upload.file, "temp")
  BY DEF ServiceInv, SessionsAgree, AbortUpload
<1>2. /\ upload' \in UploadSessions
      /\ ~upload'.open /\ ~upload'.active /\ upload'.file = upload.file
  BY DEF ServiceInv, LibraryTypes, StateTypes, UploadSessions, AbortUpload
<1>3. StateTypes'
  BY <1>1, <1>2, RemoveEffect
     DEF ServiceInv, LibraryTypes, StateTypes, Dirs, AbortUpload, Calls, Roles
<1>4. SessionsAgree'
  BY <1>1, <1>2, LibraryAssumption
     DEF ServiceInv, SessionsAgree, Exclusive, Available, AbortUpload, Finishing, Synced,
         Replacing, Published
<1>5. /\ OpenIsTemporary' /\ OnlyWholeReplaces'
      /\ CardSound' /\ UploadOnCard' /\ AckAgrees' /\ KeptThroughOne'
  BY <1>1, <1>2, TempRemoved DEF AbortUpload, Synced, Replacing, Published
<1>6. QED
  BY <1>3, <1>4, <1>5 DEF ServiceInv, LibraryTypes

\* A file that existed under the temporary's name is gone, the new one has no data.
LEMMA CreateKeeps ==
    ASSUME ServiceInv, Create
    PROVE  ServiceInv'
<1>1. /\ upload.file \in Files /\ upload.id = begun /\ begun \in Uploads /\ ~upload.open
      /\ ~upload.active /\ ~firmware /\ read = None /\ source = None
      /\ copy \notin {"erasing", "writing"}
      /\ \A f \in Files, role \in Roles : dir[f][role] # begun
  BY DEF ServiceInv, SessionsAgree, Exclusive, Available, Create
<1>2. CASE Works /\ UNCHANGED <<selection, kept, stepping, sessions, pages, history>>
           /\ dir' = [dir EXCEPT ![upload.file]["temp"] = upload.id]
           /\ whole' = whole \ {dir[upload.file]["temp"]}
           /\ upload' = [upload EXCEPT !.active = TRUE, !.open = TRUE]
  <2>1. /\ dir' \in Dirs /\ whole' \subseteq Copies
        /\ dir'[upload.file]["temp"] = begun
        /\ \A g \in Files, r \in Roles :
              upload.file # g \/ "temp" # r => dir'[g][r] = dir[g][r]
        /\ \A c \in whole : c # dir[upload.file]["temp"] => c \in whole'
    BY <1>1, <1>2 DEF ServiceInv, LibraryTypes, StateTypes, Dirs, Copies, Roles
  <2>2. /\ upload' \in UploadSessions /\ upload'.active /\ upload'.open
        /\ upload'.file = upload.file /\ upload'.id = upload.id
    BY <1>2 DEF ServiceInv, LibraryTypes, StateTypes, UploadSessions
  <2>3. StateTypes'
    BY <1>2, <2>1, <2>2 DEF ServiceInv, LibraryTypes, StateTypes, Dirs, Create, Calls, Works
  <2>4. OpenIsTemporary' /\ OnlyWholeReplaces' /\ UploadOnCard'
    BY <1>1, <2>1, <2>2
       DEF Create, OpenIsTemporary, OnlyWholeReplaces, UploadOnCard, Replacing, Published
  <2>5. SessionsAgree'
    BY <1>1, <1>2, <2>2
       DEF ServiceInv, SessionsAgree, Exclusive, Available, Create, Finishing, Synced,
           Replacing, Published
  <2>6. CardSound'
    <3>1. \A f, g \in Files, r, q \in Roles :
             dir'[f][r] = dir'[g][q] /\ dir'[f][r] # None => f = g /\ r = q
      BY <1>1, <2>1 DEF ServiceInv, CardSound
    <3>2. \A f \in Files, r \in Roles : dir'[f][r] \in Uploads => dir'[f][r] <= begun
      BY <1>1, <2>1 DEF ServiceInv, CardSound, Uploads
    <3>3. \A f \in Files : \A r \in {"dest", "backup"} :
             dir'[f][r] # None => dir'[f][r] \in whole'
      BY <1>1, <2>1 DEF ServiceInv, CardSound, Has, Roles
    <3>4. QED
      BY <1>2, <3>1, <3>2, <3>3 DEF CardSound, Has
  <2>7. AckAgrees'
    BY <1>1, <1>2, <2>1
       DEF ServiceInv, AckAgrees, AckMeansStored, CardSound, Create, Synced, Replacing,
           Published, Roles
  <2>8. KeptThroughOne'
    BY <1>2, <2>1, <2>2
       DEF ServiceInv, KeptThroughOne, InTemp, Has, Create, Works, Roles
  <2>9. QED
    BY <2>3, <2>4, <2>5, <2>6, <2>7, <2>8 DEF ServiceInv, LibraryTypes
<1>3. CASE Fails /\ UNCHANGED <<dir, whole, upload>>
  <2>1. StateTypes' /\ SessionsAgree'
    <3>1. StateTypes'
      BY <1>3, LibraryAssumption
         DEF ServiceInv, LibraryTypes, StateTypes, Create, Fails, Calls
    <3>2. SessionsAgree'
      BY <1>1, <1>3
         DEF ServiceInv, SessionsAgree, Exclusive, Create, Finishing, Synced, Replacing,
             Published
    <3>3. QED
      BY <3>1, <3>2
  <2>2. /\ OpenIsTemporary' /\ OnlyWholeReplaces'
        /\ CardSound' /\ UploadOnCard' /\ AckAgrees' /\ KeptThroughOne'
    BY <1>3, OffCard DEF Create, Fails, Synced, Replacing, Published
  <2>3. QED
    BY <2>1, <2>2 DEF ServiceInv, LibraryTypes
<1>4. QED
  BY <1>2, <1>3 DEF Create

\* What a step of finish_upload may rely on.
LEMMA FinishContext ==
    ASSUME ServiceInv, call \in Finishing
    PROVE  /\ upload.file \in Files /\ upload.active /\ upload.id \in Uploads
           /\ upload.id # None /\ upload.file # Slot
           /\ ~firmware /\ read = None /\ source = None
           /\ copy \notin {"erasing", "writing"}
BY LibraryAssumption, CopiesAssumption DEF ServiceInv, SessionsAgree, Exclusive

\* The sessions, when finish_upload goes on or gives up.
LEMMA FinishSessions ==
    ASSUME ServiceInv, call \in Finishing, UNCHANGED <<source, read, firmware>>,
           copy' \in {copy, "done", "failed"}, upload'.file = upload.file,
           \/ upload'.active /\ upload'.id = upload.id /\ (upload'.open => upload.open)
           \/ ~upload'.active /\ ~upload'.open,
           call' \in Synced => upload'.active /\ ~upload'.open,
           call' \in Synced \cup {"abort", "none"}, call' = "abort" => ~upload'.open
    PROVE  SessionsAgree'
BY FinishContext
   DEF SessionsAgree, Exclusive, Available, Finishing, Synced, Replacing, Published

LEMMA SyncKeeps ==
    ASSUME ServiceInv, Sync
    PROVE  ServiceInv'
<1>1. /\ call = "sync" /\ call \in Finishing
      /\ UNCHANGED <<dir, selection, kept, stepping, source, read, firmware, pages, begun,
                     published>>
  BY DEF Sync, Finishing
<1>2. /\ upload' \in UploadSessions /\ ~upload'.open /\ upload'.active
      /\ upload'.file = upload.file /\ upload'.id = upload.id
  BY <1>1, FinishContext DEF ServiceInv, LibraryTypes, StateTypes, UploadSessions, Sync
<1>3. CASE /\ upload.open /\ Works
           /\ whole' = whole \cup {upload.id}
           /\ acked' = [acked EXCEPT ![upload.file] = None]
           /\ call' = "clear_backup"
           /\ UNCHANGED copy
  <2>1. dir[upload.file]["temp"] = upload.id
    BY <1>3 DEF ServiceInv, LibraryTypes, OpenIsTemporary
  <2>2. StateTypes'
    BY <1>1, <1>2, <1>3, FinishContext
       DEF ServiceInv, LibraryTypes, StateTypes, Works, Copies, Calls
  <2>3. SessionsAgree'
    BY <1>1, <1>2, <1>3, FinishSessions DEF Synced, Replacing
  <2>4. OpenIsTemporary' /\ OnlyWholeReplaces' /\ UploadOnCard'
    BY <1>1, <1>2, <1>3, <2>1
       DEF OpenIsTemporary, OnlyWholeReplaces, UploadOnCard, Published
  <2>5. CardSound'
    BY <1>1, <1>3 DEF ServiceInv, CardSound, Has
  <2>6. AckAgrees'
    BY <1>1, <1>2, <1>3, FinishContext
       DEF ServiceInv, LibraryTypes, StateTypes, AckAgrees, AckMeansStored
  <2>7. KeptThroughOne'
    BY <1>1, <1>2, <1>3 DEF ServiceInv, KeptThroughOne, InTemp, Has, Works
  <2>8. QED
    BY <2>2, <2>3, <2>4, <2>5, <2>6, <2>7 DEF ServiceInv, LibraryTypes
<1>4. CASE /\ IF upload.open THEN Fails ELSE Works
           /\ Unfinished
           /\ UNCHANGED <<whole, acked>>
  <2>1. call' \in {"abort", "none"} /\ copy' \in {copy, "failed"}
    BY <1>4 DEF Unfinished
  <2>2. StateTypes'
    BY <1>1, <1>2, <1>4, <2>1, LibraryAssumption
       DEF ServiceInv, LibraryTypes, StateTypes, Works, Fails, Calls, CopyStates
  <2>3. SessionsAgree'
    BY <1>1, <1>2, <2>1, FinishSessions DEF Synced, Replacing, Published
  <2>4. /\ OpenIsTemporary' /\ OnlyWholeReplaces'
        /\ CardSound' /\ UploadOnCard' /\ AckAgrees' /\ KeptThroughOne'
    BY <1>1, <1>2, <1>4, <2>1, OffCard DEF Works, Fails, Synced, Replacing, Published
  <2>5. QED
    BY <2>2, <2>3, <2>4 DEF ServiceInv, LibraryTypes
<1>5. QED
  BY <1>3, <1>4 DEF Sync

\* The copy in the temporary is not the one that is removed.
LEMMA ClearBackupKeeps ==
    ASSUME ServiceInv, ClearBackup
    PROVE  ServiceInv'
<1>1. /\ call = "clear_backup" /\ call' = "keep" /\ Remove(upload.file, "backup")
      /\ UNCHANGED <<selection, upload, kept, stepping, sessions, pages, history>>
      /\ call \in Finishing /\ call \in Synced
  BY DEF ClearBackup, Finishing, Synced, Replacing
<1>2. /\ dir[upload.file]["temp"] = upload.id /\ ~upload.open
      /\ upload.id # dir[upload.file]["backup"] /\ upload.id \in whole
  BY <1>1, FinishContext
     DEF ServiceInv, UploadOnCard, CardSound, LibraryTypes, OnlyWholeReplaces, Replacing,
         Roles
<1>3. /\ dir' \in Dirs /\ whole' \subseteq Copies /\ troubles' \in 0..MaxTroubles
      /\ dir'[upload.file]["temp"] = upload.id /\ upload.id \in whole'
      /\ \A g \in Files : dir'[g]["dest"] = dir[g]["dest"]
      /\ \A g \in Files : g # upload.file => dir'[g]["backup"] = dir[g]["backup"]
      /\ \/ troubles' = troubles /\ dir'[upload.file]["backup"] = None
         \/ troubles' = troubles + 1 /\ dir'[upload.file]["backup"] = dir[upload.file]["backup"]
  BY <1>1, <1>2, FinishContext, RemoveEffect DEF ServiceInv, Roles
<1>4. StateTypes'
  BY <1>1, <1>3 DEF ServiceInv, LibraryTypes, StateTypes, Dirs, Calls
<1>5. SessionsAgree'
  BY <1>1, <1>2, FinishContext, FinishSessions DEF Synced, Replacing
<1>6. OpenIsTemporary' /\ OnlyWholeReplaces' /\ UploadOnCard'
  BY <1>1, <1>2, <1>3 DEF OpenIsTemporary, OnlyWholeReplaces, UploadOnCard, Published
<1>7. CardSound'
  BY <1>1, FinishContext, RemoveKeepsCard DEF ServiceInv, Roles
<1>8. AckAgrees'
  BY <1>1, FinishContext, RemoveKeepsAcks DEF ServiceInv, AckAgrees, Roles
<1>9. KeptThroughOne'
  <2>1. troubles \in Nat /\ published \subseteq Files
    BY DEF ServiceInv, LibraryTypes, StateTypes
  <2>2. ASSUME troubles' = 0
        PROVE  /\ \A f \in Files : ~Has(f, "backup")'
               /\ \A f \in published : Has(f, "dest")'
    BY <1>1, <1>3, <2>1, <2>2 DEF ServiceInv, KeptThroughOne, Has
  <2>3. ASSUME troubles' = 1, NEW f \in published, f # upload.file
        PROVE  Has(f, "dest")' \/ Has(f, "backup")'
    BY <1>1, <1>3, <2>1, <2>3 DEF ServiceInv, KeptThroughOne, InTemp, Has
  <2>4. QED
    BY <1>1, <2>2, <2>3 DEF KeptThroughOne, InTemp
<1>10. QED
  BY <1>4, <1>5, <1>6, <1>7, <1>8, <1>9 DEF ServiceInv, LibraryTypes

\* A rename of the file under way keeps what was acknowledged of others.
LEMMA RenameKeepsAcks ==
    ASSUME ServiceInv, call \in Synced, NEW from \in Roles, NEW to \in Roles, from # to,
           Renamed(upload.file, from, to), UNCHANGED <<whole, acked>>
    PROVE  AckMeansStored' /\ acked'[upload.file] = None
<1>1. upload.file \in Files /\ acked[upload.file] = None
  BY FinishContext DEF ServiceInv, AckAgrees, Finishing
<1>2. \A f \in Files : f # upload.file => dir'[f]["dest"] = dir[f]["dest"]
  BY <1>1, RenameEffect DEF ServiceInv, Roles
<1>3. QED
  BY <1>1, <1>2 DEF ServiceInv, AckAgrees, AckMeansStored

LEMMA KeepKeeps ==
    ASSUME ServiceInv, Keep
    PROVE  ServiceInv'
<1>1. /\ call = "keep" /\ call \in Finishing /\ call \in Synced
      /\ UNCHANGED <<whole, selection, upload, stepping, source, read, firmware, pages,
                     history>>
  BY DEF Keep, Finishing, Synced, Replacing
<1>2. /\ upload.file \in Files /\ ~upload.open /\ upload.active
      /\ dir[upload.file]["temp"] = upload.id /\ upload.id \in whole
  BY <1>1, FinishContext
     DEF ServiceInv, UploadOnCard, LibraryTypes, OnlyWholeReplaces, Replacing
<1>3. CASE /\ CanRename(upload.file, "dest", "backup") /\ Works
           /\ Renamed(upload.file, "dest", "backup")
           /\ kept' = TRUE /\ call' = "publish"
           /\ UNCHANGED copy
  <2>1. /\ dir' \in Dirs
        /\ dir'[upload.file]["backup"] = dir[upload.file]["dest"]
        /\ dir'[upload.file]["dest"] = None
        /\ dir'[upload.file]["temp"] = dir[upload.file]["temp"]
        /\ \A g \in Files, r \in Roles : upload.file # g => dir'[g][r] = dir[g][r]
    BY <1>2, <1>3, RenameEffect DEF ServiceInv, Roles
  <2>2. StateTypes'
    BY <1>1, <1>3, <2>1 DEF ServiceInv, LibraryTypes, StateTypes, Dirs, Works, Calls
  <2>3. SessionsAgree'
    BY <1>1, <1>2, <1>3, FinishSessions DEF Synced, Replacing
  <2>4. OpenIsTemporary' /\ OnlyWholeReplaces' /\ UploadOnCard'
    BY <1>1, <1>2, <1>3, <2>1
       DEF OpenIsTemporary, OnlyWholeReplaces, UploadOnCard, Published
  <2>5. CardSound'
    <3>1. dir[upload.file]["dest"] \in whole
      BY <1>2, <1>3 DEF ServiceInv, CardSound, CanRename, Has
    <3>2. QED
      BY <1>1, <1>2, <1>3, <3>1, RenameKeepsCard DEF ServiceInv, Roles
  <2>6. AckAgrees'
    BY <1>1, <1>3, RenameKeepsAcks DEF AckAgrees, Roles
  <2>7. KeptThroughOne'
    <3>1. /\ troubles' = troubles /\ published' = published /\ published \subseteq Files
          /\ Has(upload.file, "backup")' /\ ~Has(upload.file, "dest")'
          /\ \A f \in Files : f # upload.file =>
                /\ Has(f, "dest")' <=> Has(f, "dest")
                /\ Has(f, "backup")' <=> Has(f, "backup")
      BY <1>1, <1>2, <1>3, <2>1
         DEF ServiceInv, LibraryTypes, StateTypes, CanRename, Has, Works, Roles
    <3>2. QED
      BY <1>1, <1>3, <3>1 DEF ServiceInv, KeptThroughOne, InTemp
  <2>8. QED
    BY <2>2, <2>3, <2>4, <2>5, <2>6, <2>7 DEF ServiceInv, LibraryTypes
<1>4. ASSUME dir' = dir, kept' = FALSE, call' \in {"publish", "abort", "none"},
             copy' \in {copy, "failed"}, troubles' \in 0..MaxTroubles,
             \/ troubles' = troubles /\ (Has(upload.file, "backup") \/ ~Has(upload.file, "dest"))
             \/ troubles' = troubles + 1 /\ Has(upload.file, "dest"),
             call' = "publish" \/ Has(upload.file, "dest")
      PROVE  ServiceInv'
  <2>1. StateTypes'
    BY <1>1, <1>4 DEF ServiceInv, LibraryTypes, StateTypes, Calls, CopyStates
  <2>2. SessionsAgree'
    BY <1>1, <1>2, <1>4, FinishSessions DEF Synced, Replacing
  <2>3. OpenIsTemporary' /\ OnlyWholeReplaces' /\ UploadOnCard'
    BY <1>1, <1>2, <1>4 DEF OpenIsTemporary, OnlyWholeReplaces, UploadOnCard, Published
  <2>4. CardSound'
    BY <1>1, <1>4 DEF ServiceInv, CardSound, Has
  <2>5. AckAgrees'
    BY <1>1, <1>4 DEF ServiceInv, AckAgrees, AckMeansStored
  <2>6. KeptThroughOne'
    <3>1. troubles \in Nat
      BY DEF ServiceInv, LibraryTypes, StateTypes
    <3>2. QED
      BY <1>1, <1>2, <1>4, <3>1 DEF ServiceInv, KeptThroughOne, InTemp, Has
  <2>7. QED
    BY <2>1, <2>2, <2>3, <2>4, <2>5, <2>6 DEF ServiceInv, LibraryTypes
<1>5. CASE /\ ~Has(upload.file, "dest") /\ Works
           /\ kept' = FALSE /\ call' = "publish"
           /\ UNCHANGED <<dir, copy>>
  BY <1>4, <1>5 DEF Works, ServiceInv, LibraryTypes, StateTypes
<1>6. CASE /\ Has(upload.file, "dest")
           /\ IF Has(upload.file, "backup") THEN Works ELSE Fails
           /\ kept' = FALSE
           /\ IF upload.file \in RawFiles THEN call' = "publish" /\ UNCHANGED copy
              ELSE Unfinished
           /\ UNCHANGED dir
  <2>1. /\ troubles' \in 0..MaxTroubles
        /\ \/ troubles' = troubles /\ Has(upload.file, "backup")
           \/ troubles' = troubles + 1
    BY <1>6, LibraryAssumption DEF Works, Fails, ServiceInv, LibraryTypes, StateTypes
  <2>2. call' \in {"publish", "abort", "none"} /\ copy' \in {copy, "failed"}
    BY <1>6 DEF Unfinished
  <2>3. QED
    BY <1>4, <1>6, <2>1, <2>2
<1>7. QED
  BY <1>3, <1>5, <1>6 DEF Keep

LEMMA PublishKeeps ==
    ASSUME ServiceInv, Publish
    PROVE  ServiceInv'
<1>1. /\ call = "publish" /\ call \in Finishing /\ call \in Synced
      /\ UNCHANGED <<whole, selection, upload, kept, stepping, source, read, firmware, pages,
                     history>>
  BY DEF Publish, Finishing, Synced, Replacing
<1>2. /\ upload.file \in Files /\ ~upload.open /\ upload.active
      /\ dir[upload.file]["temp"] = upload.id /\ upload.id \in whole /\ upload.id # None
  BY <1>1, FinishContext
     DEF ServiceInv, UploadOnCard, LibraryTypes, OnlyWholeReplaces, Replacing
<1>3. CASE /\ CanRename(upload.file, "temp", "dest") /\ Works
           /\ Renamed(upload.file, "temp", "dest")
           /\ call' = "drop_backup"
           /\ UNCHANGED copy
  <2>1. /\ dir' \in Dirs
        /\ dir'[upload.file]["dest"] = upload.id
        /\ dir'[upload.file]["backup"] = dir[upload.file]["backup"]
        /\ \A g \in Files, r \in Roles : upload.file # g => dir'[g][r] = dir[g][r]
    BY <1>2, <1>3, RenameEffect DEF ServiceInv, Roles
  <2>2. StateTypes'
    BY <1>1, <1>3, <2>1 DEF ServiceInv, LibraryTypes, StateTypes, Dirs, Works, Calls
  <2>3. SessionsAgree'
    BY <1>1, <1>2, <1>3, FinishSessions DEF Synced, Published
  <2>4. OpenIsTemporary' /\ OnlyWholeReplaces' /\ UploadOnCard'
    BY <1>1, <1>2, <1>3, <2>1
       DEF OpenIsTemporary, OnlyWholeReplaces, UploadOnCard, Replacing, Published
  <2>5. CardSound'
    BY <1>1, <1>2, <1>3, RenameKeepsCard DEF ServiceInv, Roles
  <2>6. AckAgrees'
    BY <1>1, <1>3, RenameKeepsAcks DEF AckAgrees, Roles
  <2>7. KeptThroughOne'
    <3>1. /\ troubles' = troubles /\ published' = published /\ published \subseteq Files
          /\ Has(upload.file, "dest")'
          /\ \A f \in Files : Has(f, "backup")' <=> Has(f, "backup")
          /\ \A f \in Files : f # upload.file => (Has(f, "dest")' <=> Has(f, "dest"))
      BY <1>1, <1>2, <1>3, <2>1
         DEF ServiceInv, LibraryTypes, StateTypes, Has, Works, Roles
    <3>2. QED
      BY <1>1, <1>3, <3>1 DEF ServiceInv, KeptThroughOne, InTemp
  <2>8. QED
    BY <2>2, <2>3, <2>4, <2>5, <2>6, <2>7 DEF ServiceInv, LibraryTypes
<1>4. CASE /\ IF CanRename(upload.file, "temp", "dest") THEN Fails ELSE Works
           /\ IF kept \/ upload.file \in RawFiles
              THEN call' = "restore" /\ UNCHANGED copy
              ELSE Unfinished
           /\ UNCHANGED dir
  <2>1. /\ call' \in {"restore", "abort", "none"} /\ copy' \in {copy, "failed"}
        /\ troubles' \in 0..MaxTroubles
        /\ (troubles' = troubles /\ Has(upload.file, "dest")) \/ troubles' = troubles + 1
    BY <1>2, <1>4, LibraryAssumption
       DEF Unfinished, CanRename, Has, Works, Fails, ServiceInv, LibraryTypes, StateTypes
  <2>2. StateTypes'
    BY <1>1, <1>4, <2>1 DEF ServiceInv, LibraryTypes, StateTypes, Calls, CopyStates
  <2>3. SessionsAgree'
    BY <1>1, <1>2, <2>1, FinishSessions DEF Synced
  <2>4. OpenIsTemporary' /\ OnlyWholeReplaces' /\ UploadOnCard'
    BY <1>1, <1>2, <2>1
       DEF OpenIsTemporary, OnlyWholeReplaces, UploadOnCard, Replacing, Published
  <2>5. CardSound' /\ AckAgrees'
    BY <1>1, <1>4, <2>1 DEF ServiceInv, CardSound, Has, AckAgrees, AckMeansStored
  <2>6. KeptThroughOne'
    <3>1. /\ troubles \in Nat /\ published' = published
          /\ \A f \in Files : /\ Has(f, "dest")' <=> Has(f, "dest")
                              /\ Has(f, "backup")' <=> Has(f, "backup")
          /\ troubles = 0 => ~Has(upload.file, "dest")
      BY <1>1, <1>4 DEF ServiceInv, LibraryTypes, StateTypes, Has, KeptThroughOne
    <3>2. published \subseteq Files /\ upload' = upload
      BY <1>1 DEF ServiceInv, LibraryTypes, StateTypes
    <3>3. troubles' # 0
      BY <2>1, <3>1
    <3>4. ASSUME troubles' = 1, NEW f \in published
          PROVE  Has(f, "dest")' \/ Has(f, "backup")'
      BY <1>1, <2>1, <3>1, <3>2, <3>4 DEF ServiceInv, KeptThroughOne, InTemp
    <3>5. QED
      BY <3>1, <3>3, <3>4 DEF KeptThroughOne
  <2>7. QED
    BY <2>2, <2>3, <2>4, <2>5, <2>6 DEF ServiceInv, LibraryTypes
<1>5. QED
  BY <1>3, <1>4 DEF Publish

LEMMA RestoreKeeps ==
    ASSUME ServiceInv, Restore
    PROVE  ServiceInv'
<1>1. /\ call = "restore" /\ call \in Finishing /\ call \in Synced
      /\ UNCHANGED <<whole, selection, upload, kept, stepping, source, read, firmware, pages,
                     history>>
      /\ call' \in {"abort", "none"} /\ copy' \in {copy, "failed"}
  BY DEF Restore, Unfinished, Finishing, Synced
<1>2. /\ upload.file \in Files /\ ~upload.open /\ upload.active
      /\ troubles \in Nat /\ troubles # 0 /\ published \subseteq Files
  BY <1>1, FinishContext
     DEF ServiceInv, LibraryTypes, OnlyWholeReplaces, KeptThroughOne, StateTypes
<1>3. SessionsAgree'
  BY <1>1, <1>2, FinishSessions DEF Synced
<1>4. OpenIsTemporary' /\ OnlyWholeReplaces' /\ UploadOnCard'
  BY <1>1, <1>2
     DEF OpenIsTemporary, OnlyWholeReplaces, UploadOnCard, Replacing, Published
<1>5. CASE /\ CanRename(upload.file, "backup", "dest") /\ Works
           /\ Renamed(upload.file, "backup", "dest")
  <2>1. /\ dir' \in Dirs
        /\ dir'[upload.file]["dest"] = dir[upload.file]["backup"]
        /\ \A g \in Files, r \in Roles : upload.file # g => dir'[g][r] = dir[g][r]
    BY <1>2, <1>5, RenameEffect DEF ServiceInv, Roles
  <2>2. StateTypes'
    BY <1>1, <1>5, <2>1
       DEF ServiceInv, LibraryTypes, StateTypes, Dirs, Works, Calls, CopyStates
  <2>3. CardSound'
    <3>1. dir[upload.file]["backup"] \in whole
      BY <1>2, <1>5 DEF ServiceInv, CardSound, CanRename, Has
    <3>2. QED
      BY <1>1, <1>2, <1>5, <3>1, RenameKeepsCard DEF ServiceInv, Roles
  <2>4. AckAgrees'
    BY <1>1, <1>5, RenameKeepsAcks DEF AckAgrees, Roles, Synced, Replacing, Published
  <2>5. KeptThroughOne'
    <3>1. /\ troubles' = troubles /\ published' = published
          /\ Has(upload.file, "dest")'
          /\ \A f \in Files : f # upload.file =>
                /\ Has(f, "dest")' <=> Has(f, "dest")
                /\ Has(f, "backup")' <=> Has(f, "backup")
      BY <1>1, <1>2, <1>5, <2>1 DEF CanRename, Has, Works, Roles
    <3>2. QED
      BY <1>1, <1>2, <3>1 DEF ServiceInv, KeptThroughOne, InTemp
  <2>6. QED
    BY <1>3, <1>4, <2>2, <2>3, <2>4, <2>5 DEF ServiceInv, LibraryTypes
<1>6. CASE /\ IF CanRename(upload.file, "backup", "dest") THEN Fails ELSE Works
           /\ UNCHANGED dir
  <2>1. /\ troubles' \in 0..MaxTroubles
        /\ troubles' \in {troubles, troubles + 1}
    BY <1>6, LibraryAssumption DEF Works, Fails, ServiceInv, LibraryTypes, StateTypes
  <2>2. StateTypes'
    BY <1>1, <1>6, <2>1 DEF ServiceInv, LibraryTypes, StateTypes, Calls, CopyStates
  <2>3. CardSound' /\ AckAgrees'
    BY <1>1, <1>6
       DEF ServiceInv, CardSound, Has, AckAgrees, AckMeansStored, Synced, Replacing,
           Published
  <2>4. KeptThroughOne'
    <3>1. /\ \A f \in Files : /\ Has(f, "dest")' <=> Has(f, "dest")
                              /\ Has(f, "backup")' <=> Has(f, "backup")
          /\ published' = published
      BY <1>1, <1>6 DEF Has
    <3>2. QED
      BY <1>1, <1>2, <2>1, <3>1 DEF ServiceInv, KeptThroughOne, InTemp
  <2>5. QED
    BY <1>3, <1>4, <2>2, <2>3, <2>4 DEF ServiceInv, LibraryTypes
<1>7. QED
  BY <1>5, <1>6 DEF Restore

\* The copy that has become the destination is not the one that is removed.
LEMMA DropEffect ==
    ASSUME ServiceInv, call \in Published, NEW role \in {"backup", "compressed"},
           Remove(upload.file, role), UNCHANGED begun
    PROVE  /\ dir' \in Dirs /\ whole' \subseteq Copies /\ troubles' \in 0..MaxTroubles
           /\ dir'[upload.file]["dest"] = upload.id /\ upload.id \in whole'
           /\ \A f \in Files : acked[f] # None =>
                 dir'[f]["dest"] = acked[f] /\ acked[f] \in whole'
           /\ CardSound'
           /\ troubles \in Nat /\ troubles' \in {troubles, troubles + 1}
           /\ \A f \in Files : Has(f, "dest")' <=> Has(f, "dest")
           /\ \A f \in Files : Has(f, "backup")' =>
                 /\ Has(f, "backup")
                 /\ f = upload.file /\ role = "backup" => troubles' = troubles + 1
           /\ \A f \in Files : f # upload.file => (Has(f, "backup")' <=> Has(f, "backup"))
           /\ Has(upload.file, "dest") /\ acked[upload.file] = None
<1>1. /\ upload.file \in Files /\ upload.id # None
      /\ dir[upload.file]["dest"] = upload.id /\ upload.id \in whole
      /\ upload.id # dir[upload.file][role] /\ role \in Roles \ {"dest"}
      /\ acked[upload.file] = None
  BY FinishContext
     DEF ServiceInv, UploadOnCard, CardSound, Finishing, Synced, Published, AckAgrees, Roles
<1>2. \A f \in Files : acked[f] # None =>
         dir'[f]["dest"] = acked[f] /\ acked[f] \in whole'
  <2> SUFFICES ASSUME NEW f \in Files, acked[f] # None
               PROVE  dir'[f]["dest"] = acked[f] /\ acked[f] \in whole'
    OBVIOUS
  <2>1. dir[f]["dest"] = acked[f] /\ acked[f] \in whole /\ acked[f] # dir[upload.file][role]
    BY <1>1 DEF ServiceInv, AckAgrees, AckMeansStored, CardSound, Roles
  <2>2. QED
    BY <1>1, <2>1, RemoveEffect DEF ServiceInv, Roles
<1>3. CardSound'
  BY <1>1, RemoveKeepsCard DEF ServiceInv
<1>4. /\ dir' \in Dirs /\ whole' \subseteq Copies /\ troubles' \in 0..MaxTroubles
      /\ \A f \in Files : dir'[f]["dest"] = dir[f]["dest"]
      /\ \A f \in Files : f # upload.file => dir'[f]["backup"] = dir[f]["backup"]
      /\ dir'[upload.file]["backup"] \in {None, dir[upload.file]["backup"]}
      /\ upload.id \in whole'
      /\ \/ troubles' = troubles /\ dir'[upload.file][role] = None
         \/ troubles' = troubles + 1
  BY <1>1, RemoveEffect DEF ServiceInv, Roles
<1>5. troubles \in Nat /\ troubles' \in {troubles, troubles + 1}
  BY <1>4 DEF ServiceInv, LibraryTypes, StateTypes
<1>6. /\ \A f \in Files : Has(f, "dest")' <=> Has(f, "dest")
      /\ \A f \in Files : f # upload.file => (Has(f, "backup")' <=> Has(f, "backup"))
  BY <1>4 DEF Has
<1>7. ASSUME NEW f \in Files, Has(f, "backup")'
      PROVE  /\ Has(f, "backup")
             /\ f = upload.file /\ role = "backup" => troubles' = troubles + 1
  BY <1>4, <1>7 DEF Has
<1>8. Has(upload.file, "dest") /\ acked[upload.file] = None
  BY <1>1 DEF Has
<1>9. dir'[upload.file]["dest"] = upload.id
  BY <1>1, <1>4
<1>10. QED
  BY <1>2, <1>3, <1>4, <1>5, <1>6, <1>7, <1>8, <1>9

\* Once the copy is published the backup is dropped, unless that fails.
LEMMA DropLeavesNoBackup ==
    ASSUME ServiceInv, call \in Published, NEW role \in {"backup", "compressed"},
           Remove(upload.file, role), UNCHANGED begun,
           role = "compressed" => call = "drop_compressed",
           troubles' = 0, NEW f \in Files
    PROVE  ~Has(f, "backup")'
<1> SUFFICES ASSUME Has(f, "backup")'
             PROVE  FALSE
  OBVIOUS
<1>1. /\ Has(f, "backup") /\ troubles = 0 /\ troubles' # troubles + 1
      /\ f = upload.file => role # "backup"
  BY DropEffect
<1>2. f = upload.file /\ call = "drop_backup"
  BY <1>1 DEF ServiceInv, KeptThroughOne, Published
<1>3. QED
  BY <1>1, <1>2

\* The upload ends acknowledged.
LEMMA FinishedKeeps ==
    ASSUME ServiceInv, call \in Published, NEW role \in {"backup", "compressed"},
           Remove(upload.file, role), Finished,
           role = "compressed" => call = "drop_compressed",
           UNCHANGED <<selection, kept, stepping, source, read, firmware, pages, begun>>
    PROVE  ServiceInv'
<1>1. /\ call' = "none" /\ upload' = [upload EXCEPT !.active = FALSE]
      /\ copy' \in {copy, "done"} /\ published' = published \cup {upload.file}
      /\ acked' = [acked EXCEPT ![upload.file] = upload.id]
      /\ call \in Finishing /\ upload.file \in Files /\ upload.id \in Uploads
  BY FinishContext DEF Finished, Finishing, Synced
<1>2. /\ upload' \in UploadSessions /\ ~upload'.active /\ ~upload'.open
      /\ upload'.file = upload.file /\ upload'.id = upload.id
  BY <1>1
     DEF ServiceInv, LibraryTypes, StateTypes, UploadSessions, SessionsAgree, Synced
<1>3. StateTypes'
  BY <1>1, <1>2, DropEffect
     DEF ServiceInv, LibraryTypes, StateTypes, Dirs, Calls, CopyStates
<1>4. SessionsAgree'
  BY <1>1, <1>2, FinishSessions DEF Synced, Replacing, Published
<1>5. OpenIsTemporary' /\ OnlyWholeReplaces' /\ UploadOnCard'
  BY <1>1, <1>2
     DEF OpenIsTemporary, OnlyWholeReplaces, UploadOnCard, Replacing, Published
<1>6. CardSound'
  BY DropEffect
<1>7. AckAgrees'
  BY <1>1, DropEffect
     DEF ServiceInv, LibraryTypes, StateTypes, AckAgrees, AckMeansStored, Synced, Replacing,
         Published
<1>8. KeptThroughOne'
  <2>1. call \notin {"keep", "publish"} /\ published \subseteq Files
    BY DEF Published, ServiceInv, LibraryTypes, StateTypes
  <2>2. ASSUME troubles' = 0, NEW f \in Files
        PROVE  ~Has(f, "backup")'
    BY <2>2, DropLeavesNoBackup DEF ServiceInv
  <2>3. ASSUME troubles' \in {0, 1}, NEW f \in published'
        PROVE  Has(f, "dest")' \/ Has(f, "backup")'
    BY <1>1, <2>1, <2>3, DropEffect DEF ServiceInv, KeptThroughOne, InTemp
  <2>4. QED
    BY <1>1, <2>2, <2>3 DEF KeptThroughOne
<1>9. QED
  BY <1>3, <1>4, <1>5, <1>6, <1>7, <1>8 DEF ServiceInv, LibraryTypes

LEMMA DropBackupKeeps ==
    ASSUME ServiceInv, DropBackup
    PROVE  ServiceInv'
<1>1. /\ call = "drop_backup" /\ call \in Published /\ Remove(upload.file, "backup")
      /\ UNCHANGED <<selection, kept, stepping, source, read, firmware, pages, begun>>
      /\ upload.file \in Files /\ upload.active /\ ~upload.open
  BY FinishContext
     DEF DropBackup, Finishing, Synced, Published, ServiceInv, SessionsAgree
<1>2. CASE call' = "drop_compressed" /\ UNCHANGED <<upload, copy, published, acked>>
  <2>1. StateTypes'
    BY <1>1, <1>2, DropEffect DEF ServiceInv, LibraryTypes, StateTypes, Dirs, Calls
  <2>2. SessionsAgree'
    BY <1>1, <1>2, FinishSessions DEF Finishing, Synced, Published
  <2>3. OpenIsTemporary' /\ OnlyWholeReplaces' /\ UploadOnCard'
    BY <1>1, <1>2, DropEffect
       DEF OpenIsTemporary, OnlyWholeReplaces, UploadOnCard, Replacing, Published
  <2>4. CardSound' /\ AckAgrees'
    BY <1>1, <1>2, DropEffect DEF AckAgrees, AckMeansStored
  <2>5. KeptThroughOne'
    <3>1. published' = published /\ published \subseteq Files
      BY <1>2 DEF ServiceInv, LibraryTypes, StateTypes
    <3>2. ASSUME troubles' = 0, NEW f \in Files
          PROVE  ~Has(f, "backup")'
      BY <1>1, <3>2, DropLeavesNoBackup
    <3>3. ASSUME troubles' \in {0, 1}, NEW f \in published
          PROVE  Has(f, "dest")' \/ Has(f, "backup")'
      BY <1>1, <3>1, <3>3, DropEffect DEF ServiceInv, KeptThroughOne, InTemp
    <3>4. QED
      BY <1>2, <3>1, <3>2, <3>3 DEF KeptThroughOne
  <2>6. QED
    BY <2>1, <2>2, <2>3, <2>4, <2>5 DEF ServiceInv, LibraryTypes
<1>3. CASE Finished
  BY <1>1, <1>3, FinishedKeeps
<1>4. QED
  BY <1>2, <1>3 DEF DropBackup

LEMMA DropCompressedKeeps ==
    ASSUME ServiceInv, DropCompressed
    PROVE  ServiceInv'
BY FinishedKeeps DEF DropCompressed, Published

\* A deleted file is neither published nor acknowledged any more.
LEMMA DeleteKeeps ==
    ASSUME ServiceInv, NEW f \in Files, Delete(f)
    PROVE  ServiceInv'
<1>1. /\ call = "none" /\ ~upload.active /\ source = None /\ ~upload.open
      /\ catalog' \in [gen: 0..MaxScans, files: SUBSET Files]
      /\ UNCHANGED <<selection, upload, kept, stepping, sessions, known, begun>>
      /\ call' \in {"none", "deselect"}
  BY LibraryAssumption
     DEF Delete, Idle, Available, Scan, Visible, ServiceInv, LibraryTypes, StateTypes,
         SessionsAgree, Exclusive
<1>2. SessionsAgree'
  BY <1>1
     DEF ServiceInv, SessionsAgree, Exclusive, Finishing, Synced, Replacing, Published
<1>3. CASE /\ Works
           /\ dir' = [dir EXCEPT ![f]["dest"] = None]
           /\ whole' = whole \ {dir[f]["dest"]}
           /\ published' = published \ {f}
           /\ acked' = [acked EXCEPT ![f] = None]
  <2>1. Remove(f, "dest") /\ troubles' = troubles
    BY <1>3 DEF Remove, Works
  <2>2. /\ dir' \in Dirs /\ whole' \subseteq Copies
        /\ \A g \in Files, r \in Roles : f # g \/ "dest" # r => dir'[g][r] = dir[g][r]
        /\ \A c \in whole : c # dir[f]["dest"] => c \in whole'
    BY <2>1, RemoveEffect DEF ServiceInv, Roles
  <2>3. StateTypes'
    BY <1>1, <1>3, <2>1, <2>2 DEF ServiceInv, LibraryTypes, StateTypes, Dirs, Calls
  <2>4. OpenIsTemporary' /\ OnlyWholeReplaces' /\ UploadOnCard'
    BY <1>1
       DEF OpenIsTemporary, OnlyWholeReplaces, UploadOnCard, Replacing, Published
  <2>5. CardSound'
    BY <1>1, <2>1, RemoveKeepsCard DEF ServiceInv, Roles
  <2>6. AckAgrees'
    BY <1>1, <1>3, <2>2
       DEF ServiceInv, LibraryTypes, StateTypes, AckAgrees, AckMeansStored, CardSound,
           Synced, Replacing, Published, Roles
  <2>7. KeptThroughOne'
    <3>1. /\ published \subseteq Files
          /\ \A g \in Files : Has(g, "backup")' <=> Has(g, "backup")
          /\ \A g \in Files : g # f => (Has(g, "dest")' <=> Has(g, "dest"))
      BY <2>2 DEF ServiceInv, LibraryTypes, StateTypes, Has, Roles
    <3>2. QED
      BY <1>1, <1>3, <2>1, <3>1 DEF ServiceInv, KeptThroughOne, InTemp
  <2>8. QED
    BY <1>2, <2>3, <2>4, <2>5, <2>6, <2>7 DEF ServiceInv, LibraryTypes
<1>4. CASE Fails /\ UNCHANGED <<dir, whole, published, acked, call>>
  <2>1. StateTypes'
    BY <1>1, <1>4, LibraryAssumption DEF ServiceInv, LibraryTypes, StateTypes, Fails
  <2>2. /\ OpenIsTemporary' /\ OnlyWholeReplaces'
        /\ CardSound' /\ UploadOnCard' /\ AckAgrees' /\ KeptThroughOne'
    BY <1>1, <1>4, OffCard DEF Fails, Synced, Replacing, Published
  <2>3. QED
    BY <1>2, <2>1, <2>2 DEF ServiceInv, LibraryTypes
<1>5. QED
  BY <1>3, <1>4 DEF Delete

-----------------------------------------------------------------------------
(* Every step *)

LEMMA StepKeeps ==
    ASSUME ServiceInv, Next
    PROVE  ServiceInv'
<1>1. CASE \E f \in Files :
              BeginUpload(f) \/ Delete(f) \/ Select(f) \/ BeginCopy(f) \/ BeginRead(f)
  BY <1>1, BeginUploadKeeps, DeleteKeeps, SelectKeeps, BeginCopyKeeps, BeginReadKeeps
<1>2. CASE ClearTemp \/ Create \/ AbortUpload \/ Deselect
  BY <1>2, ClearTempKeeps, CreateKeeps, AbortUploadKeeps, DeselectKeeps
<1>3. CASE Sync \/ ClearBackup \/ Keep \/ Publish \/ Restore
  BY <1>3, SyncKeeps, ClearBackupKeeps, KeepKeeps, PublishKeeps, RestoreKeeps
<1>4. CASE DropBackup \/ DropCompressed
  BY <1>4, DropBackupKeeps, DropCompressedKeeps
<1>5. CASE Data \/ End \/ Abort
  BY <1>5, DataKeeps, EndKeeps, AbortKeeps
<1>6. CASE CopyErase \/ CopyWrite \/ StaleStep \/ \E step \in BOOLEAN : StoreCopy(step)
  BY <1>6, CopyEraseKeeps, CopyWriteKeeps, StaleStepKeeps, StoreCopyKeeps
<1>7. CASE EndRead \/ Catalogue \/ BeginFirmware \/ EndFirmware
  BY <1>7, EndReadKeeps, CatalogueKeeps, BeginFirmwareKeeps, EndFirmwareKeeps
<1>8. CASE PowerLoss
  BY <1>8, PowerLossKeeps
<1>9. QED
  BY <1>1, <1>2, <1>3, <1>4, <1>5, <1>6, <1>7, <1>8 DEF Next, UploadStep

\* The catalog changes by a scan, and both forget it when power is lost.
LEMMA PagesStep ==
    ASSUME Next
    PROVE  \/ UNCHANGED pages
           \/ Scan /\ known' \in {known, catalog'}
           \/ catalog' = NoCatalog /\ known' = NoCatalog
<1>1. ASSUME NEW f \in Files,
             BeginUpload(f) \/ Delete(f) \/ Select(f) \/ BeginCopy(f) \/ BeginRead(f)
      PROVE  UNCHANGED pages \/ (Scan /\ known' = known)
  BY <1>1 DEF BeginUpload, Delete, Select, BeginCopy, BeginRead
<1>2. CASE UploadStep
  BY <1>2
     DEF UploadStep, ClearTemp, Create, Sync, ClearBackup, Keep, Publish, Restore,
         DropBackup, DropCompressed, AbortUpload, Deselect
<1>3. CASE Data \/ End \/ Abort \/ CopyErase \/ CopyWrite \/ StaleStep
  BY <1>3 DEF Data, End, BeginFinish, Abort, CopyErase, CopyWrite, StaleStep
<1>4. CASE EndRead \/ BeginFirmware \/ EndFirmware \/ \E step \in BOOLEAN : StoreCopy(step)
  BY <1>4 DEF EndRead, BeginFirmware, EndFirmware, StoreCopy
<1>5. CASE Catalogue \/ PowerLoss
  BY <1>5 DEF Catalogue, PowerLoss
<1>6. QED
  BY <1>1, <1>2, <1>3, <1>4, <1>5 DEF Next

LEMMA PagesKept ==
    ASSUME LibraryInv, Next
    PROVE  PagesAgree'
<1>1. catalog.gen \in Nat /\ known.gen \in Nat /\ known.gen <= catalog.gen
  BY DEF LibraryInv, ServiceInv, LibraryTypes, StateTypes, PagesAgree
<1>2. CASE UNCHANGED pages
  BY <1>2 DEF LibraryInv, PagesAgree, PageOfOwnScan
<1>3. CASE Scan /\ known' = known
  BY <1>1, <1>3 DEF Scan, PagesAgree, PageOfOwnScan
<1>4. CASE known' = catalog' /\ (Scan \/ catalog' = NoCatalog)
  BY <1>1, <1>4 DEF Scan, NoCatalog, PagesAgree, PageOfOwnScan
<1>5. QED
  BY <1>2, <1>3, <1>4, PagesStep

LEMMA StutterKeeps ==
    ASSUME LibraryInv, UNCHANGED vars
    PROVE  LibraryInv'
<1>1. LibraryTypes' /\ SessionsAgree'
  BY DEF LibraryInv, ServiceInv, LibraryTypes, StateTypes, OpenIsTemporary,
     OnlyWholeReplaces, SessionsAgree, Exclusive, Available
<1>2. CardSound' /\ UploadOnCard' /\ AckAgrees'
  BY DEF LibraryInv, ServiceInv, CardSound, Has, UploadOnCard, AckAgrees, AckMeansStored
<1>3. KeptThroughOne'
  BY DEF LibraryInv, ServiceInv, KeptThroughOne, Has, InTemp
<1>4. PagesAgree'
  BY DEF LibraryInv, PagesAgree, PageOfOwnScan
<1>5. QED
  BY <1>1, <1>2, <1>3, <1>4 DEF LibraryInv, ServiceInv

\* A card that was written by completed uploads, and a manager that has just started.
LEMMA InitKeeps ==
    ASSUME Init
    PROVE  LibraryInv
<1> PICK present \in SUBSET Files :
       /\ dir = [f \in Files |-> [role \in Roles |->
                    IF \/ role = "dest" /\ f \in present
                       \/ role = "compressed" /\ f \in RawFiles \ present
                    THEN f ELSE None]]
       /\ published = present
  BY DEF Init
<1>1. /\ whole = Files /\ selection = None /\ upload = NoUpload
      /\ call = "none" /\ kept = FALSE /\ stepping = FALSE
      /\ copy = "idle" /\ source = None /\ read = None /\ firmware = FALSE
      /\ catalog = NoCatalog /\ known = NoCatalog
      /\ begun = 0 /\ troubles = 0
      /\ acked = [f \in Files |-> None]
  BY DEF Init
<1>2. ASSUME NEW f \in Files, NEW r \in Roles
      PROVE  dir[f][r] = None \/ (dir[f][r] = f /\ r # "backup")
  <2>1. dir[f][r] = IF \/ r = "dest" /\ f \in present
                       \/ r = "compressed" /\ f \in RawFiles \ present
                    THEN f ELSE None
    OBVIOUS
  <2>2. QED
    BY <2>1
<1>3. \A f \in Files : Has(f, "dest") <=> f \in published
  BY LibraryAssumption DEF Has, Roles
<1>4. StateTypes
  <2>1. dir \in [Files -> [Roles -> Copies \cup {None}]] /\ whole \subseteq Copies
    BY <1>1 DEF Copies
  <2>2. upload \in UploadSessions
    BY <1>1, LibraryAssumption DEF NoUpload, UploadSessions
  <2>3. /\ catalog \in [gen: 0..MaxScans, files: SUBSET Files]
        /\ known \in [gen: 0..MaxScans, files: SUBSET Files]
        /\ begun \in 0..MaxUploads /\ troubles \in 0..MaxTroubles
    BY <1>1, LibraryAssumption DEF NoCatalog
  <2>4. published \subseteq Files /\ acked \in [Files -> Uploads \cup {None}]
    BY <1>1
  <2>5. QED
    BY <1>1, <2>1, <2>2, <2>3, <2>4 DEF StateTypes, Calls, CopyStates
<1>5. OpenIsTemporary /\ OnlyWholeReplaces /\ UploadOnCard
  BY <1>1 DEF OpenIsTemporary, OnlyWholeReplaces, UploadOnCard, NoUpload, Replacing, Published
<1>6. SessionsAgree
  BY <1>1
     DEF NoUpload, SessionsAgree, Exclusive, Finishing, Synced, Replacing, Published
<1>7. CardSound
  <2>1. \A f, g \in Files, r, q \in Roles :
           dir[f][r] = dir[g][q] /\ dir[f][r] # None => f = g /\ r = q
    BY LibraryAssumption DEF Roles
  <2>2. \A f \in Files, r \in Roles : dir[f][r] \notin Uploads
    BY <1>2, CopiesAssumption
  <2>3. \A f \in Files : \A role \in {"dest", "backup"} :
           Has(f, role) => dir[f][role] \in whole
    BY <1>1, <1>2 DEF Has, Roles
  <2>4. QED
    BY <2>1, <2>2, <2>3 DEF CardSound
<1>8. AckAgrees
  BY <1>1 DEF AckAgrees, AckMeansStored, Synced, Replacing, Published
<1>9. KeptThroughOne
  BY <1>1, <1>2, <1>3 DEF KeptThroughOne, Has, Roles
<1>10. PagesAgree
  BY <1>1 DEF PagesAgree, PageOfOwnScan, NoCatalog
<1>11. QED
  BY <1>4, <1>5, <1>6, <1>7, <1>8, <1>9, <1>10 DEF LibraryInv, ServiceInv, LibraryTypes

-----------------------------------------------------------------------------
(* The theorems *)

\* What holds of the sessions, the card and the pages between any two calls of
\* FatFs, whatever the commands, the failed calls and the losses of power.
THEOREM LibraryInvariant == Spec => []LibraryInv
<1>1. Init => LibraryInv
  BY InitKeeps
<1>2. LibraryInv /\ [Next]_vars => LibraryInv'
  BY StepKeeps, PagesKept, StutterKeeps DEF LibraryInv
<1>3. QED
  BY <1>1, <1>2, PTL DEF Spec

\* The state has its types, a file that is open is the temporary of the upload, and
\* a destination is replaced only by a copy that is whole (finish_upload).
THEOREM LibraryTyped == Spec => []LibraryTypes
<1>1. LibraryInv => LibraryTypes
  BY DEF LibraryInv, ServiceInv
<1>2. QED
  BY <1>1, LibraryInvariant, PTL

\* The upload, copy, read and firmware sessions exclude one another, whatever the
\* order of the commands (begin_upload, begin_incremental_sd_to_flash_copy,
\* begin_catalog_sd_read, begin_firmware_receive, IMAGE_ABORT).
THEOREM SessionsExclusive == Spec => []Exclusive
<1>1. LibraryInv => Exclusive
  BY DEF LibraryInv, ServiceInv, SessionsAgree
<1>2. QED
  BY <1>1, LibraryInvariant, PTL

\* No image that was complete is lost by one failed call or one loss of power, at
\* whatever point of finish_upload, of an abort or of a copy it comes.
THEOREM NoImageLost == Spec => []NothingLost
<1>1. ASSUME LibraryInv
      PROVE  NothingLost
  <2> SUFFICES ASSUME troubles \in {0, 1}, NEW f \in published
               PROVE  \E role \in {"dest", "temp", "backup"} : dir[f][role] \in whole
    BY <1>1 DEF NothingLost, LibraryInv, ServiceInv, LibraryTypes, StateTypes
  <2>1. f \in Files /\ (Has(f, "dest") \/ Has(f, "backup") \/ InTemp(f))
    BY <1>1 DEF LibraryInv, ServiceInv, LibraryTypes, StateTypes, KeptThroughOne
  <2>2. CASE Has(f, "dest") \/ Has(f, "backup")
    BY <1>1, <2>1, <2>2 DEF LibraryInv, ServiceInv, CardSound
  <2>3. CASE InTemp(f)
    BY <1>1, <2>3
       DEF LibraryInv, ServiceInv, LibraryTypes, InTemp, UploadOnCard, OnlyWholeReplaces,
           Replacing
  <2>4. QED
    BY <2>1, <2>2, <2>3
<1>2. QED
  BY <1>1, LibraryInvariant, PTL

\* An acknowledged upload stays the destination, whole, until the file is uploaded
\* again or deleted, whatever fails meanwhile.
THEOREM AckKept == Spec => []AckMeansStored
<1>1. LibraryInv => AckMeansStored
  BY DEF LibraryInv, ServiceInv, AckAgrees
<1>2. QED
  BY <1>1, LibraryInvariant, PTL

\* A page that the K2 asks for with the current generation is one of the scan it was
\* told of, though reads and deletions scan the card again (rebuild_catalog).
THEOREM PagesTrue == Spec => []PageOfOwnScan
<1>1. LibraryInv => PageOfOwnScan
  BY DEF LibraryInv, PagesAgree
<1>2. QED
  BY <1>1, LibraryInvariant, PTL

=============================================================================
