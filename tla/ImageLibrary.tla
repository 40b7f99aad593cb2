---------------------------- MODULE ImageLibrary ----------------------------
(***************************************************************************)
(* The images on the manager's SD card (supervisor_service.cpp): uploads   *)
(* to a temporary file that takes the place of the destination, deletion,  *)
(* the catalog, and the sessions (upload, copy to flash, read, firmware)   *)
(* that share the card, the flash and the buffers.                         *)
(*                                                                         *)
(* The steps are the calls of FatFs, in the order the code makes them.     *)
(* Power may be lost between two of them, and one of them may fail.  A     *)
(* rename moves one directory entry at once: the two sectors it may touch  *)
(* are taken as one.                                                       *)
(***************************************************************************)
EXTENDS Integers

CONSTANTS
    Files,          \* the destinations of uploads
    RawFiles,       \* those written by raw uploads (kTargetSdRaw)
    FirstRaw,       \* upload_target and upload_slot are zero at a start
    Slot,           \* the flash slot a copy goes to
    MaxUploads,     \* uploads begun
    MaxScans,       \* scans of the directory
    MaxTroubles,    \* calls that fail, and losses of power
    None

ASSUME LibraryAssumption ==
    /\ FirstRaw \in RawFiles /\ RawFiles \subseteq Files
    /\ Slot \notin Files /\ None \notin Files \cup {Slot}
    /\ MaxUploads \in Nat /\ MaxScans \in Nat /\ MaxTroubles \in Nat

\* A destination, its temporary and its backup; for a raw one also the compressed
\* image next to it.
Roles == {"dest", "temp", "backup", "compressed"}

\* A copy of an image is known by the upload that wrote it; the file itself stands
\* for the copy that was there before.
Uploads == 1..MaxUploads
Copies == Files \cup Uploads

ASSUME CopiesAssumption == (Files \cup {None}) \cap Uploads = {}

\* The calls a command still has to make, by the next one.
Calls == {"none", "clear_temp", "create", "sync", "clear_backup", "keep", "publish",
          "restore", "drop_backup", "drop_compressed", "abort", "delete", "deselect"}
CopyStates == {"idle", "erasing", "writing", "finalizing", "done", "failed"}

VARIABLES
    dir,        \* the copy each name of a destination holds
    whole,      \* the copies that are complete on the card
    selection,  \* the file selected for boot
    \* Memory.
    upload,     \* [active, file, id, data, open]
    call,       \* the next call of the command under way
    kept,       \* the destination was moved to the backup
    stepping,   \* finish_upload was called by a step of a copy
    copy,       \* copy_state
    source,     \* copy_source, while it is open
    read,       \* catalog_read_source
    firmware,   \* firmware_receive_active
    catalog,    \* [gen, files]
    \* The K2.
    known,      \* the generation and the files it was told of
    \* Bounds and history.
    begun,      \* uploads begun
    troubles,
    published,  \* files that were complete, and not deleted since
    acked       \* the last upload acknowledged, until the file is touched again

disk == <<dir, whole, selection>>
sessions == <<copy, source, read, firmware>>
pages == <<catalog, known>>
history == <<begun, published, acked>>
command == <<call, kept, stepping>>
vars == <<disk, upload, command, sessions, pages, history, troubles>>

UploadSessions ==
    [active: BOOLEAN, file: Files \cup {Slot}, id: Copies \cup {None},
     data: {"none", "part", "all", "bad"}, open: BOOLEAN]
NoUpload == [active |-> FALSE, file |-> FirstRaw, id |-> None, data |-> "none",
             open |-> FALSE]
NoCatalog == [gen |-> 0, files |-> {}]

Init ==
    /\ \E present \in SUBSET Files :
          /\ dir = [f \in Files |-> [role \in Roles |->
                       IF \/ role = "dest" /\ f \in present
                          \/ role = "compressed" /\ f \in RawFiles \ present
                       THEN f ELSE None]]
          /\ published = present
    /\ whole = Files
    /\ selection = None
    /\ upload = NoUpload
    /\ call = "none" /\ kept = FALSE /\ stepping = FALSE
    /\ copy = "idle" /\ source = None /\ read = None /\ firmware = FALSE
    /\ catalog = NoCatalog /\ known = NoCatalog
    /\ begun = 0 /\ troubles = 0
    /\ acked = [f \in Files |-> None]

-----------------------------------------------------------------------------
(* FatFs *)

Has(f, role) == dir[f][role] # None

Fails == troubles < MaxTroubles /\ troubles' = troubles + 1
Works == UNCHANGED troubles

\* f_unlink of a name that may be missing, its result ignored.
Remove(f, role) ==
    \/ /\ Works
       /\ dir' = [dir EXCEPT ![f][role] = None]
       /\ whole' = whole \ {dir[f][role]}
    \/ /\ Has(f, role) /\ Fails
       /\ UNCHANGED <<dir, whole>>

\* f_rename: the old name must exist, the new one must not.
CanRename(f, from, to) == Has(f, from) /\ ~Has(f, to)

Renamed(f, from, to) ==
    dir' = [dir EXCEPT ![f][to] = dir[f][from], ![f][from] = None]

-----------------------------------------------------------------------------
(* Sessions *)

Idle == call = "none"

Available == ~upload.active /\ ~firmware /\ read = None

\* begin_upload, for a target on the card.
BeginUpload(f) ==
    /\ Idle /\ Available /\ begun < MaxUploads
    /\ begun' = begun + 1
    /\ upload' = [active |-> FALSE, file |-> f, id |-> begun + 1, data |-> "part",
                  open |-> FALSE]
    /\ call' = IF f \in RawFiles THEN "create" ELSE "clear_temp"
    /\ UNCHANGED <<disk, kept, stepping, sessions, pages, published, acked, troubles>>

ClearTemp ==
    /\ call = "clear_temp"
    /\ Remove(upload.file, "temp")
    /\ call' = "create"
    /\ UNCHANGED <<selection, upload, kept, stepping, sessions, pages, history>>

\* f_open with FA_CREATE_ALWAYS: a file of that name loses its contents.
Create ==
    /\ call = "create"
    /\ call' = "none"
    /\ \/ /\ Works
          /\ dir' = [dir EXCEPT ![upload.file]["temp"] = upload.id]
          /\ whole' = whole \ {dir[upload.file]["temp"]}
          /\ upload' = [upload EXCEPT !.active = TRUE, !.open = TRUE]
       \/ /\ Fails
          /\ UNCHANGED <<dir, whole, upload>>
    /\ UNCHANGED <<selection, kept, stepping, sessions, pages, history>>

\* write_upload, up to the last frame; a file that could not be written stays so.
Data ==
    /\ Idle /\ upload.active /\ upload.file # Slot
    /\ upload.data = "part" /\ upload.open
    /\ \/ Works /\ upload' = [upload EXCEPT !.data = "all"]
       \/ Fails /\ upload' = [upload EXCEPT !.data = "bad"]
    /\ UNCHANGED <<disk, command, sessions, pages, history>>

\* finish_upload, of a target on the card: size and checksum are right.
Complete == upload.active /\ upload.file # Slot /\ upload.data = "all"

BeginFinish(step) ==
    /\ call' = "sync"
    /\ stepping' = step
    /\ UNCHANGED <<disk, upload, kept, sessions, pages, history, troubles>>

\* IMAGE_END.
End == Idle /\ Complete /\ BeginFinish(FALSE)

\* The command ends in an error; a copy that called finish_upload has failed.
Unfinished ==
    /\ call' = IF stepping THEN "abort" ELSE "none"
    /\ copy' = IF stepping THEN "failed" ELSE copy

\* Mutant of Sync: the file stays open.
SyncStaysOpen ==
    /\ call = "sync"
    /\ \/ /\ upload.open /\ Works
          /\ whole' = whole \cup {upload.id}
          /\ acked' = [acked EXCEPT ![upload.file] = None]
          /\ call' = "clear_backup"
          /\ UNCHANGED <<copy, upload>>
       \/ /\ IF upload.open THEN Fails ELSE Works
          /\ upload' = [upload EXCEPT !.open = FALSE]
          /\ Unfinished
          /\ UNCHANGED <<whole, acked>>
    /\ UNCHANGED <<dir, selection, kept, stepping, source, read, firmware, pages,
                   begun, published>>

\* f_sync and f_close; a second END finds the file closed.
Sync ==
    /\ call = "sync"
    /\ \/ /\ upload.open /\ Works
          /\ whole' = whole \cup {upload.id}
          /\ acked' = [acked EXCEPT ![upload.file] = None]
          /\ call' = "clear_backup"
          /\ UNCHANGED copy
       \/ /\ IF upload.open THEN Fails ELSE Works
          /\ Unfinished
          /\ UNCHANGED <<whole, acked>>
    /\ upload' = [upload EXCEPT !.open = FALSE]
    /\ UNCHANGED <<dir, selection, kept, stepping, source, read, firmware, pages,
                   begun, published>>

ClearBackup ==
    /\ call = "clear_backup"
    /\ Remove(upload.file, "backup")
    /\ call' = "keep"
    /\ UNCHANGED <<selection, upload, kept, stepping, sessions, pages, history>>

\* Mutant of Keep: the destination is removed instead.
KeepNothing ==
    /\ call = "keep"
    /\ Remove(upload.file, "dest")
    /\ kept' = FALSE
    /\ call' = "publish"
    /\ UNCHANGED <<selection, upload, stepping, sessions, pages, history>>

\* The destination becomes the backup.  A raw upload goes on whatever comes of it,
\* a named one only if there was nothing to keep.
Keep ==
    /\ call = "keep"
    /\ \/ /\ CanRename(upload.file, "dest", "backup") /\ Works
          /\ Renamed(upload.file, "dest", "backup")
          /\ kept' = TRUE /\ call' = "publish"
          /\ UNCHANGED copy
       \/ /\ ~Has(upload.file, "dest") /\ Works
          /\ kept' = FALSE /\ call' = "publish"
          /\ UNCHANGED <<dir, copy>>
       \/ /\ Has(upload.file, "dest")
          /\ IF Has(upload.file, "backup") THEN Works ELSE Fails
          /\ kept' = FALSE
          /\ IF upload.file \in RawFiles THEN call' = "publish" /\ UNCHANGED copy
             ELSE Unfinished
          /\ UNCHANGED dir
    /\ UNCHANGED <<whole, selection, upload, stepping, source, read, firmware, pages,
                   history>>

\* Mutant of Publish: the result of the rename is not looked at.
PublishUnchecked ==
    /\ call = "publish"
    /\ \/ CanRename(upload.file, "temp", "dest") /\ Works
          /\ Renamed(upload.file, "temp", "dest")
       \/ /\ IF CanRename(upload.file, "temp", "dest") THEN Fails ELSE Works
          /\ UNCHANGED dir
    /\ call' = "drop_backup"
    /\ UNCHANGED <<whole, selection, upload, kept, stepping, sessions, pages, history>>

\* The temporary becomes the destination.
Publish ==
    /\ call = "publish"
    /\ \/ /\ CanRename(upload.file, "temp", "dest") /\ Works
          /\ Renamed(upload.file, "temp", "dest")
          /\ call' = "drop_backup"
          /\ UNCHANGED copy
       \/ /\ IF CanRename(upload.file, "temp", "dest") THEN Fails ELSE Works
          /\ IF kept \/ upload.file \in RawFiles
             THEN call' = "restore" /\ UNCHANGED copy
             ELSE Unfinished
          /\ UNCHANGED dir
    /\ UNCHANGED <<whole, selection, upload, kept, stepping, source, read, firmware,
                   pages, history>>

Restore ==
    /\ call = "restore"
    /\ \/ /\ CanRename(upload.file, "backup", "dest") /\ Works
          /\ Renamed(upload.file, "backup", "dest")
       \/ /\ IF CanRename(upload.file, "backup", "dest") THEN Fails ELSE Works
          /\ UNCHANGED dir
    /\ Unfinished
    /\ UNCHANGED <<whole, selection, upload, kept, stepping, source, read, firmware,
                   pages, history>>

\* The upload has succeeded.
Finished ==
    /\ call' = "none"
    /\ upload' = [upload EXCEPT !.active = FALSE]
    /\ copy' = IF stepping THEN "done" ELSE copy
    /\ published' = published \cup {upload.file}
    /\ acked' = [acked EXCEPT ![upload.file] = upload.id]

DropBackup ==
    /\ call = "drop_backup"
    /\ Remove(upload.file, "backup")
    /\ IF upload.file \in RawFiles
       THEN call' = "drop_compressed" /\ UNCHANGED <<upload, copy, published, acked>>
       ELSE Finished
    /\ UNCHANGED <<selection, kept, stepping, source, read, firmware, pages, begun>>

\* A raw image replaces a compressed one.
DropCompressed ==
    /\ call = "drop_compressed"
    /\ Remove(upload.file, "compressed")
    /\ Finished
    /\ UNCHANGED <<selection, kept, stepping, source, read, firmware, pages, begun>>

-----------------------------------------------------------------------------
(* IMAGE_ABORT, DELETE, SET_SELECTION *)

\* Mutant of Abort: the source of a copy stays open.
AbortKeepsSource ==
    /\ Idle
    /\ read' = None
    /\ upload' = [upload EXCEPT !.active = FALSE, !.open = FALSE]
    /\ call' = IF upload.file = Slot THEN "none" ELSE "abort"
    /\ UNCHANGED <<disk, kept, stepping, copy, source, firmware, pages, history, troubles>>

\* Every session but that of the firmware ends; a copy with its source open fails.
Abort ==
    /\ Idle
    /\ source' = None
    /\ copy' = IF source # None THEN "failed" ELSE copy
    /\ read' = None
    /\ upload' = [upload EXCEPT !.active = FALSE, !.open = FALSE]
    /\ call' = IF upload.file = Slot THEN "none" ELSE "abort"
    /\ UNCHANGED <<disk, kept, stepping, firmware, pages, history, troubles>>

\* abort_upload.
AbortUpload ==
    /\ call = "abort"
    /\ Remove(upload.file, "temp")
    /\ upload' = [upload EXCEPT !.active = FALSE, !.open = FALSE]
    /\ call' = "none"
    /\ UNCHANGED <<selection, kept, stepping, sessions, pages, history>>

Visible == {f \in Files : Has(f, "dest")}

\* Mutant of Scan: the generation stays.
ScanQuietly == catalog' = [catalog EXCEPT !.files = Visible]

\* rebuild_catalog.
Scan ==
    /\ catalog.gen < MaxScans
    /\ catalog' = [gen |-> catalog.gen + 1, files |-> Visible]

\* delete_catalog_sd_image, up to the removal.
Delete(f) ==
    /\ Idle /\ Available
    /\ Scan
    /\ f \in Visible
    /\ \/ /\ Works
          /\ dir' = [dir EXCEPT ![f]["dest"] = None]
          /\ whole' = whole \ {dir[f]["dest"]}
          /\ published' = published \ {f}
          /\ acked' = [acked EXCEPT ![f] = None]
          /\ call' = IF selection = f THEN "deselect" ELSE "none"
       \/ /\ Fails
          /\ UNCHANGED <<dir, whole, published, acked, call>>
    /\ UNCHANGED <<selection, upload, kept, stepping, sessions, known, begun>>

Deselect ==
    /\ call = "deselect"
    /\ call' = "none"
    /\ \/ Works /\ selection' = None
       \/ Fails /\ UNCHANGED selection
    /\ UNCHANGED <<dir, whole, upload, kept, stepping, sessions, pages, history>>

\* SET_SELECTION.
Select(f) ==
    /\ Idle
    /\ selection' = f
    /\ UNCHANGED <<dir, whole, upload, command, sessions, pages, history, troubles>>

-----------------------------------------------------------------------------
(* Copy to flash, reads, the catalog and the firmware session *)

\* begin_incremental_sd_to_flash_copy; the slot may have no room for the image.
BeginCopy(f) ==
    /\ Idle /\ Available
    /\ Has(f, "dest")
    /\ \/ /\ Works
          /\ upload' = [active |-> TRUE, file |-> Slot, id |-> dir[f]["dest"],
                        data |-> "part", open |-> FALSE]
          /\ copy' = "erasing" /\ source' = f
       \/ /\ Fails
          /\ upload' = [upload EXCEPT !.file = Slot]
          /\ UNCHANGED <<copy, source>>
    /\ UNCHANGED <<disk, command, read, firmware, pages, history>>

\* fail_incremental_copy, of a copy that writes to flash.
FailCopy ==
    /\ copy' = "failed" /\ source' = None
    /\ upload' = [upload EXCEPT !.active = FALSE]

CopyErase ==
    /\ Idle /\ copy = "erasing"
    /\ \/ Works /\ copy' = "writing" /\ UNCHANGED <<source, upload>>
       \/ Fails /\ FailCopy
    /\ UNCHANGED <<disk, command, read, firmware, pages, history>>

CopyWrite ==
    /\ Idle /\ copy = "writing"
    /\ \/ /\ Works
          /\ copy' = "finalizing" /\ source' = None
          /\ upload' = [upload EXCEPT !.data = "all"]
       \/ Fails /\ FailCopy
    /\ UNCHANGED <<disk, command, read, firmware, pages, history>>

\* The copy's own upload is committed, by the last step or by an IMAGE_END.
StoreCopy(step) ==
    /\ Idle /\ copy = "finalizing"
    /\ upload.active /\ upload.file = Slot
    /\ \/ /\ Works
          /\ upload' = [upload EXCEPT !.active = FALSE]
          /\ copy' = IF step THEN "done" ELSE copy
       \/ /\ step /\ Fails
          /\ upload' = [upload EXCEPT !.active = FALSE]
          /\ copy' = "failed"
    /\ UNCHANGED <<disk, command, source, read, firmware, pages, history>>

\* A step after IMAGE_ABORT or IMAGE_END took the upload of a copy that was
\* finalizing: finish_upload is called for whatever upload there is now.
StaleStep ==
    /\ Idle /\ copy = "finalizing"
    /\ ~(upload.active /\ upload.file = Slot)
    /\ IF Complete THEN BeginFinish(TRUE)
       ELSE /\ copy' = "failed"
            /\ upload' = [upload EXCEPT !.active = FALSE, !.open = FALSE]
            /\ call' = IF upload.file = Slot THEN "none" ELSE "abort"
            /\ UNCHANGED <<disk, kept, stepping, source, read, firmware, pages, history,
                           troubles>>

\* READ_SD_BEGIN, DATA and END; the directory is scanned again first.
BeginRead(f) ==
    /\ Idle /\ Available /\ source = None
    /\ Scan
    /\ f \in Visible
    /\ read' = f
    /\ UNCHANGED <<disk, upload, command, copy, source, firmware, known, history, troubles>>

EndRead ==
    /\ Idle /\ read # None
    /\ read' = None
    /\ UNCHANGED <<disk, upload, command, copy, source, firmware, pages, history, troubles>>

\* CATALOG_BEGIN: the K2 learns the generation.
Catalogue ==
    /\ Idle
    /\ Scan
    /\ known' = catalog'
    /\ UNCHANGED <<disk, upload, command, sessions, history, troubles>>

\* FIRMWARE_BEGIN; the session ends when it is finished, aborted or fails.
BeginFirmware ==
    /\ Idle /\ ~firmware
    /\ ~upload.active /\ source = None /\ read = None
    /\ firmware' = TRUE
    /\ UNCHANGED <<disk, upload, command, copy, source, read, pages, history, troubles>>

EndFirmware ==
    /\ Idle /\ firmware
    /\ firmware' = FALSE
    /\ UNCHANGED <<disk, upload, command, copy, source, read, pages, history, troubles>>

\* Power is lost between two calls, and comes back.
PowerLoss ==
    /\ Fails
    /\ upload' = NoUpload
    /\ call' = "none" /\ kept' = FALSE /\ stepping' = FALSE
    /\ copy' = "idle" /\ source' = None /\ read' = None /\ firmware' = FALSE
    /\ catalog' = NoCatalog /\ known' = NoCatalog
    /\ UNCHANGED <<disk, history>>

UploadStep ==
    \/ ClearTemp \/ Create \/ Sync \/ ClearBackup \/ Keep \/ Publish \/ Restore
    \/ DropBackup \/ DropCompressed \/ AbortUpload \/ Deselect

Next ==
    \/ \E f \in Files : BeginUpload(f) \/ Delete(f) \/ Select(f) \/ BeginCopy(f) \/ BeginRead(f)
    \/ UploadStep
    \/ Data \/ End \/ Abort
    \/ CopyErase \/ CopyWrite \/ (\E step \in BOOLEAN : StoreCopy(step)) \/ StaleStep
    \/ EndRead \/ Catalogue
    \/ BeginFirmware \/ EndFirmware
    \/ PowerLoss

Spec == Init /\ [][Next]_vars

-----------------------------------------------------------------------------
(* Properties *)

StateTypes ==
    /\ dir \in [Files -> [Roles -> Copies \cup {None}]] /\ whole \subseteq Copies
    /\ selection \in Files \cup {None}
    /\ upload \in UploadSessions
    /\ call \in Calls /\ kept \in BOOLEAN /\ stepping \in BOOLEAN /\ firmware \in BOOLEAN
    /\ copy \in CopyStates /\ source \in Files \cup {None} /\ read \in Files \cup {None}
    /\ catalog \in [gen: 0..MaxScans, files: SUBSET Files]
    /\ known \in [gen: 0..MaxScans, files: SUBSET Files]
    /\ begun \in 0..MaxUploads /\ troubles \in 0..MaxTroubles
    /\ published \subseteq Files /\ acked \in [Files -> Uploads \cup {None}]

OpenIsTemporary == upload.open => dir[upload.file]["temp"] = upload.id

OnlyWholeReplaces ==
    call \in {"clear_backup", "keep", "publish", "restore", "drop_backup"} =>
        ~upload.open /\ upload.id \in whole

\* The types of the state, and what goes together: a file that is open is the
\* temporary of the upload, and a destination is replaced only by a whole copy.
LibraryTypes == StateTypes /\ OpenIsTemporary /\ OnlyWholeReplaces

\* The sessions that share the card, the flash and the buffers exclude one another,
\* whatever commands come in whatever order; a copy's file is open only while its
\* upload is active.
Exclusive ==
    /\ upload.active => ~firmware /\ read = None
    /\ firmware => read = None
    /\ source # None => upload.active /\ upload.file = Slot

\* An image that was complete on the card, and that nobody deleted, is still there
\* under one of its names after any one failure or loss of power: the destination,
\* the backup or the temporary.
NothingLost ==
    troubles <= 1 =>
        \A f \in published :
           \E role \in {"dest", "temp", "backup"} : dir[f][role] \in whole

\* An upload that was acknowledged is the destination, whole, until the next upload
\* of the same file or its deletion.
AckMeansStored ==
    \A f \in Files : acked[f] # None =>
        dir[f]["dest"] = acked[f] /\ acked[f] \in whole

\* A page of the catalog is answered when its generation is the current one: it is
\* then a page of the scan the K2 was told of.
PageOfOwnScan == known.gen = catalog.gen => known.files = catalog.files

\* README.md:127, "Named uploads use hidden temporary and backup files so an
\* interrupted copy does not replace the previous destination."
DestinationKept == \A f \in published \ RawFiles : dir[f]["dest"] \in whole
=============================================================================
