------------------------------- MODULE Pictures -------------------------------
(***************************************************************************)
(* Photos of a device and the pictures of the settings page: a row of the  *)
(* database and an object of the bucket that no transaction holds          *)
(* together (imageController.ts, settingsController.ts, lib/storage.ts,    *)
(* and the deletion of a device in deviceController.ts).                   *)
(***************************************************************************)
EXTENDS Naturals, FiniteSets

CONSTANTS
    Files,      \* pictures somebody uploads, each under a key of its own
    Requests,   \* requests that run at once
    NoFile,
    MaxPhotos   \* bound: a photo is one of the first pictures uploaded

ASSUME PicturesAssumption == NoFile \notin Files /\ MaxPhotos \in Nat

VARIABLES
    device,     \* the row of the device: here, invoiced (a repair invoice refers to it) or gone
    image,      \* device_images: the row of each file, and whether it has a thumbnail_path
    logo,       \* the picture a settings column names
    objects,    \* what is in the bucket
    work,       \* the requests under way
    keyed,      \* the files that have a key
    stranded    \* the keys of each request that ended between its objects and its rows

pictureVars == <<device, image, logo, objects, work, keyed, stranded>>

Full(f) == <<f, "full">>
Thumb(f) == <<f, "thumb">>

ImageRow == [row : {"none", "kept", "deleted"}, thumb : BOOLEAN]

RowDeleted == [row |-> "deleted", thumb |-> FALSE]

(* keys is what the request read and is about to delete. *)
Unoccupied == [pc |-> "idle", file |-> NoFile, thumb |-> FALSE, keys |-> {}]

PicturesInit ==
    /\ device = "here"
    /\ image = [f \in Files |-> [row |-> "none", thumb |-> FALSE]]
    /\ logo = NoFile
    /\ objects = {}
    /\ work = [r \in Requests |-> Unoccupied]
    /\ keyed = {}
    /\ stranded = {}

Goes(r, from, to) ==
    /\ work[r].pc = from
    /\ work' = [work EXCEPT ![r].pc = to]

Finishes(r, from) ==
    /\ work[r].pc = from
    /\ work' = [work EXCEPT ![r] = Unoccupied]

KeysOf(f) == {Full(f)} \cup (IF image[f].thumb THEN {Thumb(f)} ELSE {})

Shown == {f \in Files : image[f].row = "kept"}

(* A key is a fresh UUID: each file is uploaded once, and which is next is *)
(* all the same.                                                           *)
Keyed(f) ==
    /\ keyed # Files
    /\ f = CHOOSE g \in Files : g \notin keyed
    /\ keyed' = keyed \cup {f}

(* putObject stores the bytes, or throws though it may have stored them. *)
PutOutcome(key, stored) ==
    IF stored THEN objects' = objects \cup {key}
    ELSE objects' \in {objects, objects \cup {key}}

(* deleteObject and deleteObjects: a failure is logged and forgotten. *)
DropOutcome(keys) == \E dropped \in SUBSET keys : objects' = objects \ dropped

-----------------------------------------------------------------------------
(* uploadImages, one file of the batch at a time. *)

StartUpload(r, f) ==
    /\ work[r].pc = "idle" /\ Keyed(f)
    /\ device # "gone" /\ Cardinality(keyed) < MaxPhotos
    /\ work' = [work EXCEPT ![r] = [Unoccupied EXCEPT !.pc = "photo", !.file = f]]
    /\ UNCHANGED <<device, image, logo, objects, stranded>>

(* A wrong form: a photo that did not upload gets its row all the same. *)
PutFullAnyway(r) ==
    /\ Goes(r, "photo", "thumbnail")
    /\ \E stored \in BOOLEAN : PutOutcome(Full(work[r].file), stored)
    /\ UNCHANGED <<device, image, logo, stranded, keyed>>

(* The full image; the file is skipped when it cannot be stored. *)
PutFull(r) ==
    /\ \/ Goes(r, "photo", "thumbnail") /\ PutOutcome(Full(work[r].file), TRUE)
       \/ Finishes(r, "photo") /\ PutOutcome(Full(work[r].file), FALSE)
    /\ UNCHANGED <<device, image, logo, stranded, keyed>>

(* A thumbnail that fails is left out of the row. *)
PutThumb(r) ==
    /\ work[r].pc = "thumbnail"
    /\ \E stored \in BOOLEAN :
          /\ PutOutcome(Thumb(work[r].file), stored)
          /\ work' = [work EXCEPT ![r].pc = "row", ![r].thumb = stored]
    /\ UNCHANGED <<device, image, logo, stranded, keyed>>

(* The row refers to the device, which may be gone by now. *)
MakeImageRow(r) ==
    /\ Finishes(r, "row")
    /\ image' = IF device = "gone" THEN image
                ELSE [image EXCEPT ![work[r].file] = [row |-> "kept", thumb |-> work[r].thumb]]
    /\ UNCHANGED <<device, logo, objects, stranded, keyed>>

-----------------------------------------------------------------------------
(* deleteImage: the objects, then the row. *)

StartDelete(r, f) ==
    /\ work[r].pc = "idle" /\ f \in Shown
    /\ work' = [work EXCEPT ![r] = [Unoccupied EXCEPT !.pc = "erasing", !.file = f,
                                                      !.keys = KeysOf(f)]]
    /\ UNCHANGED <<device, image, logo, objects, stranded, keyed>>

DropImage(r) ==
    /\ Goes(r, "erasing", "erased")
    /\ DropOutcome(work[r].keys)
    /\ UNCHANGED <<device, image, logo, stranded, keyed>>

(* Nothing to delete is an error, and changes nothing either. *)
DropImageRow(r) ==
    /\ Finishes(r, "erased")
    /\ image' = [image EXCEPT ![work[r].file] = RowDeleted]
    /\ UNCHANGED <<device, logo, objects, stranded, keyed>>

-----------------------------------------------------------------------------
(* The deletion of a device: no invoices when it looked, then its photos'  *)
(* objects, then its row, which takes the photos' rows along.              *)

StartRemoval(r) ==
    /\ Goes(r, "idle", "listing")
    /\ device = "here"
    /\ UNCHANGED <<device, image, logo, objects, stranded, keyed>>

ListImages(r) ==
    /\ work[r].pc = "listing"
    /\ work' = [work EXCEPT ![r].pc = "emptying", ![r].keys = UNION {KeysOf(f) : f \in Shown}]
    /\ UNCHANGED <<device, image, logo, objects, stranded, keyed>>

EmptyDevice(r) ==
    /\ Goes(r, "emptying", "removing")
    /\ DropOutcome(work[r].keys)
    /\ UNCHANGED <<device, image, logo, stranded, keyed>>

(* An invoice that came meanwhile restricts the deletion. *)
RemoveDevice(r) ==
    /\ Finishes(r, "removing")
    /\ IF device = "here"
       THEN /\ device' = "gone"
            /\ image' = [f \in Files |->
                  IF f \in Shown THEN RowDeleted ELSE image[f]]
            /\ UNCHANGED stranded
       ELSE /\ stranded' = stranded \cup work[r].keys
            /\ UNCHANGED <<device, image>>
    /\ UNCHANGED <<logo, objects, keyed>>

InvoiceDevice ==
    /\ device = "here"
    /\ device' = "invoiced"
    /\ UNCHANGED <<image, logo, objects, work, stranded, keyed>>

-----------------------------------------------------------------------------
(* uploadImage of the settings: read the old key, store, point, delete.    *)

StartLogo(r, f) ==
    /\ work[r].pc = "idle" /\ Keyed(f)
    /\ work' = [work EXCEPT ![r] = [Unoccupied EXCEPT !.pc = "logo", !.file = f,
             !.keys = IF logo = NoFile THEN {} ELSE {Full(logo)}]]
    /\ UNCHANGED <<device, image, logo, objects, stranded>>

PutLogo(r) ==
    /\ \/ Goes(r, "logo", "pointing") /\ PutOutcome(Full(work[r].file), TRUE)
       \/ Finishes(r, "logo") /\ PutOutcome(Full(work[r].file), FALSE)
    /\ UNCHANGED <<device, image, logo, stranded, keyed>>

PointLogo(r) ==
    /\ Goes(r, "pointing", "replaced")
    /\ logo' = work[r].file
    /\ UNCHANGED <<device, image, objects, stranded, keyed>>

DropLogo(r) ==
    /\ Finishes(r, "replaced")
    /\ DropOutcome(work[r].keys)
    /\ UNCHANGED <<device, image, logo, stranded, keyed>>

-----------------------------------------------------------------------------
(* The process dies, or a statement of the database fails. *)
CutShort(r) ==
    /\ work[r].pc # "idle"
    /\ work' = [work EXCEPT ![r] = Unoccupied]
    /\ stranded' = stranded \cup (IF work[r].pc \in {"erased", "removing"} THEN work[r].keys
                                 ELSE {})
    /\ UNCHANGED <<device, image, logo, objects, keyed>>

PicturesNext ==
    \/ \E r \in Requests, f \in Files :
          StartUpload(r, f) \/ StartDelete(r, f) \/ StartLogo(r, f)
    \/ \E r \in Requests :
          \/ PutFull(r) \/ PutThumb(r) \/ MakeImageRow(r)
          \/ DropImage(r) \/ DropImageRow(r)
          \/ StartRemoval(r) \/ ListImages(r) \/ EmptyDevice(r) \/ RemoveDevice(r)
          \/ PutLogo(r) \/ PointLogo(r) \/ DropLogo(r) \/ CutShort(r)
    \/ InvoiceDevice

PicturesSpec == PicturesInit /\ [][PicturesNext]_pictureVars

-----------------------------------------------------------------------------
(* What deletions have in hand between their objects and their rows. *)
InDeletion == UNION {work[r].keys : r \in {q \in Requests : work[q].pc \in {"erased", "removing"}}}

(* What a row points at is in the bucket: always the picture of the        *)
(* settings, whatever fails and whoever else replaces it, and the photo    *)
(* and the thumbnail of every photo row, but for the very keys that a      *)
(* deletion has in hand between its objects and its rows, or had when it   *)
(* ended there. An upload that fails, a deletion that crosses it and the   *)
(* deletion of another photo never leave a row without its objects.        *)
RowsHaveObjects ==
    /\ logo # NoFile => Full(logo) \in objects
    /\ \A f \in Shown : KeysOf(f) \subseteq objects \cup InDeletion \cup stranded

(* "Object first, row second", says deleteImage: "The other order would    *)
(* risk a row pointing at an object that no longer exists", this order     *)
(* only an object nobody sees. A photo's row has its object, then, unless  *)
(* a request has that photo in hand. It is the code's own order that       *)
(* leaves such a row, where the row's deletion fails or the process dies.  *)
NoRowWithoutObject ==
    \A f \in Shown : Full(f) \in objects \/ \E r \in Requests : Full(f) \in work[r].keys
=============================================================================
