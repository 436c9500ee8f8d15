------------------------------ MODULE DeviceForm ------------------------------
(***************************************************************************)
(* The device form and its photos: DeviceFormModal.tsx saves a device and  *)
(* then its assignments, ImageUploader.tsx sends what was chosen, and      *)
(* ModalContext.tsx closes whatever form is in front when a save is        *)
(* answered.                                                               *)
(***************************************************************************)
EXTENDS Naturals, FiniteSets

CONSTANTS
    Forms,      \* forms that are ever opened, each once
    Photos,
    NoForm,
    MaxMade     \* bound: devices made from one form

ASSUME FormAssumption == NoForm \notin Forms /\ MaxMade \in Nat \ {0}

VARIABLES
    front,      \* the form that is open
    form,       \* what each form edits, and where its save is
    made,       \* devices made from each form
    photo,      \* the photos that were chosen, and in which form
    undone,     \* forms whose save failed after it had made the device
    left,       \* forms that were closed while their save was under way
    lost        \* forms that were closed by somebody else's answer

formVars == <<front, form, made, photo, undone, left, lost>>

(* deviceId is the prop: null for a new device, as long as the form lives. *)
FormRow == [deviceId : {"unopened", "null", "set"},
            call : {"idle", "saving", "assigning", "saved", "failed"}]

Unchosen == [of |-> NoForm, status |-> "none"]

FormInit ==
    /\ front = NoForm
    /\ form = [f \in Forms |-> [deviceId |-> "unopened", call |-> "idle"]]
    /\ made = [f \in Forms |-> 0]
    /\ photo = [p \in Photos |-> Unchosen]
    /\ undone = {} /\ left = {} /\ lost = {}

Call(f, from, to) ==
    /\ form[f].call = from
    /\ form' = [form EXCEPT ![f].call = to]

OpenForm(f) ==
    /\ front = NoForm
    /\ form[f].deviceId = "unopened"
    /\ front' = f
    /\ \E id \in {"null", "set"} : form' = [form EXCEPT ![f].deviceId = id]
    /\ UNCHANGED <<made, photo, undone, left, lost>>

(* addFiles: a photo of a device that is not there yet waits for its id. *)
ChoosePhoto(p) ==
    /\ front # NoForm
    /\ photo[p].status = "none"
    /\ photo' = [photo EXCEPT ![p] = [of |-> front,
          status |-> IF form[front].deviceId = "set" THEN "uploading" ELSE "queued"]]
    /\ UNCHANGED <<front, form, made, undone, left, lost>>

(* uploadOne; what failed stays with its message and a button. *)
Upload(p) ==
    /\ photo[p].status = "uploading"
    /\ \E s \in {"done", "error"} : photo' = [photo EXCEPT ![p].status = s]
    /\ UNCHANGED <<front, form, made, undone, left, lost>>

RetryUpload(p) ==
    /\ front # NoForm /\ photo[p].of = front
    /\ photo[p].status = "error"
    /\ photo' = [photo EXCEPT ![p].status = "uploading"]
    /\ UNCHANGED <<front, form, made, undone, left, lost>>

RemovePhoto(p) ==
    /\ front # NoForm /\ photo[p].of = front
    /\ photo[p].status \in {"queued", "uploading", "error"}
    /\ photo' = [photo EXCEPT ![p].status = "removed"]
    /\ UNCHANGED <<front, form, made, undone, left, lost>>

(* The form is unmounted: its queue is gone, and what is on the wire is    *)
(* aborted, which the server may or may not notice.                        *)
Unmounted(f, queued) ==
    LET wire == {p \in Photos : photo[p].of = f /\ photo[p].status = "uploading"}
    IN \E arrived \in SUBSET wire :
          photo' = [p \in Photos |->
             IF p \in arrived THEN [photo[p] EXCEPT !.status = "done"]
             ELSE IF p \in wire THEN [photo[p] EXCEPT !.status = "removed"]
             ELSE IF photo[p].of = f /\ photo[p].status = "queued"
                  THEN [photo[p] EXCEPT !.status = queued]
             ELSE photo[p]]

(* The user closes the form, with what is in it. *)
CloseForm ==
    /\ front # NoForm
    /\ front' = NoForm
    /\ Unmounted(front, "removed")
    /\ left' = IF form[front].call = "idle" THEN left ELSE left \cup {front}
    /\ UNCHANGED <<form, made, undone, lost>>

-----------------------------------------------------------------------------
(* handleSubmit. *)

(* A wrong form: the button is not disabled while a save is under way. *)
SubmitAgain(f) ==
    /\ front = f
    /\ form[f].call \in {"idle", "assigning"}
    /\ made[f] < MaxMade
    /\ form' = [form EXCEPT ![f].call = "saving"]
    /\ UNCHANGED <<front, made, photo, undone, left, lost>>

Submit(f) ==
    /\ front = f
    /\ made[f] < MaxMade
    /\ Call(f, "idle", "saving")
    /\ UNCHANGED <<front, made, photo, undone, left, lost>>

Makes(f) == IF form[f].deviceId = "null" THEN made[f] + 1 ELSE made[f]

SaveDevice(f) ==
    /\ Call(f, "saving", "assigning")
    /\ made' = [made EXCEPT ![f] = Makes(f)]
    /\ UNCHANGED <<front, photo, undone, left, lost>>

(* Refused, or saved with an answer that never came. *)
SaveFails(f) ==
    /\ Call(f, "saving", "failed")
    /\ \/ UNCHANGED <<made, undone>>
       \/ made' = [made EXCEPT ![f] = Makes(f)] /\ undone' = undone \cup {f}
    /\ UNCHANGED <<front, photo, left, lost>>

SetAssignments(f) ==
    /\ Call(f, "assigning", "saved")
    /\ UNCHANGED <<front, made, photo, undone, left, lost>>

(* The form keeps nothing of the device it has just made. *)
AssignmentsFail(f) ==
    /\ Call(f, "assigning", "failed")
    /\ undone' = undone \cup {f}
    /\ UNCHANGED <<front, made, photo, left, lost>>

(* A wrong form: an error closes the form as well. *)
TellErrorAndClose(f) ==
    /\ Call(f, "failed", "idle")
    /\ front' = NoForm
    /\ lost' = IF front # NoForm THEN lost \cup {front} ELSE lost
    /\ UNCHANGED <<made, photo, undone, left>>

(* A toast; the form stays, with what was typed. *)
TellError(f) ==
    /\ Call(f, "failed", "idle")
    /\ UNCHANGED <<front, made, photo, undone, left, lost>>

(* onSuccess and onClose: the form in front goes, whosever answer it is. *)
TellSaved(f) ==
    /\ Call(f, "saved", "idle")
    /\ front' = NoForm
    /\ IF front = NoForm THEN UNCHANGED photo ELSE Unmounted(front, "forgotten")
    /\ lost' = IF front \in {f, NoForm} THEN lost ELSE lost \cup {front}
    /\ UNCHANGED <<made, undone, left>>

FormNext ==
    \/ \E f \in Forms : \/ OpenForm(f) \/ Submit(f) \/ SaveDevice(f) \/ SaveFails(f)
                        \/ SetAssignments(f) \/ AssignmentsFail(f)
                        \/ TellError(f) \/ TellSaved(f)
    \/ \E p \in Photos : ChoosePhoto(p) \/ Upload(p) \/ RetryUpload(p) \/ RemovePhoto(p)
    \/ CloseForm

FormSpec == FormInit /\ [][FormNext]_formVars

-----------------------------------------------------------------------------
(* What is typed into a form becomes one device: not two, unless a save    *)
(* failed after the device was made and the user saved again; and it is    *)
(* not thrown away by another form's answer, unless that form was closed   *)
(* while it was being saved.                                               *)
WorkArrivesOnce ==
    /\ \A f \in Forms : made[f] <= 1 \/ f \in undone
    /\ lost = {} \/ left # {}

(* ImageUploader: "Once the new device has an id, anything waiting goes up *)
(* on its own."  So no photo that waits for a device is forgotten when the *)
(* device is saved.                                                        *)
WaitingPhotosGoUp == \A p \in Photos : photo[p].status # "forgotten"
=============================================================================
