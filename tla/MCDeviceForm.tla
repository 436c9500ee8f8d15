----------------------------- MODULE MCDeviceForm -----------------------------
(* A new device with its photos, and a second form. *)
EXTENDS DeviceForm, TLC

CONSTANTS a, b, p1, p2, none

MCForms == {a, b}
MCPhotos == {p1, p2}

FormsAlike == Permutations(MCForms) \cup Permutations(MCPhotos)
=============================================================================
