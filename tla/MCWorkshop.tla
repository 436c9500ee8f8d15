------------------------------ MODULE MCWorkshop ------------------------------
(* The codes of one number, the accounts of one workspace, its repair      *)
(* invoices, a device on the bench with its photos and the pictures of the *)
(* settings, the exports, and in the browser a list and the device form.   *)
(* They share no variable: each is a scene that runs while the others are  *)
(* where they start.                                                       *)
EXTENDS Verification, Personnel, RepairInvoice, Pictures, Devices, Exports,
        ListPage, DeviceForm, TLC

CONSTANTS a, b, ann, bob, f1, f2, f3, none

MCPair == {a, b}
MCUsers == {ann, bob}
MCFiles == {f1, f2, f3}

MCOpening == [i \in {1} |-> [w \in {1} |-> 2]]
MCPart == [item |-> 1, wh |-> 1, qty |-> -1, type |-> "repair_use"]
MCPartLists == {<<>>, <<MCPart>>, <<MCPart, MCPart>>}

Alike == Permutations(MCPair)

VARIABLE scene

officeVars == <<otpVars, personnelVars, vars>>
benchVars == <<pictureVars, deviceVars, exportVars>>
screenVars == <<listVars, formVars>>

MCInit ==
    /\ OtpInit /\ PersonnelInit /\ Init
    /\ PicturesInit /\ DevicesInit /\ ExportsInit
    /\ ListInit /\ FormInit
    /\ scene \in {"codes", "personnel", "repairs", "pictures", "devices", "exports",
                  "list", "form"}
    /\ scene # "codes" => user = "none"
    /\ scene # "devices" => status = "repairing"

Office ==
    /\ \/ scene = "codes" /\ OtpNext /\ UNCHANGED <<personnelVars, vars>>
       \/ scene = "personnel" /\ PersonnelNext /\ UNCHANGED <<otpVars, vars>>
       \/ scene = "repairs" /\ Next /\ UNCHANGED <<otpVars, personnelVars>>
    /\ UNCHANGED <<benchVars, screenVars>>

Bench ==
    /\ \/ scene = "pictures" /\ PicturesNext /\ UNCHANGED <<deviceVars, exportVars>>
       \/ scene = "devices" /\ DevicesNext /\ UNCHANGED <<pictureVars, exportVars>>
       \/ scene = "exports" /\ ExportsNext /\ UNCHANGED <<pictureVars, deviceVars>>
    /\ UNCHANGED <<officeVars, screenVars>>

Screen ==
    /\ \/ scene = "list" /\ ListNext /\ UNCHANGED formVars
       \/ scene = "form" /\ FormNext /\ UNCHANGED listVars
    /\ UNCHANGED <<officeVars, benchVars>>

MCNext == (Office \/ Bench \/ Screen) /\ UNCHANGED scene

MCSpec == MCInit /\ [][MCNext]_<<scene, officeVars, benchVars, screenVars>>
=============================================================================
