-------------------------------- MODULE Devices --------------------------------
(***************************************************************************)
(* The status of a device, the message that a change of it owes the        *)
(* customer, and the day it was handed over: create, update and remove of  *)
(* deviceController.ts.  What becomes of a message that is owed is         *)
(* SmsCredit's.                                                            *)
(***************************************************************************)
EXTENDS Naturals, FiniteSets

CONSTANTS
    Desks,      \* requests that run at once
    MaxUpdates  \* bound: updates that write

ASSUME DevicesAssumption == MaxUpdates \in Nat

VARIABLES
    status,     \* devices.status, or "gone"
    stamps,     \* how often exit_date was set to today
    desk,       \* the requests under way
    told,       \* messages of each kind that were handed to notifyCustomer
    moved,      \* how often the row came to the status of each kind
    interleaved     \* a request read the status while another was about to write it

deviceVars == <<status, stamps, desk, told, moved, interleaved>>

(* Those that owe a message, and those that do not. *)
Kinds == {"ready_for_pickup", "delivered"}
Statuses == Kinds \cup {"repairing"}

(* to is "same" when the request leaves the status out; dated when it sets *)
(* the exit date itself.                                                   *)
Free == [pc |-> "free", from |-> "repairing", to |-> "same", dated |-> FALSE]

DevicesInit ==
    /\ status \in Statuses
    /\ stamps = 0
    /\ desk = [d \in Desks |-> Free]
    /\ told = [k \in Kinds |-> 0]
    /\ moved = [k \in Kinds |-> IF k = status THEN 1 ELSE 0]
    /\ interleaved = FALSE

Leaves(d) == desk' = [desk EXCEPT ![d] = Free]

(* The status before, in a statement of its own. *)
ReadStatus(d, to, dated) ==
    /\ desk[d].pc = "free" /\ status # "gone"
    /\ desk' = [desk EXCEPT ![d] = [pc |-> "read", from |-> status, to |-> to, dated |-> dated]]
    /\ interleaved' = (interleaved \/ \E o \in Desks : desk[o].pc = "read")
    /\ UNCHANGED <<status, stamps, told, moved>>

(* The date of the hand-over goes by the transition. *)
HandsOver(d) == desk[d].to = "delivered" /\ desk[d].from # "delivered" /\ ~desk[d].dated

Written(d) == IF desk[d].to = "same" THEN status ELSE desk[d].to

WriteDevice(d) ==
    /\ desk[d].pc = "read"
    /\ IF status = "gone"
       THEN Leaves(d) /\ UNCHANGED <<status, stamps, moved>>
       ELSE /\ status' = Written(d)
            /\ stamps' = IF HandsOver(d) THEN stamps + 1 ELSE stamps
            /\ moved' = [k \in Kinds |->
                  IF Written(d) = k /\ status # k THEN moved[k] + 1 ELSE moved[k]]
            /\ desk' = [desk EXCEPT ![d].pc = "saved", ![d].to = Written(d)]
    /\ UNCHANGED <<told, interleaved>>

(* A wrong form: the message goes by the value. *)
NotificationByValue(from, to) == IF to \in Kinds THEN {to} ELSE {}

(* transitionNotification, of the status before and the one that was saved. *)
Notification(from, to) == IF from # to /\ to \in Kinds THEN {to} ELSE {}

(* After the write, outside it; only when the request asks for a message.  *)
NotifyIfAsked(d) ==
    /\ desk[d].pc = "saved"
    /\ \E asked \in BOOLEAN :
          told' = [k \in Kinds |->
             IF asked /\ k \in Notification(desk[d].from, desk[d].to) THEN told[k] + 1 ELSE told[k]]
    /\ Leaves(d)
    /\ UNCHANGED <<status, stamps, moved, interleaved>>

(* remove, of a device that no invoice refers to; Pictures has its photos. *)
RemoveRow ==
    /\ status # "gone"
    /\ status' = "gone"
    /\ UNCHANGED <<stamps, desk, told, moved, interleaved>>

(* The process dies: a message that was owed is owed no more. *)
DeskDies(d) ==
    /\ desk[d].pc # "free"
    /\ Leaves(d)
    /\ UNCHANGED <<status, stamps, told, moved, interleaved>>

DevicesNext ==
    \/ \E d \in Desks, to \in Statuses \cup {"same"}, dated \in BOOLEAN :
          moved["delivered"] + moved["ready_for_pickup"] < MaxUpdates /\ ReadStatus(d, to, dated)
    \/ \E d \in Desks : WriteDevice(d) \/ NotifyIfAsked(d) \/ DeskDies(d)
    \/ RemoveRow

DevicesSpec == DevicesInit /\ [][DevicesNext]_deviceVars

-----------------------------------------------------------------------------
(* A customer is told no more often that a device is ready, or handed      *)
(* over, than it came to be, and its exit date is set to today no more     *)
(* often than it was handed over, however often it is saved again; unless  *)
(* a request read the status while another was about to write it.          *)
ToldOncePerMove ==
    interleaved \/ (/\ \A k \in Kinds : told[k] <= moved[k]
                /\ stamps <= moved["delivered"])
=============================================================================
