------------------------------- MODULE ListPage -------------------------------
(***************************************************************************)
(* A list page with its search, its pages, the status picker of its rows   *)
(* and the forms over it: what the page asks the server for, and the       *)
(* answers, which arrive in any order.  The seven lists share the pattern; *)
(* the lines are those of RepairInvoiceList.tsx and DeviceList.tsx, with   *)
(* useDebounce (helpers.ts) and ModalContext.tsx.                          *)
(***************************************************************************)
EXTENDS Naturals, Sequences

CONSTANTS
    Searches,   \* what may be typed; a filter goes the same way, at once
    Pages,      \* page numbers
    Blank,      \* nothing typed
    MaxFlight,  \* bound: requests for rows under way
    MaxSaves    \* bound: changes that this page makes

ASSUME ListAssumption ==
    /\ Blank \in Searches /\ 1 \in Pages /\ Pages \subseteq Nat
    /\ MaxFlight \in Nat /\ MaxSaves \in Nat

VARIABLES
    input,      \* the search box
    debounced,  \* what the page took of it
    page,
    flight,     \* requests for rows under way, in the order they were sent
    shown,      \* the rows on the page
    loading,
    saved,      \* changes that this page made in the database
    answered,   \* the newest of them that it had an answer for
    modal,      \* whether a form covers the page
    saving,     \* the save of a form, which outlives the form
    row         \* the change of a row's status, with the question it closed over

listVars == <<input, debounced, page, flight, shown, loading, saved, answered, modal, saving, row>>

Question == [search : Searches, page : Pages]

Asked == [search |-> debounced, page |-> page]

(* odd marks an answer that was overtaken by one asked for later, or whose *)
(* question was no longer the page's when it was sent.                     *)
NoRows(q) == [question |-> q, version |-> 0, failed |-> TRUE, odd |-> FALSE]

Sent(q, odd) == [question |-> q, from |-> saved, odd |-> odd]

(* fetchInvoices, once for each question. *)
Fetch(requests) ==
    /\ Len(flight) + Len(requests) <= MaxFlight
    /\ flight' = flight \o requests
    /\ loading' = TRUE

ListInit ==
    /\ input = Blank /\ debounced = Blank /\ page = 1
    /\ saved = 0 /\ answered = 0
    /\ flight = <<Sent(Asked, FALSE)>>
    /\ shown = NoRows(Asked)
    /\ loading = TRUE
    /\ modal = "closed"
    /\ saving = "idle"
    /\ row = [pc |-> "idle", question |-> Asked]

Type(v) ==
    /\ modal = "closed"
    /\ v # input
    /\ input' = v
    /\ UNCHANGED <<debounced, page, flight, shown, loading, saved, answered, modal, saving, row>>

(* The new search goes out with the page that was; then the page goes back *)
(* to one, and that goes out too.                                          *)
Debounce ==
    /\ input # debounced
    /\ debounced' = input
    /\ page' = 1
    /\ Fetch(<<Sent([search |-> input, page |-> page], FALSE)>>
             \o IF page = 1 THEN <<>> ELSE <<Sent([search |-> input, page |-> 1], FALSE)>>)
    /\ UNCHANGED <<input, shown, saved, answered, modal, saving, row>>

GoTo(p) ==
    /\ modal = "closed" /\ ~loading /\ ~shown.failed
    /\ p # page
    /\ page' = p
    /\ Fetch(<<Sent([search |-> debounced, page |-> p], FALSE)>>)
    /\ UNCHANGED <<input, debounced, shown, saved, answered, modal, saving, row>>

(* The rows were read at some moment since they were asked for.  What was  *)
(* asked for before them and is still under way is overtaken.              *)
Landed(n) ==
    /\ flight' = [k \in 1..(Len(flight) - 1) |->
                     IF k < n THEN [flight[k] EXCEPT !.odd = TRUE] ELSE flight[k + 1]]
    /\ loading' = FALSE
    /\ UNCHANGED <<input, debounced, page, saved, answered, modal, saving, row>>

Arrive(n) ==
    /\ \E v \in flight[n].from..saved :
          shown' = [question |-> flight[n].question, version |-> v, failed |-> FALSE,
                    odd |-> flight[n].odd]
    /\ Landed(n)

(* A toast, and an empty list. *)
FetchFails(n) ==
    /\ shown' = [NoRows(flight[n].question) EXCEPT !.odd = flight[n].odd]
    /\ Landed(n)

-----------------------------------------------------------------------------
(* The status of a row.  What follows the answer asks the question of the  *)
(* render in which the change was picked.                                  *)

PickStatus ==
    /\ modal = "closed" /\ ~loading /\ ~shown.failed
    /\ row.pc = "idle"
    /\ saved < MaxSaves
    /\ row' = [pc |-> "sent", question |-> Asked]
    /\ UNCHANGED <<input, debounced, page, flight, shown, loading, saved, answered, modal, saving>>

RowChanges ==
    /\ row.pc = "sent"
    /\ \/ saved < MaxSaves /\ saved' = saved + 1 /\ row' = [row EXCEPT !.pc = "done"]
       \/ UNCHANGED saved /\ row' = [row EXCEPT !.pc = "idle"]
    /\ UNCHANGED <<input, debounced, page, flight, shown, loading, answered, modal, saving>>

RowAnswered ==
    /\ row.pc = "done"
    /\ row' = [row EXCEPT !.pc = "idle"]
    /\ answered' = saved
    /\ Fetch(<<Sent(row.question, row.question # Asked)>>)
    /\ UNCHANGED <<input, debounced, page, shown, saved, modal, saving>>

-----------------------------------------------------------------------------
(* The forms, one over the page at a time. *)

OpenModal ==
    /\ modal = "closed" /\ ~loading
    /\ modal' = "open"
    /\ UNCHANGED <<input, debounced, page, flight, shown, loading, saved, answered, saving, row>>

SubmitModal ==
    /\ modal = "open" /\ saving = "idle"
    /\ saved < MaxSaves
    /\ saving' = "sent"
    /\ UNCHANGED <<input, debounced, page, flight, shown, loading, saved, answered, modal, row>>

ModalSaves ==
    /\ saving = "sent"
    /\ \/ saved < MaxSaves /\ saved' = saved + 1 /\ saving' = "done"
       \/ UNCHANGED saved /\ saving' = "idle"
    /\ UNCHANGED <<input, debounced, page, flight, shown, loading, answered, modal, row>>

(* closeModal: the form goes and the list asks again, as it stands now. *)
CloseModal ==
    /\ modal = "open"
    /\ modal' = "closed"
    /\ Fetch(<<Sent(Asked, FALSE)>>)
    /\ UNCHANGED <<input, debounced, page, shown, saved, answered, saving, row>>

(* A wrong form, as one list once was: nothing tells the list. *)
ModalAnsweredQuietly ==
    /\ saving = "done"
    /\ saving' = "idle"
    /\ answered' = saved
    /\ modal' = "closed"
    /\ UNCHANGED <<input, debounced, page, flight, shown, loading, saved, row>>

(* onSuccess and onClose are both closeModal: whatever form is there goes, *)
(* and the list asks twice.                                                *)
ModalAnswered ==
    /\ saving = "done"
    /\ saving' = "idle"
    /\ answered' = saved
    /\ modal' = "closed"
    /\ Fetch(<<Sent(Asked, FALSE), Sent(Asked, FALSE)>>)
    /\ UNCHANGED <<input, debounced, page, shown, saved, row>>

ListNext ==
    \/ \E v \in Searches : Type(v)
    \/ Debounce
    \/ \E p \in Pages : GoTo(p)
    \/ \E n \in DOMAIN flight : Arrive(n) \/ FetchFails(n)
    \/ PickStatus \/ RowChanges \/ RowAnswered
    \/ OpenModal \/ SubmitModal \/ ModalSaves \/ CloseModal \/ ModalAnswered

ListSpec == ListInit /\ [][ListNext]_listVars

-----------------------------------------------------------------------------
(* Once nothing is under way the list shows what the search and the page   *)
(* number say, with every change that the page was told it made, and not a *)
(* skeleton, whatever was typed, saved and closed in between; unless the   *)
(* rows came out of order or answered a question of an earlier render.     *)
ShowsWhatIsAsked ==
    (flight = <<>> /\ input = debounced) =>
        /\ ~loading
        /\ shown.failed \/ shown.odd \/ (shown.question = Asked /\ shown.version >= answered)
=============================================================================
