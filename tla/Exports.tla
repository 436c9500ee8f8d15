-------------------------------- MODULE Exports --------------------------------
(***************************************************************************)
(* Exports of a workspace: exportController.ts and the build that runs     *)
(* behind its answer (utils/export/build.ts), with the bucket it fills.    *)
(* All of it lives in one process, which may die.                          *)
(***************************************************************************)
EXTENDS Naturals, FiniteSets

CONSTANTS
    Exports,    \* rows of backups that are ever made
    Askers,     \* requests that run at once
    NoExport

ASSUME ExportsAssumption == NoExport \notin Exports

VARIABLES
    export,     \* backups
    build,      \* the builds of this process
    archive,    \* the zips in the bucket
    ask,        \* the requests under way
    halted      \* the process died, or the deletion of a row failed after its zip was gone

exportVars == <<export, build, archive, ask, halted>>

(* old is told from created_at: more than STALE_AFTER_MS ago. *)
ExportRow == [status : {"none", "pending", "ready", "failed", "removed"},
              filepath : BOOLEAN, old : BOOLEAN]

ExportsInit ==
    /\ export = [e \in Exports |-> [status |-> "none", filepath |-> FALSE, old |-> FALSE]]
    /\ build = [e \in Exports |-> "off"]
    /\ archive = {}
    /\ ask = [r \in Askers |-> [pc |-> "idle", of |-> NoExport, filepath |-> FALSE]]
    /\ halted = FALSE

Asking(r, pc) == ask[r].pc = pc

Answers(r) == ask' = [ask EXCEPT ![r] = [pc |-> "idle", of |-> NoExport, filepath |-> FALSE]]

InTable(e) == export[e].status \notin {"none", "removed"}

Builds(e, from, to) ==
    /\ build[e] = from
    /\ build' = [build EXCEPT ![e] = to]

(* A pending row is believed for half an hour. *)
Running == {e \in Exports : export[e].status = "pending" /\ ~export[e].old}

-----------------------------------------------------------------------------
(* create. *)

LookForRunning(r) ==
    /\ Asking(r, "idle")
    /\ Running = {}
    /\ ask' = [ask EXCEPT ![r].pc = "clear"]
    /\ UNCHANGED <<export, build, archive, halted>>

MakeExport(r, e) ==
    /\ Asking(r, "clear")
    /\ export[e].status = "none"
    /\ export' = [export EXCEPT ![e].status = "pending"]
    /\ build' = [build EXCEPT ![e] = "building"]
    /\ Answers(r)
    /\ UNCHANGED <<archive, halted>>

-----------------------------------------------------------------------------
(* buildExport. *)

(* A wrong form: the zip is not waited for. *)
StoreArchiveUnawaited(e) ==
    /\ Builds(e, "building", "stored")
    /\ archive' \in {archive, archive \cup {e}}
    /\ UNCHANGED <<export, ask, halted>>

(* Collecting and storing: it throws, though the zip may be stored. *)
StoreArchive(e) ==
    /\ \/ Builds(e, "building", "stored") /\ archive' = archive \cup {e}
       \/ Builds(e, "building", "caught") /\ archive' \in {archive, archive \cup {e}}
    /\ UNCHANGED <<export, ask, halted>>

(* The update throws when it finds no row, which may have been removed     *)
(* meanwhile, or when the database fails.                                  *)
MarkReady(e) ==
    /\ \/ /\ Builds(e, "stored", "off")
          /\ InTable(e)
          /\ export' = [export EXCEPT ![e].status = "ready", ![e].filepath = TRUE]
       \/ Builds(e, "stored", "caught") /\ UNCHANGED export
    /\ UNCHANGED <<archive, ask, halted>>

(* The update may fail too, and is then forgotten. *)
MarkFailed(e) ==
    /\ Builds(e, "caught", "off")
    /\ \/ export' = IF InTable(e) THEN [export EXCEPT ![e].status = "failed"] ELSE export
       \/ UNCHANGED export
    /\ UNCHANGED <<archive, ask, halted>>

-----------------------------------------------------------------------------
(* remove: the row as it was read, its object, then the row. *)

ReadExport(r, e) ==
    /\ Asking(r, "idle")
    /\ InTable(e)
    /\ export[e].status # "pending" \/ export[e].old
    /\ ask' = [ask EXCEPT ![r] = [pc |-> "removing", of |-> e, filepath |-> export[e].filepath]]
    /\ UNCHANGED <<export, build, archive, halted>>

DropArchive(r) ==
    /\ Asking(r, "removing")
    /\ ask' = [ask EXCEPT ![r].pc = "dropped"]
    /\ archive' \in IF ask[r].filepath THEN {archive, archive \ {ask[r].of}} ELSE {archive}
    /\ UNCHANGED <<export, build, halted>>

(* The database may fail here too. *)
DropExport(r) ==
    /\ Asking(r, "dropped")
    /\ \/ /\ export' = [export EXCEPT ![ask[r].of] =
                             [status |-> "removed", filepath |-> FALSE, old |-> FALSE]]
          /\ UNCHANGED halted
       \/ UNCHANGED export /\ halted' = TRUE
    /\ Answers(r)
    /\ UNCHANGED <<build, archive>>

-----------------------------------------------------------------------------
GetsOld(e) ==
    /\ export[e].status = "pending" /\ ~export[e].old
    /\ export' = [export EXCEPT ![e].old = TRUE]
    /\ UNCHANGED <<build, archive, ask, halted>>

(* A deploy or a crash: no build and no request goes on. *)
ProcessDies ==
    /\ build' = [e \in Exports |-> "off"]
    /\ ask' = [r \in Askers |-> [pc |-> "idle", of |-> NoExport, filepath |-> FALSE]]
    /\ halted' = TRUE
    /\ UNCHANGED <<export, archive>>

ExportsNext ==
    \/ \E r \in Askers : LookForRunning(r) \/ DropArchive(r) \/ DropExport(r)
    \/ \E r \in Askers, e \in Exports : MakeExport(r, e) \/ ReadExport(r, e)
    \/ \E e \in Exports : StoreArchive(e) \/ MarkReady(e) \/ MarkFailed(e) \/ GetsOld(e)
    \/ ProcessDies

ExportsSpec == ExportsInit /\ [][ExportsNext]_exportVars

-----------------------------------------------------------------------------
(* A zip that is offered for download is in the bucket: whatever the       *)
(* build, which may outlive its row, and the requests that remove rows do  *)
(* to each other.  Between the deletion of a zip and its row's, and when   *)
(* that of the row failed or the process died, an offered zip may be gone. *)
ReadyHasArchive ==
    \A e \in Exports :
        export[e].status = "ready" /\ ~halted /\ (\A r \in Askers : ask[r].of # e)
           => e \in archive
=============================================================================
