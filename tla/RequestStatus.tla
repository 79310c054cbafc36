---------------------------- MODULE RequestStatus ----------------------------
(***************************************************************************)
(* The status rules of a request (backend/src/domain/request-status.ts).   *)
(* The repositories turn AllowedPrevious into the condition of a           *)
(* conditional UpdateItem; the worker uses IsTerminal to skip a request    *)
(* that is finished.  "none" stands for an item that is not stored yet.    *)
(***************************************************************************)
EXTENDS Naturals

TerminalStatuses == {"sent", "rejected", "failed"}

DeliverableStatuses == {"created", "queued"}

Statuses == TerminalStatuses \cup DeliverableStatuses

IsTerminal(s) == s \in TerminalStatuses

\* A slip in the table: a late "queued" may overwrite a result.
AllowedPreviousLateQueued(to) ==
    CASE to = "created" -> {"failed"}
      [] to = "queued"  -> {"created", "sent", "rejected"}
      [] OTHER          -> DeliverableStatuses

\* A slip in the table: a second run may finish a request that is `failed`.
AllowedPreviousAfterFailed(to) ==
    CASE to = "created" -> {"failed"}
      [] to = "queued"  -> {"created"}
      [] OTHER          -> DeliverableStatuses \cup {"failed"}

\* For each target status, those a request may be in right before the change.
AllowedPrevious(to) ==
    CASE to = "created" -> {"failed"}
      [] to = "queued"  -> {"created"}
      [] OTHER          -> DeliverableStatuses
=============================================================================
