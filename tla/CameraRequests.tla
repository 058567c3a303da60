---------------------------- MODULE CameraRequests ----------------------------
(***************************************************************************)
(* The requests of src/src/routes.rs about one camera: each loads the row  *)
(* in a statement of its own, decides on what it read, and only then opens *)
(* the transaction that writes (or issues its answer).  Of the row the     *)
(* columns are kept that other parts read: whether the camera is enabled   *)
(* and whether it has a sub stream; a deleted row stays in the table.      *)
(***************************************************************************)
EXTENDS Naturals

CONSTANTS
    Requests,     \* requests being handled at a time
    Patches       \* what an update may ask for: some fields with their new values

Fields == {"enabled", "sub"}
Profiles == {"main", "sub"}
Kinds == {"update", "delete", "read", "playback"}

ASSUME RequestsAssumption == Patches \subseteq UNION {[S -> BOOLEAN] : S \in SUBSET Fields}

VARIABLES
    row,       \* the camera's row in the table cameras
    desired,   \* its row in media_desired_states
    request    \* the requests between their two statements

cameraVars == <<row, desired, request>>

\* A request that is not being handled.
Free == [at |-> "free", kind |-> "update", named |-> {},
         fields |-> [f \in Fields |-> FALSE], profile |-> "main", overtaken |-> FALSE]

RequestsTypeOK ==
    /\ row \in [deleted : BOOLEAN, fields : [Fields -> BOOLEAN]]
    /\ desired \in [present : BOOLEAN, sub : BOOLEAN]
    /\ request \in [Requests ->
         [at : {"free", "loaded"}, kind : Kinds, named : SUBSET Fields,
          fields : [Fields -> BOOLEAN], profile : Profiles, overtaken : BOOLEAN]]

\* queue_camera_change: what the transaction makes of the row is what MediaMTX is
\* to serve; a sub path is recorded for a camera that is switched off too, and a
\* deletion records what it had loaded, which is never read.
Queued(present, fields) == [present |-> present, sub |-> present /\ fields["sub"]]

\* create_camera: one transaction, of a request nothing can meet before it ends.
RequestsInit ==
    /\ row \in [deleted : {FALSE}, fields : [Fields -> BOOLEAN]]
    /\ desired = Queued(row.fields["enabled"], row.fields)
    /\ request = [r \in Requests |-> Free]

-----------------------------------------------------------------------------
(* load_camera: a deleted camera is not found, and the request ends there. *)

Loading(r) == request[r].at = "free" /\ ~row.deleted

\* Mutants of Merged: only the named fields are written; a field that is not named
\* falls back to its default.
MergedNamed(patch, existing) == patch
MergedWithDefaults(patch, existing) ==
    [f \in Fields |-> IF f \in DOMAIN patch THEN patch[f] ELSE f = "enabled"]

\* The fields a request does not name are those of the row it loaded.
Merged(patch, existing) ==
    [f \in Fields |-> IF f \in DOMAIN patch THEN patch[f] ELSE existing[f]]

\* Every column is computed before the transaction is begun.
LoadForUpdate(r, patch) ==
    /\ Loading(r)
    /\ request' = [request EXCEPT ![r] =
                     [Free EXCEPT !.at = "loaded", !.named = DOMAIN patch,
                                  !.fields = Merged(patch, row.fields)]]
    /\ UNCHANGED <<row, desired>>

LoadForDelete(r) ==
    /\ Loading(r)
    /\ request' = [request EXCEPT ![r] = [Free EXCEPT !.at = "loaded", !.kind = "delete"]]
    /\ UNCHANGED <<row, desired>>

\* Mutant of MayRead: a camera that is switched off may be watched.
MayReadDisabled(profile) == profile = "sub" => row.fields["sub"]

\* stream_ticket refuses a camera that is switched off and a profile it has not.
MayRead(profile) ==
    /\ row.fields["enabled"]
    /\ profile = "sub" => row.fields["sub"]

LoadForTicket(r, profile) ==
    /\ Loading(r)
    /\ MayRead(profile)
    /\ request' = [request EXCEPT ![r] =
                     [Free EXCEPT !.at = "loaded", !.kind = "read", !.profile = profile]]
    /\ UNCHANGED <<row, desired>>

\* list_recordings; play_recording is the same with the main profile.
LoadForPlayback(r, profile) ==
    /\ Loading(r)
    /\ profile = "sub" => row.fields["sub"]
    /\ request' = [request EXCEPT ![r] =
                     [Free EXCEPT !.at = "loaded", !.kind = "playback", !.profile = profile]]
    /\ UNCHANGED <<row, desired>>

-----------------------------------------------------------------------------
(* The transactions.                                                       *)

Loaded(r, kind) == request[r].at = "loaded" /\ request[r].kind = kind

Answered(r) == [request EXCEPT ![r] = Free]

\* History: a request that has loaded a row which is written now.
Overtaken(r) ==
    [q \in Requests |-> IF q = r THEN Free
                        ELSE [request[q] EXCEPT !.overtaken = @ \/ Loaded(q, "update")]]

\* Mutant of Updated: the row is found although it was deleted meanwhile.
UpdatedDeleted(r) == TRUE

\* UPDATE ... WHERE id AND deleted_at IS NULL RETURNING finds its row.
Updated(r) == ~row.deleted

UpdateCamera(r) ==
    /\ Loaded(r, "update")
    /\ Updated(r)
    /\ row' = [row EXCEPT !.fields = request[r].fields]
    /\ desired' = Queued(request[r].fields["enabled"], request[r].fields)
    /\ request' = Overtaken(r)

\* No row is returned: the transaction is rolled back and the request fails.
UpdateRefused(r) ==
    /\ Loaded(r, "update")
    /\ ~Updated(r)
    /\ request' = Answered(r)
    /\ UNCHANGED <<row, desired>>

\* The UPDATE of a camera that another request deleted meanwhile changes no row,
\* which nothing looks at: the operation is queued again.
DeleteCamera(r) ==
    /\ Loaded(r, "delete")
    /\ row' = [row EXCEPT !.deleted = TRUE]
    /\ desired' = Queued(FALSE, row.fields)
    /\ request' = Overtaken(r)

\* A transaction fails before its commit: nothing of it is left.
RequestFails(r) ==
    /\ Loaded(r, "update") \/ Loaded(r, "delete")
    /\ request' = Answered(r)
    /\ UNCHANGED <<row, desired>>

Served(profile) ==
    /\ ~row.deleted
    /\ row.fields["enabled"]
    /\ profile = "sub" => row.fields["sub"]

-----------------------------------------------------------------------------
(* Properties.                                                             *)

\* What MediaMTX is asked to serve is what the camera's row says, in every order of
\* the loads and the transactions of concurrent updates and deletions
\* (update_camera, delete_camera, queue_camera_change).
DesiredFollowsRow ==
    /\ desired.present <=> ~row.deleted /\ row.fields["enabled"]
    /\ desired.sub <=> Served("sub")

\* A field changes only by an update that names it, or by one that was overtaken by
\* another write between its load and its transaction: an update that overlaps with
\* none loses none (update_camera).
LostUpdatesOverlap ==
    [][\A f \in Fields : row'.fields[f] # row.fields[f] =>
          \E r \in Requests :
            /\ Loaded(r, "update") /\ request'[r].at = "free"
            /\ f \in request[r].named \/ request[r].overtaken]_cameraVars
=============================================================================
