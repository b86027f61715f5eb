----------------------------- MODULE Recording -----------------------------
(***************************************************************************)
(* The store of lesson recordings: a row in PostgreSQL and a file on disk, *)
(* written by different steps of different handlers                        *)
(* (backend/app/recording, backend/app/scheduler.py).                      *)
(*                                                                         *)
(* A handler reads the row, then acts on the file system, then writes the  *)
(* row: between the read and the write any other handler may run, an       *)
(* upload for minutes, because the body is still arriving.  The session    *)
(* writes only the columns the handler has assigned, and a write that      *)
(* finds no row fails the request (SQLAlchemy's StaleDataError).  Each     *)
(* transaction takes effect in its last step, the commit.                  *)
(*                                                                         *)
(* Time is two clocks that only move forward: a recording grows `old'      *)
(* (four hours since it was created) and its retention passes.             *)
(***************************************************************************)
EXTENDS Naturals, FiniteSets

CONSTANTS
  Recordings,    \* identifiers; one is never used twice
  Users,         \* the people who record
  Owner,         \* whose recording each is
  Calls,         \* slots for requests in flight
  MaxAborts,     \* bound: requests and jobs that fail half way
  MaxErasures    \* bound: accounts erased

ASSUME RecordingsAssumption == Recordings # {}
ASSUME OwnerAssumption == Owner \in [Recordings -> Users]
ASSUME BoundsAssumption == MaxAborts \in Nat /\ MaxErasures \in Nat

VARIABLES
  row,       (* the row of each recording                                  *)
  files,     (* recordings whose bytes are on the disk                     *)
  old,       (* recordings created more than STALE_UPLOAD_HOURS ago        *)
  call,      (* requests in flight                                         *)
  sweep,     (* the hourly job that closes abandoned uploads               *)
  purge,     (* the daily job that deletes what is past its retention      *)
  erased,    (* accounts erased                                            *)
  aborts     (* requests and jobs that have failed half way                *)

vars == <<row, files, old, call, sweep, purge, erased, aborts>>

Statuses  == {"uploading", "ready", "failed"}
Retention == {"none", "running", "past"}     \* expires_at
Endpoints == {"upload", "complete", "share", "delete"}
Phases    == {"idle", "body", "write"}

Stored == [kind: {"row"}, status: Statuses, url: BOOLEAN, expires: Retention, shared: BOOLEAN]
Absent == [kind |-> "absent"]       \* not created yet
Gone   == [kind |-> "gone"]         \* created and deleted
Rows   == Stored \cup {Absent, Gone}

Fresh == [kind |-> "row", status |-> "uploading", url |-> FALSE,
          expires |-> "none", shared |-> FALSE]

Exists(r) == row[r].kind = "row"

(* A request: its recording, its next step, the row as it read it and, for *)
(* a share, the value asked for.                                           *)
Call == [phase: Phases, endpoint: Endpoints, on: Recordings, seen: Stored, to: BOOLEAN]
NoCall == [phase |-> "idle", endpoint |-> "upload", on |-> CHOOSE r \in Recordings : TRUE,
           seen |-> Fresh, to |-> FALSE]

Job   == [phase: Phases, rows: SUBSET Recordings, linked: SUBSET Recordings]
NoJob == [phase |-> "idle", rows |-> {}, linked |-> {}]

Init ==
  /\ row = [r \in Recordings |-> Absent]
  /\ files = {}
  /\ old = {}
  /\ call = [c \in Calls |-> NoCall]
  /\ sweep = NoJob
  /\ purge = NoJob
  /\ erased = {}
  /\ aborts = 0

(***************************************************************************)
(* Requests                                                                *)
(***************************************************************************)
(* `c' loads the row of r and goes on to `phase'.                          *)
Load(c, endpoint, r, phase, to) ==
  /\ call[c].phase = "idle"
  /\ Exists(r)
  /\ call' = [call EXCEPT ![c] = [phase |-> phase, endpoint |-> endpoint, on |-> r,
                                  seen |-> row[r], to |-> to]]
  /\ UNCHANGED <<row, files, old, sweep, purge, erased, aborts>>

At(c, endpoint, phase) == call[c].endpoint = endpoint /\ call[c].phase = phase

Reply(c) == call' = [call EXCEPT ![c] = NoCall]
Continue(c) == call' = [call EXCEPT ![c].phase = "write"]

(* What the columns of a row become.                                       *)
Uploaded(w)     == [w EXCEPT !.url = TRUE]
Failed(w)       == [w EXCEPT !.status = "failed"]
Shared(w, v)    == [w EXCEPT !.shared = v]

(* Mutants: the whole row is written back; the status is a word the        *)
(* enumeration does not have.                                              *)
Completed_WholeRow(w, seen) ==
  [w EXCEPT !.status = "ready", !.expires = "running", !.shared = seen.shared]
Completed_Unknown(w, seen) == [w EXCEPT !.status = "complete", !.expires = "running"]

(* The status is written only if it was not already "ready" when read.     *)
Completed(w, seen) ==
  [w EXCEPT !.status = IF seen.status = "ready" THEN @ ELSE "ready", !.expires = "running"]

(* The assignments of a handler reach the row if there is still one;       *)
(* otherwise the flush fails and the request with it.                      *)
WriteRow(c, w) ==
  LET r == call[c].on IN
  /\ row' = IF Exists(r) THEN [row EXCEPT ![r] = w] ELSE row
  /\ Reply(c)
  /\ UNCHANGED <<files, old, sweep, purge, erased, aborts>>

(* POST /init, and the start of a lesson's recording.                      *)
InitRecording(r) ==
  /\ row[r] = Absent
  /\ Owner[r] \notin erased
  /\ row' = [row EXCEPT ![r] = Fresh]
  /\ UNCHANGED <<files, old, call, sweep, purge, erased, aborts>>

(* PUT /upload: check the status, take in the body ...                     *)
UploadOpen(c, r) ==
  /\ Exists(r) /\ row[r].status = "uploading"
  /\ Load(c, "upload", r, "body", FALSE)

(* ... which is too large, empty, or more than the disk can take; or the   *)
(* client goes away: the row stays as it was ...                           *)
UploadRefused(c) ==
  /\ At(c, "upload", "body")
  /\ Reply(c)
  /\ UNCHANGED <<row, files, old, sweep, purge, erased, aborts>>

(* ... or is written to the disk ...                                       *)
UploadBytes(c) ==
  /\ At(c, "upload", "body")
  /\ files' = files \cup {call[c].on}
  /\ Continue(c)
  /\ UNCHANGED <<row, old, sweep, purge, erased, aborts>>

(* ... and then linked from the row.                                       *)
UploadLink(c) ==
  /\ At(c, "upload", "write")
  /\ WriteRow(c, Uploaded(row[call[c].on]))

(* POST /complete.  The status is not looked at: a row already swept as    *)
(* failed becomes ready, and a ready one has its retention renewed.        *)
CompleteOpen(c, r) ==
  /\ Exists(r) /\ row[r].url
  /\ Load(c, "complete", r, "write", FALSE)

CompleteWrite(c) ==
  /\ At(c, "complete", "write")
  /\ WriteRow(c, Completed(row[call[c].on], call[c].seen))

(* PATCH: an assignment of the value the row already has writes nothing.   *)
ShareOpen(c, r, v) == Load(c, "share", r, "write", v)

ShareWrite(c) ==
  /\ At(c, "share", "write")
  /\ LET w == row[call[c].on] IN
     WriteRow(c, IF call[c].seen.shared = call[c].to THEN w ELSE Shared(w, call[c].to))

(* DELETE, by an administrator: the bytes, if the row knew of any ...      *)
DeleteOpen(c, r) == Load(c, "delete", r, "body", FALSE)

DeleteBytes(c) ==
  /\ At(c, "delete", "body")
  /\ files' = IF call[c].seen.url THEN files \ {call[c].on} ELSE files
  /\ Continue(c)
  /\ UNCHANGED <<row, old, sweep, purge, erased, aborts>>

(* ... then the row.  A row already gone is only a warning.                *)
DeleteRow(c) ==
  /\ At(c, "delete", "write")
  /\ row' = [row EXCEPT ![call[c].on] = Gone]
  /\ Reply(c)
  /\ UNCHANGED <<files, old, sweep, purge, erased, aborts>>

(* A request fails after it has read the row: a broken connection, an      *)
(* error of the database, a killed process.  Nothing is committed, and     *)
(* what was done to the disk stays done.                                   *)
AbortCall(c) ==
  /\ call[c].phase # "idle"
  /\ aborts < MaxAborts
  /\ aborts' = aborts + 1
  /\ Reply(c)
  /\ UNCHANGED <<row, files, old, sweep, purge, erased>>

(***************************************************************************)
(* Jobs of the scheduler: one run of each at a time                        *)
(***************************************************************************)
(* Mutant: the sweep looks at empty rows only.                             *)
Abandoned_Linkless == {r \in old : Exists(r) /\ row[r].status = "uploading" /\ ~row[r].url}

Abandoned == {r \in old : Exists(r) /\ row[r].status = "uploading"}
Expired   == {r \in Recordings : Exists(r) /\ row[r].expires = "past"}

(* A job with nothing to do changes nothing.                               *)
SweepRead ==
  /\ sweep.phase = "idle"
  /\ Abandoned # {}
  /\ sweep' = [phase |-> "write", rows |-> Abandoned, linked |-> {}]
  /\ UNCHANGED <<row, files, old, call, purge, erased, aborts>>

(* A row that has gone meanwhile is passed over, or (the driver may count  *)
(* the rows it has updated) fails the whole batch.                         *)
SweepWrite ==
  /\ sweep.phase = "write"
  /\ \/ row' = [r \in Recordings |-> IF r \in sweep.rows /\ Exists(r)
                                     THEN Failed(row[r]) ELSE row[r]]
     \/ (\E r \in sweep.rows : ~Exists(r)) /\ row' = row
  /\ sweep' = NoJob
  /\ UNCHANGED <<files, old, call, purge, erased, aborts>>

PurgeRead ==
  /\ purge.phase = "idle"
  /\ Expired # {}
  /\ purge' = [phase |-> "body", rows |-> Expired,
               linked |-> {r \in Expired : row[r].url}]
  /\ UNCHANGED <<row, files, old, call, sweep, erased, aborts>>

PurgeBytes ==
  /\ purge.phase = "body"
  /\ files' = files \ purge.linked
  /\ purge' = [purge EXCEPT !.phase = "write"]
  /\ UNCHANGED <<row, old, call, sweep, erased, aborts>>

(* Mutant: a recording renewed in the meantime keeps its row.              *)
PurgeRows_StillExpired ==
  /\ purge.phase = "write"
  /\ row' = [r \in Recordings |-> IF r \in purge.rows \cap Expired THEN Gone ELSE row[r]]
  /\ purge' = NoJob
  /\ UNCHANGED <<files, old, call, sweep, erased, aborts>>

PurgeRows ==
  /\ purge.phase = "write"
  /\ row' = [r \in Recordings |-> IF r \in purge.rows THEN Gone ELSE row[r]]
  /\ purge' = NoJob
  /\ UNCHANGED <<files, old, call, sweep, erased, aborts>>

AbortJob ==
  /\ aborts < MaxAborts
  /\ aborts' = aborts + 1
  /\ \/ sweep.phase # "idle" /\ sweep' = NoJob /\ UNCHANGED purge
     \/ purge.phase # "idle" /\ purge' = NoJob /\ UNCHANGED sweep
  /\ UNCHANGED <<row, files, old, call, erased>>

(***************************************************************************)
(* The rest of the system                                                  *)
(***************************************************************************)
(* Erasing an account deletes the rows that refer to it, and only rows.    *)
EraseUser(u) ==
  /\ u \notin erased
  /\ Cardinality(erased) < MaxErasures
  /\ erased' = erased \cup {u}
  /\ row' = [r \in Recordings |-> IF Owner[r] = u /\ Exists(r) THEN Gone ELSE row[r]]
  /\ UNCHANGED <<files, old, call, sweep, purge, aborts>>

GrowOld(r) ==
  /\ Exists(r)
  /\ old' = old \cup {r}
  /\ UNCHANGED <<row, files, call, sweep, purge, erased, aborts>>

RetentionPasses(r) ==
  /\ Exists(r)
  /\ row[r].expires = "running"
  /\ row' = [row EXCEPT ![r].expires = "past"]
  /\ UNCHANGED <<files, old, call, sweep, purge, erased, aborts>>

Proceed(c) ==
  \/ UploadRefused(c) \/ UploadBytes(c) \/ UploadLink(c)
  \/ CompleteWrite(c) \/ ShareWrite(c) \/ DeleteBytes(c) \/ DeleteRow(c)

CallOpens(c, r) ==
  \/ UploadOpen(c, r) \/ CompleteOpen(c, r) \/ DeleteOpen(c, r)
  \/ \E v \in BOOLEAN : ShareOpen(c, r, v)

Next ==
  \/ \E r \in Recordings : InitRecording(r) \/ GrowOld(r) \/ RetentionPasses(r)
  \/ \E c \in Calls :
       Proceed(c) \/ AbortCall(c) \/ \E r \in Recordings : CallOpens(c, r)
  \/ SweepRead \/ SweepWrite
  \/ PurgeRead \/ PurgeBytes \/ PurgeRows
  \/ AbortJob
  \/ \E u \in Users : EraseUser(u)

Spec == Init /\ [][Next]_vars

(* The clock moves, the cron jobs fire and run to their end, and a request *)
(* that has begun ends one way or the other.  Nothing obliges a client to  *)
(* send one.                                                               *)
FairSpec ==
  /\ Spec
  /\ WF_vars(SweepRead) /\ WF_vars(SweepWrite)
  /\ WF_vars(PurgeRead) /\ WF_vars(PurgeBytes) /\ WF_vars(PurgeRows)
  /\ \A c \in Calls : WF_vars(Proceed(c))
  /\ \A r \in Recordings : WF_vars(GrowOld(r)) /\ WF_vars(RetentionPasses(r))

(***************************************************************************)
(* Properties                                                              *)
(***************************************************************************)
(* The type of every variable: rows, requests and jobs have the shapes the *)
(* models and handlers give them.                                          *)
TypeOK ==
  /\ row \in [Recordings -> Rows]
  /\ files \subseteq Recordings
  /\ old \subseteq Recordings
  /\ call \in [Calls -> Call]
  /\ sweep \in Job
  /\ purge \in Job
  /\ erased \subseteq Users
  /\ aborts \in Nat

(* A deletion has removed the bytes of r and not yet its row.              *)
Unlinking(r) ==
  \/ \E c \in Calls : At(c, "delete", "write") /\ call[c].on = r /\ call[c].seen.url
  \/ purge.phase = "write" /\ r \in purge.linked

(* A row that offers a file has one: the upload writes the bytes before    *)
(* the link and the deletions take the row after the bytes, so only a      *)
(* deletion under way leaves a broken link, as long as nothing fails half  *)
(* way (upload_recording, delete_recording, purge_expired).                *)
LinkedBytesExist ==
  aborts = 0 => \A r \in Recordings : Exists(r) /\ row[r].url => r \in files \/ Unlinking(r)

(* Whatever has been completed can be purged one day and was uploaded:     *)
(* `ready' and a retention date arrive together, after the link            *)
(* (complete_recording).                                                   *)
ReadyIsDated ==
  \A r \in Recordings : Exists(r) =>
    /\ row[r].status = "ready" => row[r].expires # "none"
    /\ row[r].expires # "none" => row[r].url

(* No handler undoes what another has committed in between: while the row  *)
(* lives its link and its retention date stay, and sharing changes only    *)
(* when a share request writes it (the session updates the assigned        *)
(* columns only, router.py:118-249).                                       *)
NothingIsLost ==
  [][\A r \in Recordings : Exists(r) /\ Exists(r)' =>
       /\ row[r].url => row'[r].url
       /\ row[r].expires # "none" => row'[r].expires # "none"
       /\ row[r].shared # row'[r].shared =>
            \E c \in Calls : At(c, "share", "write") /\ call[c].on = r]_vars

(* An upload nobody finishes is called failed in the end, or finished, or  *)
(* deleted: no row promises for ever a file that is never coming           *)
(* (sweep_stale_uploads).                                                  *)
AbandonedUploadsClose ==
  \A r \in Recordings :
    (Exists(r) /\ row[r].status = "uploading") ~> (Exists(r) => row[r].status # "uploading")
=============================================================================
