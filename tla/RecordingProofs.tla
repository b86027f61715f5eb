--------------------------- MODULE RecordingProofs ---------------------------
(***************************************************************************)
(* What holds of the recording store for any number of recordings,         *)
(* requests, failures and erased accounts.                                 *)
(***************************************************************************)
EXTENDS Recording, TLAPS

(***************************************************************************)
(* Types                                                                   *)
(***************************************************************************)
LEMMA NoCallType == NoCall \in Call
<1>1. (CHOOSE r \in Recordings : TRUE) \in Recordings
  BY RecordingsAssumption
<1>2. Fresh \in Stored
  BY DEF Fresh, Stored, Statuses, Retention
<1> QED
  BY <1>1, <1>2 DEF NoCall, Call, Phases, Endpoints

(* The columns a handler assigns leave a row a row.                        *)
LEMMA ColumnTypes ==
  ASSUME NEW w \in Stored, NEW seen \in Stored, NEW v \in BOOLEAN
  PROVE  /\ Uploaded(w) \in Stored
         /\ Failed(w) \in Stored
         /\ Shared(w, v) \in Stored
         /\ Completed(w, seen) \in Stored
         /\ [w EXCEPT !.expires = "past"] \in Stored
BY DEF Stored, Statuses, Retention, Uploaded, Failed, Shared, Completed

(* A row that exists is one of the table.                                  *)
LEMMA ExistingRow ==
  ASSUME TypeOK, NEW r \in Recordings, Exists(r)
  PROVE  row[r] \in Stored
BY DEF TypeOK, Rows, Absent, Gone, Exists

(* What a slot holds once it has been released or has moved on.            *)
LEMMA SlotTypes ==
  ASSUME TypeOK, NEW c \in Calls
  PROVE  /\ Reply(c) => call' \in [Calls -> Call]
         /\ Continue(c) => call' \in [Calls -> Call]
<1>1. Reply(c) => call' \in [Calls -> Call]
  BY NoCallType DEF TypeOK, Reply
<1>2. ASSUME Continue(c) PROVE call' \in [Calls -> Call]
  <2>1. [call[c] EXCEPT !.phase = "write"] \in Call
    BY DEF TypeOK, Call, Phases
  <2>2. call' = [call EXCEPT ![c] = [call[c] EXCEPT !.phase = "write"]]
    BY <1>2 DEF Continue
  <2> QED
    BY <2>1, <2>2 DEF TypeOK
<1> QED
  BY <1>1, <1>2

LEMMA LoadType ==
  ASSUME TypeOK, NEW c \in Calls, NEW r \in Recordings, NEW e \in Endpoints,
         NEW p \in Phases, NEW v \in BOOLEAN, Load(c, e, r, p, v)
  PROVE  TypeOK'
<1>1. row[r] \in Stored
  BY ExistingRow DEF Load
<1>2. [phase |-> p, endpoint |-> e, on |-> r, seen |-> row[r], to |-> v] \in Call
  BY <1>1 DEF Call
<1>3. call' \in [Calls -> Call]
  BY <1>2 DEF TypeOK, Load
<1> QED
  BY <1>3 DEF TypeOK, Load

(* A handler that writes a well-formed row keeps the types.                *)
LEMMA WriteType ==
  ASSUME TypeOK, NEW c \in Calls, NEW w, Exists(call[c].on) => w \in Stored, WriteRow(c, w)
  PROVE  TypeOK'
<1>1. call[c].on \in Recordings
  BY DEF TypeOK, Call
<1>2. call' \in [Calls -> Call]
  BY SlotTypes DEF WriteRow
<1>3. row' \in [Recordings -> Rows]
  BY <1>1 DEF TypeOK, WriteRow, Rows
<1> QED
  BY <1>2, <1>3 DEF TypeOK, WriteRow

LEMMA InitType == Init => TypeOK
<1> SUFFICES ASSUME Init PROVE TypeOK
  OBVIOUS
<1>1. row \in [Recordings -> Rows]
  BY DEF Init, Rows
<1>2. call \in [Calls -> Call]
  BY NoCallType DEF Init
<1>3. NoJob \in Job
  BY DEF NoJob, Job, Phases
<1> QED
  BY <1>1, <1>2, <1>3 DEF Init, TypeOK

LEMMA TypeStep == TypeOK /\ [Next]_vars => TypeOK'
<1> SUFFICES ASSUME TypeOK, [Next]_vars PROVE TypeOK'
  OBVIOUS
<1> USE DEF TypeOK
<1>1. ASSUME NEW r \in Recordings, InitRecording(r) PROVE TypeOK'
  <2>1. Fresh \in Rows
    BY DEF Fresh, Rows, Stored, Statuses, Retention
  <2> QED
    BY <1>1, <2>1 DEF InitRecording
<1>2. ASSUME NEW r \in Recordings, GrowOld(r) PROVE TypeOK'
  BY <1>2 DEF GrowOld
<1>3. ASSUME NEW r \in Recordings, RetentionPasses(r) PROVE TypeOK'
  <2>1. [row[r] EXCEPT !.expires = "past"] \in Stored
    BY <1>3, ExistingRow, ColumnTypes DEF RetentionPasses
  <2>2. row' = [row EXCEPT ![r] = [row[r] EXCEPT !.expires = "past"]]
    BY <1>3 DEF RetentionPasses
  <2>3. row' \in [Recordings -> Rows]
    BY <2>1, <2>2 DEF Rows
  <2> QED
    BY <1>3, <2>3 DEF RetentionPasses
<1>4. ASSUME NEW c \in Calls, NEW r \in Recordings, CallOpens(c, r) PROVE TypeOK'
  <2>1. CASE UploadOpen(c, r)
    BY <2>1, LoadType DEF UploadOpen, Endpoints, Phases
  <2>2. CASE CompleteOpen(c, r)
    BY <2>2, LoadType DEF CompleteOpen, Endpoints, Phases
  <2>3. CASE DeleteOpen(c, r)
    BY <2>3, LoadType DEF DeleteOpen, Endpoints, Phases
  <2>4. ASSUME NEW v \in BOOLEAN, ShareOpen(c, r, v) PROVE TypeOK'
    BY <2>4, LoadType DEF ShareOpen, Endpoints, Phases
  <2> QED
    BY <1>4, <2>1, <2>2, <2>3, <2>4 DEF CallOpens
<1>5. ASSUME NEW c \in Calls, Proceed(c) PROVE TypeOK'
  <2>0. /\ call[c].on \in Recordings
        /\ call[c].seen \in Stored
        /\ call[c].to \in BOOLEAN
    BY DEF Call
  <2>1. CASE UploadRefused(c)
    BY <2>1, SlotTypes DEF UploadRefused
  <2>2. CASE UploadBytes(c)
    BY <2>0, <2>2, SlotTypes DEF UploadBytes
  <2>3. CASE UploadLink(c)
    <3>1. Exists(call[c].on) => Uploaded(row[call[c].on]) \in Stored
      BY <2>0, ExistingRow, ColumnTypes
    <3> QED
      BY <2>3, <3>1, WriteType DEF UploadLink
  <2>4. CASE CompleteWrite(c)
    <3>1. Exists(call[c].on) => Completed(row[call[c].on], call[c].seen) \in Stored
      BY <2>0, ExistingRow, ColumnTypes
    <3> QED
      BY <2>4, <3>1, WriteType DEF CompleteWrite
  <2>5. CASE ShareWrite(c)
    <3> DEFINE w == row[call[c].on]
               u == IF call[c].seen.shared = call[c].to THEN w ELSE Shared(w, call[c].to)
    <3>1. Exists(call[c].on) => u \in Stored
      BY <2>0, ExistingRow, ColumnTypes
    <3>2. WriteRow(c, u)
      BY <2>5 DEF ShareWrite
    <3> HIDE DEF u
    <3> QED
      BY <3>1, <3>2, WriteType
  <2>6. CASE DeleteBytes(c)
    BY <2>0, <2>6, SlotTypes DEF DeleteBytes
  <2>7. CASE DeleteRow(c)
    <3>1. call' \in [Calls -> Call]
      BY <2>7, SlotTypes DEF DeleteRow
    <3> QED
      BY <2>7, <3>1 DEF DeleteRow, Rows
  <2> QED
    BY <1>5, <2>1, <2>2, <2>3, <2>4, <2>5, <2>6, <2>7 DEF Proceed
<1>6. ASSUME NEW c \in Calls, AbortCall(c) PROVE TypeOK'
  BY <1>6, SlotTypes DEF AbortCall
<1>7. CASE SweepRead
  BY <1>7 DEF SweepRead, Job, Phases, Abandoned
<1>8. CASE SweepWrite
  <2>1. \A r \in Recordings : Exists(r) => Failed(row[r]) \in Stored
    BY ExistingRow, ColumnTypes
  <2>2. row' \in [Recordings -> Rows]
    BY <1>8, <2>1 DEF SweepWrite, Rows
  <2> QED
    BY <1>8, <2>2 DEF SweepWrite, NoJob, Job, Phases
<1>9. CASE PurgeRead
  BY <1>9 DEF PurgeRead, Job, Phases, Expired
<1>10. CASE PurgeBytes
  BY <1>10 DEF PurgeBytes, Job, Phases
<1>11. CASE PurgeRows
  BY <1>11 DEF PurgeRows, Rows, NoJob, Job, Phases
<1>12. CASE AbortJob
  BY <1>12 DEF AbortJob, NoJob, Job, Phases
<1>13. ASSUME NEW u \in Users, EraseUser(u) PROVE TypeOK'
  BY <1>13 DEF EraseUser, Rows
<1>14. CASE UNCHANGED vars
  BY <1>14 DEF vars
<1> QED
  BY <1>1, <1>2, <1>3, <1>4, <1>5, <1>6, <1>7, <1>8, <1>9, <1>10, <1>11, <1>12,
     <1>13, <1>14 DEF Next

(* Rows, requests and jobs always have the shapes of the models.           *)
THEOREM TypeCorrect == Spec => []TypeOK
BY InitType, TypeStep, PTL DEF Spec

(***************************************************************************)
(* What a step does to one row                                             *)
(***************************************************************************)
Writing(c, e, r) == At(c, e, "write") /\ call[c].on = r

RowMove(r) ==
  \/ row'[r] = row[r]
  \/ row'[r] = Gone
  \/ row[r] = Absent /\ row'[r] = Fresh
  \/ /\ Exists(r)
     /\ \/ \E c \in Calls : Writing(c, "upload", r) /\ row'[r] = Uploaded(row[r])
        \/ \E c \in Calls : /\ Writing(c, "complete", r)
                            /\ row'[r] = Completed(row[r], call[c].seen)
        \/ \E c \in Calls : Writing(c, "share", r) /\ row'[r] = Shared(row[r], call[c].to)
        \/ row'[r] = Failed(row[r])
        \/ row[r].expires = "running" /\ row'[r] = [row[r] EXCEPT !.expires = "past"]

(* A handler that writes moves the row it is about, and no other.          *)
LEMMA WriteMoves ==
  ASSUME TypeOK, NEW c \in Calls, NEW w, WriteRow(c, w), NEW r \in Recordings
  PROVE  \/ row'[r] = row[r]
         \/ Exists(r) /\ call[c].on = r /\ row'[r] = w
BY DEF TypeOK, WriteRow

LEMMA StepMoves ==
  ASSUME TypeOK, [Next]_vars, NEW r \in Recordings
  PROVE  RowMove(r)
<1> USE DEF RowMove
<1>1. ASSUME NEW q \in Recordings, InitRecording(q) PROVE RowMove(r)
  BY <1>1 DEF InitRecording, TypeOK
<1>2. ASSUME NEW q \in Recordings, GrowOld(q) PROVE RowMove(r)
  BY <1>2 DEF GrowOld
<1>3. ASSUME NEW q \in Recordings, RetentionPasses(q) PROVE RowMove(r)
  BY <1>3 DEF RetentionPasses, TypeOK
<1>4. ASSUME NEW c \in Calls, NEW q \in Recordings, CallOpens(c, q) PROVE RowMove(r)
  BY <1>4 DEF CallOpens, UploadOpen, CompleteOpen, DeleteOpen, ShareOpen, Load
<1>5. ASSUME NEW c \in Calls, Proceed(c) PROVE RowMove(r)
  <2>1. CASE UploadRefused(c)
    BY <2>1 DEF UploadRefused
  <2>2. CASE UploadBytes(c)
    BY <2>2 DEF UploadBytes
  <2>3. CASE UploadLink(c)
    <3>1. \/ row'[r] = row[r]
          \/ Exists(r) /\ call[c].on = r /\ row'[r] = Uploaded(row[call[c].on])
      BY <2>3, WriteMoves DEF UploadLink
    <3> QED
      BY <2>3, <3>1 DEF UploadLink, Writing
  <2>4. CASE CompleteWrite(c)
    <3>1. \/ row'[r] = row[r]
          \/ /\ Exists(r) /\ call[c].on = r
             /\ row'[r] = Completed(row[call[c].on], call[c].seen)
      BY <2>4, WriteMoves DEF CompleteWrite
    <3> QED
      BY <2>4, <3>1 DEF CompleteWrite, Writing
  <2>5. CASE ShareWrite(c)
    <3> DEFINE w == row[call[c].on]
               u == IF call[c].seen.shared = call[c].to THEN w ELSE Shared(w, call[c].to)
    <3>1. WriteRow(c, u) /\ At(c, "share", "write")
      BY <2>5 DEF ShareWrite
    <3>2. \/ row'[r] = row[r]
          \/ Exists(r) /\ call[c].on = r /\ row'[r] = u
      <4> HIDE DEF u
      <4> QED
        BY <3>1, WriteMoves
    <3> QED
      BY <3>1, <3>2 DEF Writing
  <2>6. CASE DeleteBytes(c)
    BY <2>6 DEF DeleteBytes
  <2>7. CASE DeleteRow(c)
    BY <2>7 DEF DeleteRow, TypeOK
  <2> QED
    BY <1>5, <2>1, <2>2, <2>3, <2>4, <2>5, <2>6, <2>7 DEF Proceed
<1>6. ASSUME NEW c \in Calls, AbortCall(c) PROVE RowMove(r)
  BY <1>6 DEF AbortCall
<1>7. CASE SweepRead
  BY <1>7 DEF SweepRead
<1>8. CASE SweepWrite
  BY <1>8 DEF SweepWrite
<1>9. CASE PurgeRead
  BY <1>9 DEF PurgeRead
<1>10. CASE PurgeBytes
  BY <1>10 DEF PurgeBytes
<1>11. CASE PurgeRows
  BY <1>11 DEF PurgeRows
<1>12. CASE AbortJob
  BY <1>12 DEF AbortJob
<1>13. ASSUME NEW u \in Users, EraseUser(u) PROVE RowMove(r)
  BY <1>13 DEF EraseUser
<1>14. CASE UNCHANGED vars
  BY <1>14 DEF vars
<1> QED
  BY <1>1, <1>2, <1>3, <1>4, <1>5, <1>6, <1>7, <1>8, <1>9, <1>10, <1>11, <1>12,
     <1>13, <1>14 DEF Next

(* A row that exists keeps its link and its date, or goes.                 *)
LEMMA MoveKeeps ==
  ASSUME TypeOK, NEW r \in Recordings, Exists(r), RowMove(r)
  PROVE  \/ row'[r] = Gone
         \/ /\ row'[r] \in Stored
            /\ row[r].url => row'[r].url
            /\ row[r].expires # "none" => row'[r].expires # "none"
<1>1. row[r] \in Stored
  BY ExistingRow
<1>2. row[r] # Absent
  BY DEF Exists, Absent
<1>3. ASSUME NEW c \in Calls PROVE call[c].seen \in Stored /\ call[c].to \in BOOLEAN
  BY DEF TypeOK, Call
<1>4. ASSUME NEW c \in Calls
      PROVE  /\ Uploaded(row[r]) \in Stored
             /\ Failed(row[r]) \in Stored
             /\ Shared(row[r], call[c].to) \in Stored
             /\ Completed(row[r], call[c].seen) \in Stored
  BY <1>1, <1>3, ColumnTypes
<1>5. Failed(row[r]) \in Stored /\ [row[r] EXCEPT !.expires = "past"] \in Stored
  BY <1>1, ColumnTypes
<1>6. \/ row'[r] = Gone
      \/ row'[r] \in Stored
  BY <1>1, <1>2, <1>4, <1>5 DEF RowMove
<1>7. row'[r] # Gone => /\ row[r].url => row'[r].url
                        /\ row[r].expires # "none" => row'[r].expires # "none"
  BY <1>1, <1>2 DEF RowMove, Stored, Uploaded, Completed, Shared, Failed
<1> QED
  BY <1>6, <1>7

(* No handler undoes the columns another one has committed, however the    *)
(* requests and jobs interleave.                                           *)
THEOREM NothingLost == Spec => NothingIsLost
<1> DEFINE Kept(r) ==
      Exists(r) /\ Exists(r)' =>
        /\ row[r].url => row'[r].url
        /\ row[r].expires # "none" => row'[r].expires # "none"
        /\ row[r].shared # row'[r].shared =>
             \E c \in Calls : At(c, "share", "write") /\ call[c].on = r
<1>1. ASSUME TypeOK, [Next]_vars, NEW r \in Recordings PROVE Kept(r)
  <2> SUFFICES ASSUME Exists(r), Exists(r)' PROVE Kept(r)
    OBVIOUS
  <2>1. row[r] \in Stored
    BY <1>1, ExistingRow
  <2>2. RowMove(r)
    BY <1>1, StepMoves
  <2>3. row'[r] # Gone /\ row[r] # Absent
    BY DEF Exists, Gone, Absent
  <2> QED
    BY <2>1, <2>2, <2>3 DEF RowMove, Writing, Stored, Uploaded, Completed, Shared, Failed
<1>2. TypeOK /\ [Next]_vars =>
        [\A r \in Recordings : Exists(r) /\ Exists(r)' =>
           /\ row[r].url => row'[r].url
           /\ row[r].expires # "none" => row'[r].expires # "none"
           /\ row[r].shared # row'[r].shared =>
                \E c \in Calls : At(c, "share", "write") /\ call[c].on = r]_vars
  BY <1>1
<1> QED
  BY <1>2, TypeCorrect, PTL DEF Spec, NothingIsLost

(***************************************************************************)
(* What a step does to the request in a slot and to the bytes              *)
(***************************************************************************)
(* A request that is at its write was there before with the same record,   *)
(* or has just opened, or has just done its work on the disk.              *)
CallMove(c) ==
  call'[c].phase = "write" =>
    \/ call'[c] = call[c]
    \/ /\ call[c].phase = "body"
       /\ call'[c] = [call[c] EXCEPT !.phase = "write"]
       /\ \/ UploadBytes(c)
          \/ DeleteBytes(c)
    \/ \E r \in Recordings : CompleteOpen(c, r)
    \/ call'[c].endpoint = "share"

LEMMA ReplyMoves ==
  ASSUME TypeOK, NEW c \in Calls, NEW d \in Calls, Reply(d)
  PROVE  call'[c] = IF c = d THEN NoCall ELSE call[c]
BY DEF TypeOK, Reply

LEMMA ContinueMoves ==
  ASSUME TypeOK, NEW c \in Calls, NEW d \in Calls, Continue(d)
  PROVE  call'[c] = IF c = d THEN [call[d] EXCEPT !.phase = "write"] ELSE call[c]
<1>1. call' = [call EXCEPT ![d] = [call[d] EXCEPT !.phase = "write"]]
  BY DEF Continue
<1> QED
  BY <1>1 DEF TypeOK

LEMMA CallMoves ==
  ASSUME TypeOK, [Next]_vars, NEW c \in Calls
  PROVE  CallMove(c)
<1> USE DEF CallMove
<1>0. NoCall.phase = "idle"
  BY DEF NoCall
<1>1. ASSUME NEW d \in Calls, Reply(d) PROVE CallMove(c)
  BY <1>0, <1>1, ReplyMoves
<1>2. ASSUME UNCHANGED call PROVE CallMove(c)
  BY <1>2
<1>3. ASSUME NEW d \in Calls, NEW r \in Recordings, CallOpens(d, r) PROVE CallMove(c)
  <2>1. CASE UploadOpen(d, r)
    <3>1. Load(d, "upload", r, "body", FALSE)
      BY <2>1 DEF UploadOpen
    <3>2. c = d => call'[c].phase = "body"
      BY <3>1 DEF Load, TypeOK
    <3>3. c # d => call'[c] = call[c]
      BY <3>1 DEF Load, TypeOK
    <3> QED
      BY <2>1, <3>2, <3>3
  <2>2. CASE CompleteOpen(d, r)
    <3>1. Load(d, "complete", r, "write", FALSE)
      BY <2>2 DEF CompleteOpen
    <3>2. c = d => call'[c].phase = "write"
      BY <3>1 DEF Load, TypeOK
    <3>3. c # d => call'[c] = call[c]
      BY <3>1 DEF Load, TypeOK
    <3> QED
      BY <2>2, <3>2, <3>3
  <2>3. CASE DeleteOpen(d, r)
    <3>1. Load(d, "delete", r, "body", FALSE)
      BY <2>3 DEF DeleteOpen
    <3>2. c = d => call'[c].phase = "body"
      BY <3>1 DEF Load, TypeOK
    <3>3. c # d => call'[c] = call[c]
      BY <3>1 DEF Load, TypeOK
    <3> QED
      BY <2>3, <3>2, <3>3
  <2>4. ASSUME NEW v \in BOOLEAN, ShareOpen(d, r, v) PROVE CallMove(c)
    <3>1. Load(d, "share", r, "write", v)
      BY <2>4 DEF ShareOpen
    <3>2. c = d => call'[c].endpoint = "share"
      BY <3>1 DEF Load, TypeOK
    <3>3. c # d => call'[c] = call[c]
      BY <3>1 DEF Load, TypeOK
    <3> QED
      BY <3>2, <3>3
  <2> QED
    BY <1>3, <2>1, <2>2, <2>3, <2>4 DEF CallOpens
<1>4. ASSUME NEW d \in Calls, Proceed(d) PROVE CallMove(c)
  <2>1. CASE UploadBytes(d)
    <3>1. Continue(d) /\ call[d].phase = "body"
      BY <2>1 DEF UploadBytes, At
    <3> QED
      BY <2>1, <3>1, ContinueMoves
  <2>2. CASE DeleteBytes(d)
    <3>1. Continue(d) /\ call[d].phase = "body"
      BY <2>2 DEF DeleteBytes, At
    <3> QED
      BY <2>2, <3>1, ContinueMoves
  <2>3. UploadRefused(d) \/ UploadLink(d) \/ CompleteWrite(d) \/ ShareWrite(d) \/ DeleteRow(d)
          => Reply(d)
    BY DEF UploadRefused, UploadLink, CompleteWrite, ShareWrite, DeleteRow, WriteRow
  <2> QED
    BY <1>1, <1>4, <2>1, <2>2, <2>3 DEF Proceed
<1>5. ASSUME NEW d \in Calls, AbortCall(d) PROVE CallMove(c)
  BY <1>1, <1>5 DEF AbortCall
<1>6. \/ \E r \in Recordings : InitRecording(r) \/ GrowOld(r) \/ RetentionPasses(r)
      \/ SweepRead \/ SweepWrite \/ PurgeRead \/ PurgeBytes \/ PurgeRows \/ AbortJob
      \/ \E u \in Users : EraseUser(u)
      \/ UNCHANGED vars
      => UNCHANGED call
  BY DEF InitRecording, GrowOld, RetentionPasses, SweepRead, SweepWrite, PurgeRead,
     PurgeBytes, PurgeRows, AbortJob, EraseUser, vars
<1> QED
  BY <1>2, <1>3, <1>4, <1>5, <1>6 DEF Next

(***************************************************************************)
(* A ready recording is dated, a dated one is linked                       *)
(***************************************************************************)
(* A completion checked the link when it opened, and links stay.           *)
CompletionsAreLinked ==
  \A c \in Calls : At(c, "complete", "write") =>
    /\ row[call[c].on] # Absent
    /\ Exists(call[c].on) => row[call[c].on].url

DatedInv == TypeOK /\ ReadyIsDated /\ CompletionsAreLinked

LEMMA DatedStep == DatedInv /\ [Next]_vars => DatedInv'
<1> SUFFICES ASSUME DatedInv, [Next]_vars PROVE DatedInv'
  OBVIOUS
<1>0. TypeOK /\ TypeOK'
  BY TypeStep DEF DatedInv
<1>1. ReadyIsDated'
  <2> SUFFICES ASSUME NEW r \in Recordings, Exists(r)'
               PROVE  /\ row'[r].status = "ready" => row'[r].expires # "none"
                      /\ row'[r].expires # "none" => row'[r].url
    BY DEF ReadyIsDated, Exists
  <2>1. RowMove(r)
    BY <1>0, StepMoves
  <2>2. row'[r] # Gone
    BY DEF Exists, Gone
  <2>3. Exists(r) => /\ row[r] \in Stored
                     /\ row[r].status = "ready" => row[r].expires # "none"
                     /\ row[r].expires # "none" => row[r].url
    BY <1>0, ExistingRow DEF DatedInv, ReadyIsDated
  <2>4. ASSUME Exists(r), NEW c \in Calls, Writing(c, "complete", r) PROVE row[r].url
    BY <2>4 DEF DatedInv, CompletionsAreLinked, Writing
  <2>5. CASE row'[r] = row[r]
    BY <2>3, <2>5 DEF Exists
  <2>6. CASE row'[r] = Fresh
    BY <2>6 DEF Fresh
  <2> QED
    BY <2>1, <2>2, <2>3, <2>4, <2>5, <2>6
    DEF RowMove, Stored, Uploaded, Completed, Shared, Failed
<1>2. CompletionsAreLinked'
  <2> SUFFICES ASSUME NEW c \in Calls, At(c, "complete", "write")'
               PROVE  /\ row'[call'[c].on] # Absent
                      /\ Exists(call[c].on)' => row'[call'[c].on].url
    BY DEF CompletionsAreLinked
  <2> DEFINE r == call'[c].on
  <2>1. r \in Recordings
    BY <1>0 DEF TypeOK, Call
  <2>2. CallMove(c) /\ RowMove(r)
    BY <1>0, <2>1, CallMoves, StepMoves
  <2>3. ASSUME row[r] # Absent, Exists(r) => row[r].url
        PROVE  /\ row'[r] # Absent
               /\ row'[r].kind = "row" => row'[r].url
    <3>2. Gone # Absent /\ Gone.kind # "row" /\ Absent.kind # "row"
      BY DEF Gone, Absent
    <3>3. CASE Exists(r)
      <4>1. \A w \in Stored : w.kind = "row"
        BY DEF Stored
      <4> QED
        BY <1>0, <2>1, <2>2, <2>3, <3>2, <3>3, <4>1, MoveKeeps
    <3>4. CASE ~Exists(r)
      BY <2>2, <2>3, <3>2, <3>4 DEF RowMove, Exists
    <3> QED
      BY <3>3, <3>4
  <2>4. ASSUME NEW q \in Recordings, CompleteOpen(c, q) PROVE row[r] # Absent /\ row[r].url
    <3>1. Load(c, "complete", q, "write", FALSE) /\ row[q].url /\ Exists(q)
      BY <2>4 DEF CompleteOpen
    <3>2. r = q
      BY <1>0, <3>1 DEF Load, TypeOK
    <3> QED
      BY <3>1, <3>2 DEF Exists, Absent
  <2>5. CASE call'[c] = call[c]
    <3>1. At(c, "complete", "write") /\ call[c].on = r
      BY <2>5 DEF At
    <3>2. row[r] # Absent /\ (Exists(r) => row[r].url)
      BY <3>1 DEF DatedInv, CompletionsAreLinked
    <3> QED
      BY <2>3, <3>2 DEF Exists
  <2>6. ASSUME UploadBytes(c) \/ DeleteBytes(c), call'[c] = [call[c] EXCEPT !.phase = "write"]
        PROVE FALSE
    <3>1. call[c].endpoint # "complete"
      BY <2>6 DEF UploadBytes, DeleteBytes, At
    <3> QED
      BY <1>0, <2>6, <3>1 DEF At, TypeOK, Call
  <2>7. call'[c].phase = "write" /\ call'[c].endpoint = "complete"
    BY DEF At
  <2>8. \/ call'[c] = call[c]
        \/ \E q \in Recordings : CompleteOpen(c, q)
    BY <2>2, <2>6, <2>7 DEF CallMove
  <2> QED
    BY <2>3, <2>4, <2>5, <2>8 DEF Exists
<1> QED
  BY <1>0, <1>1, <1>2 DEF DatedInv

(* What is ready has a retention date, and what has a date has a file to   *)
(* remove when it passes.                                                  *)
THEOREM ReadyDated == Spec => []ReadyIsDated
<1>1. Init => DatedInv
  <2> SUFFICES ASSUME Init PROVE DatedInv
    OBVIOUS
  <2>1. \A r \in Recordings : ~Exists(r)
    BY DEF Init, Exists, Absent
  <2>2. \A c \in Calls : call[c].phase = "idle"
    BY DEF Init, NoCall
  <2> QED
    BY <2>1, <2>2, InitType DEF DatedInv, ReadyIsDated, CompletionsAreLinked, At
<1>2. DatedInv => ReadyIsDated
  BY DEF DatedInv
<1> QED
  BY <1>1, <1>2, DatedStep, PTL DEF Spec

(***************************************************************************)
(* A link always has its bytes                                             *)
(***************************************************************************)
(* The bytes of r are there, or whoever removed them is about to remove    *)
(* the row, or has.                                                        *)
HasBytes(r) == r \in files \/ Unlinking(r) \/ row[r] = Gone

(* The link is only ever written by an upload whose bytes are there, so    *)
(* the bytes must be there from the moment the upload has written them.    *)
LinkInv ==
  /\ TypeOK
  /\ purge.linked \subseteq purge.rows
  /\ aborts = 0 =>
       /\ \A r \in Recordings : Exists(r) /\ row[r].url => HasBytes(r)
       /\ \A c \in Calls, r \in Recordings : Writing(c, "upload", r) => HasBytes(r)

(* Deletions that are left alone go on hiding what they have removed.      *)
LEMMA UnlinkingKept ==
  ASSUME NEW r \in Recordings, Unlinking(r), UNCHANGED purge,
         \A c \in Calls : At(c, "delete", "write") => call'[c] = call[c]
  PROVE  Unlinking(r)'
BY DEF Unlinking, At

LEMMA GoneStays ==
  ASSUME TypeOK, [Next]_vars, NEW r \in Recordings, row[r] = Gone
  PROVE  row'[r] = Gone
<1>1. ~Exists(r) /\ row[r] # Absent
  BY DEF Exists, Gone, Absent
<1> QED
  BY <1>1, StepMoves DEF RowMove

(* No step takes the bytes of a row from under it, unless it fails.        *)
LEMMA BytesKept ==
  ASSUME LinkInv, [Next]_vars, aborts' = 0, NEW r \in Recordings, HasBytes(r)
  PROVE  HasBytes(r)'
<1>0. TypeOK
  BY DEF LinkInv
<1>1. CASE row[r] = Gone
  BY <1>0, <1>1, GoneStays DEF HasBytes
<1> SUFFICES ASSUME r \in files \/ Unlinking(r) PROVE HasBytes(r)'
  BY <1>1 DEF HasBytes
<1>2. ASSUME UNCHANGED <<files, purge>>,
             \A c \in Calls : At(c, "delete", "write") => call'[c] = call[c]
      PROVE  HasBytes(r)'
  BY <1>2, UnlinkingKept DEF HasBytes
<1>3. ASSUME NEW d \in Calls, NEW q \in Recordings, CallOpens(d, q) PROVE HasBytes(r)'
  <2>1. call[d].phase = "idle" /\ UNCHANGED <<files, purge>>
    BY <1>3 DEF CallOpens, UploadOpen, CompleteOpen, DeleteOpen, ShareOpen, Load
  <2>2. \A c \in Calls : c # d => call'[c] = call[c]
    BY <1>0, <1>3 DEF CallOpens, UploadOpen, CompleteOpen, DeleteOpen, ShareOpen, Load, TypeOK
  <2> QED
    BY <1>2, <2>1, <2>2 DEF At
<1>4. ASSUME NEW d \in Calls, Proceed(d) PROVE HasBytes(r)'
  <2>1. \A c \in Calls : c # d => call'[c] = call[c]
    <3>1. Reply(d) \/ Continue(d)
      BY <1>4 DEF Proceed, UploadRefused, UploadBytes, UploadLink, CompleteWrite, ShareWrite,
         DeleteBytes, DeleteRow, WriteRow
    <3> QED
      BY <1>0, <3>1, ReplyMoves, ContinueMoves
  <2>2. CASE UploadRefused(d) \/ UploadLink(d) \/ CompleteWrite(d) \/ ShareWrite(d)
    <3>1. ~At(d, "delete", "write") /\ UNCHANGED <<files, purge>>
      BY <2>2 DEF UploadRefused, UploadLink, CompleteWrite, ShareWrite, WriteRow, At
    <3> QED
      BY <1>2, <2>1, <3>1
  <2>3. CASE UploadBytes(d)
    <3>1. ~At(d, "delete", "write") /\ UNCHANGED purge /\ files \subseteq files'
      BY <2>3 DEF UploadBytes, At
    <3> QED
      BY <2>1, <3>1, UnlinkingKept DEF HasBytes
  <2>4. CASE DeleteBytes(d)
    <3>1. ~At(d, "delete", "write") /\ At(d, "delete", "body") /\ UNCHANGED purge
      BY <2>4 DEF DeleteBytes, At
    <3>2. Unlinking(r) => Unlinking(r)'
      BY <2>1, <3>1, UnlinkingKept
    <3>3. CASE r \in files /\ r \notin files'
      <4>1. call[d].on = r /\ call[d].seen.url
        BY <2>4, <3>3 DEF DeleteBytes
      <4>2. call'[d] = [call[d] EXCEPT !.phase = "write"]
        BY <1>0, <2>4, ContinueMoves DEF DeleteBytes
      <4>3. /\ call'[d].phase = "write" /\ call'[d].endpoint = "delete"
            /\ call'[d].on = r /\ call'[d].seen.url
        BY <1>0, <3>1, <4>1, <4>2 DEF At, TypeOK, Call
      <4> QED
        BY <4>3 DEF HasBytes, Unlinking, At
    <3> QED
      BY <3>2, <3>3 DEF HasBytes
  <2>5. CASE DeleteRow(d)
    <3>1. UNCHANGED <<files, purge>> /\ call[d].on \in Recordings
      BY <1>0, <2>5 DEF DeleteRow, TypeOK, Call
    <3>2. CASE call[d].on = r
      BY <1>0, <2>5, <3>2 DEF DeleteRow, TypeOK, HasBytes
    <3>3. CASE call[d].on # r
      <4>1. Unlinking(r) => Unlinking(r)'
        BY <2>1, <3>1, <3>3 DEF Unlinking, At
      <4> QED
        BY <3>1, <4>1 DEF HasBytes
    <3> QED
      BY <3>2, <3>3
  <2> QED
    BY <1>4, <2>2, <2>3, <2>4, <2>5 DEF Proceed
<1>5. ASSUME NEW d \in Calls, AbortCall(d) PROVE FALSE
  BY <1>0, <1>5 DEF AbortCall, TypeOK
<1>6. CASE AbortJob
  BY <1>0, <1>6 DEF AbortJob, TypeOK
<1>7. CASE PurgeRead
  <2>1. Unlinking(r) => Unlinking(r)'
    BY <1>7 DEF PurgeRead, Unlinking, At
  <2> QED
    BY <1>7, <2>1 DEF PurgeRead, HasBytes
<1>8. CASE PurgeBytes
  <2>1. purge'.phase = "write" /\ purge'.linked = purge.linked
    BY <1>0, <1>8 DEF PurgeBytes, TypeOK, Job
  <2>2. Unlinking(r) => Unlinking(r)'
    BY <1>8, <2>1 DEF PurgeBytes, Unlinking, At
  <2> QED
    BY <1>8, <2>1, <2>2 DEF PurgeBytes, HasBytes, Unlinking
<1>9. CASE PurgeRows
  <2>1. r \in purge.linked => row'[r] = Gone
    BY <1>9 DEF PurgeRows, LinkInv
  <2>2. Unlinking(r) => Unlinking(r)' \/ r \in purge.linked
    BY <1>9 DEF PurgeRows, Unlinking, At
  <2> QED
    BY <1>9, <2>1, <2>2 DEF PurgeRows, HasBytes
<1>10. \/ \E q \in Recordings : InitRecording(q) \/ GrowOld(q) \/ RetentionPasses(q)
       \/ SweepRead \/ SweepWrite
       \/ \E u \in Users : EraseUser(u)
       \/ UNCHANGED vars
       => UNCHANGED <<files, purge, call>>
  BY DEF InitRecording, GrowOld, RetentionPasses, SweepRead, SweepWrite, EraseUser, vars
<1> QED
  BY <1>2, <1>3, <1>4, <1>5, <1>6, <1>7, <1>8, <1>9, <1>10 DEF Next

LEMMA AbortsGrow == TypeOK /\ [Next]_vars /\ aborts' = 0 => aborts = 0
<1> SUFFICES ASSUME TypeOK, [Next]_vars, aborts' = 0 PROVE aborts = 0
  OBVIOUS
<1>1. \/ \E c \in Calls : AbortCall(c)
      \/ AbortJob
      \/ UNCHANGED aborts
  BY DEF Next, vars, InitRecording, GrowOld, RetentionPasses, Proceed, UploadRefused, UploadBytes,
     UploadLink, CompleteWrite, ShareWrite, DeleteBytes, DeleteRow, WriteRow, CallOpens,
     UploadOpen, CompleteOpen, ShareOpen, DeleteOpen, Load, SweepRead, SweepWrite, PurgeRead,
     PurgeBytes, PurgeRows, EraseUser
<1> QED
  BY <1>1 DEF AbortCall, AbortJob, TypeOK

LEMMA PurgeLinked == LinkInv /\ [Next]_vars => (purge.linked \subseteq purge.rows)'
<1> SUFFICES ASSUME LinkInv, [Next]_vars PROVE purge'.linked \subseteq purge'.rows
  OBVIOUS
<1>0. TypeOK /\ purge.linked \subseteq purge.rows
  BY DEF LinkInv
<1>1. CASE PurgeRead
  BY <1>1 DEF PurgeRead
<1>2. CASE PurgeBytes
  BY <1>0, <1>2 DEF PurgeBytes, TypeOK, Job
<1>3. CASE PurgeRows \/ AbortJob
  BY <1>0, <1>3 DEF PurgeRows, AbortJob, NoJob
<1>4. CASE UNCHANGED purge
  BY <1>0, <1>4
<1> QED
  BY <1>1, <1>2, <1>3, <1>4
  DEF Next, vars, InitRecording, GrowOld, RetentionPasses, Proceed, UploadRefused, UploadBytes,
     UploadLink, CompleteWrite, ShareWrite, DeleteBytes, DeleteRow, WriteRow, CallOpens,
     UploadOpen, CompleteOpen, ShareOpen, DeleteOpen, Load, SweepRead, SweepWrite,
     AbortCall, EraseUser

LEMMA LinkStep == LinkInv /\ [Next]_vars => LinkInv'
<1> SUFFICES ASSUME LinkInv, [Next]_vars PROVE LinkInv'
  OBVIOUS
<1>0. TypeOK /\ TypeOK'
  BY TypeStep DEF LinkInv
<1>1. (purge.linked \subseteq purge.rows)'
  BY PurgeLinked
<1> SUFFICES ASSUME aborts' = 0
             PROVE  /\ \A r \in Recordings : Exists(r)' /\ row'[r].url => HasBytes(r)'
                    /\ \A c \in Calls, r \in Recordings :
                         Writing(c, "upload", r)' => HasBytes(r)'
  BY <1>0, <1>1 DEF LinkInv
<1>2. aborts = 0
  BY <1>0, AbortsGrow
<1>3. ASSUME NEW r \in Recordings, Exists(r)', row'[r].url PROVE HasBytes(r)'
  <2>1. RowMove(r) /\ row'[r] # Gone
    BY <1>0, <1>3, StepMoves DEF Exists, Gone
  <2>2. CASE Exists(r) /\ row[r].url
    BY <1>2, <2>2, BytesKept DEF LinkInv
  <2>3. ASSUME NEW c \in Calls, Writing(c, "upload", r) PROVE HasBytes(r)'
    <3>1. HasBytes(r)
      BY <1>2, <2>3 DEF LinkInv
    <3> QED
      BY <3>1, BytesKept
  <2>4. CASE ~(Exists(r) /\ row[r].url)
    <3>1. Exists(r) => row[r] \in Stored
      BY <1>0, ExistingRow
    <3>2. row'[r] # row[r]
      BY <1>3, <2>4 DEF Exists
    <3>3. row'[r] # Fresh
      BY <1>3 DEF Fresh
    <3>4. Exists(r) /\ ~row[r].url
      BY <2>1, <2>4, <3>2, <3>3 DEF RowMove
    <3>5. /\ row'[r] # Failed(row[r])
          /\ row'[r] # [row[r] EXCEPT !.expires = "past"]
          /\ \A seen : row'[r] # Completed(row[r], seen)
          /\ \A v : row'[r] # Shared(row[r], v)
      BY <1>3, <3>1, <3>4 DEF Stored, Completed, Shared, Failed
    <3>6. \E c \in Calls : Writing(c, "upload", r)
      BY <2>1, <3>2, <3>3, <3>5 DEF RowMove
    <3> QED
      BY <2>3, <3>6
  <2> QED
    BY <2>2, <2>4
<1>4. ASSUME NEW c \in Calls, NEW r \in Recordings, Writing(c, "upload", r)'
      PROVE  HasBytes(r)'
  <2>0. CallMove(c)
    BY <1>0, CallMoves
  <2>1. call'[c].on = r
    BY <1>4 DEF Writing
  <2>2. CASE call'[c] = call[c]
    <3>1. Writing(c, "upload", r)
      BY <1>4, <2>2 DEF Writing, At
    <3>2. HasBytes(r)
      BY <1>2, <3>1 DEF LinkInv
    <3> QED
      BY <3>2, BytesKept
  <2>3. CASE call'[c] = [call[c] EXCEPT !.phase = "write"] /\ UploadBytes(c)
    <3>1. r = call[c].on
      BY <1>0, <2>1, <2>3 DEF TypeOK, Call
    <3>2. r \in files'
      BY <2>3, <3>1 DEF UploadBytes
    <3> QED
      BY <3>2 DEF HasBytes
  <2>4. ~(call'[c] = [call[c] EXCEPT !.phase = "write"] /\ DeleteBytes(c))
    <3> SUFFICES ASSUME call'[c] = [call[c] EXCEPT !.phase = "write"], DeleteBytes(c) PROVE FALSE
      OBVIOUS
    <3>1. call[c].endpoint = "delete"
      BY DEF DeleteBytes, At
    <3>2. call'[c].endpoint = "delete"
      BY <1>0, <3>1 DEF TypeOK, Call
    <3> QED
      BY <1>4, <3>2 DEF Writing, At
  <2>5. ASSUME NEW q \in Recordings, CompleteOpen(c, q) PROVE FALSE
    <3>1. Load(c, "complete", q, "write", FALSE)
      BY <2>5 DEF CompleteOpen
    <3>2. call'[c].endpoint = "complete"
      BY <1>0, <3>1 DEF Load, TypeOK
    <3> QED
      BY <1>4, <3>2 DEF Writing, At
  <2>6. call'[c].phase = "write" /\ call'[c].endpoint # "share"
    BY <1>4 DEF Writing, At
  <2> QED
    BY <2>0, <2>2, <2>3, <2>4, <2>5, <2>6 DEF CallMove
<1> QED
  BY <1>3, <1>4

(* Until something fails half way, a row that offers a file has it, or is  *)
(* about to be deleted.                                                    *)
THEOREM LinksHaveBytes == Spec => []LinkedBytesExist
<1>1. Init => LinkInv
  <2> SUFFICES ASSUME Init PROVE LinkInv
    OBVIOUS
  <2>1. \A r \in Recordings : ~Exists(r)
    BY DEF Init, Exists, Absent
  <2>2. \A c \in Calls : call[c].phase = "idle"
    BY DEF Init, NoCall
  <2> QED
    BY <2>1, <2>2, InitType DEF Init, LinkInv, Writing, At, NoJob
<1>2. LinkInv => LinkedBytesExist
  BY DEF LinkInv, LinkedBytesExist, HasBytes, Exists, Gone
<1> QED
  BY <1>1, <1>2, LinkStep, PTL DEF Spec
=============================================================================
