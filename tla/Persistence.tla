------------------------------ MODULE Persistence ------------------------------
(***************************************************************************)
(* What an experiment leaves on disk: the SQLite store of studies, runs    *)
(* and results, the checkpoint file of each run, and the observation logs. *)
(* A statement of the store is atomic; a checkpoint is written in place,   *)
(* in two steps, and a crash may come between them; a line of a log may    *)
(* fail to be written.                                                     *)
(***************************************************************************)
EXTENDS Integers, Sequences, FiniteSets, Functions

CONSTANTS
    None,
    Ids,          \* identifiers a client gives its studies, experiments, runs
    Results,      \* the contents results may have
    Keys,         \* the logs: a kind of observation of a replication
    BufferSizes,  \* buffer_size of the observation writer
    MaxWrites     \* bound on the checkpoints saved and the lines logged

VARIABLES
    part,        \* which of the three the client uses
    tables,      \* the tables of the store
    metadata,    \* RunMetadata the client holds
    told,        \* the registrations, updates and results the store took, by run
    file,        \* checkpoint.json of each run: None, cut short or a checkpoint
    writing,     \* the checkpoint whose write has begun
    saved,       \* the checkpoint each run saved last, begun or finished
    logs,        \* the lines of each log
    torn,        \* the logs that end in part of a line
    spoilt,      \* the observations written behind such a part, on its line
    buffer,      \* the observations BufferedObservationWriter holds
    bufferSize,
    written,     \* observations handed to the writer so far, in order
    lost         \* whether an error or a crash may have lost some

vars == <<part, tables, metadata, told, file, writing, saved,
          logs, torn, spoilt, buffer, bufferSize, written, lost>>
storeVars == <<tables, metadata, told>>
checkpointVars == <<file, writing, saved>>
logVars == <<logs, torn, spoilt, buffer, bufferSize, written, lost>>

(***************************************************************************)
(* Runs                                                                    *)
(***************************************************************************)

RunStatus == {"Pending", "Running", "Completed", "Failed", "Cancelled", "Checkpointed"}
Terminal == {"Completed", "Failed", "Cancelled"}

\* RunMetadata::builder ... build: what the client does not set is empty.
RunMetadata(run, replication, experiment, study) ==
    [run |-> run, replication |-> replication, experiment |-> experiment, study |-> study,
     parent |-> None, started |-> FALSE, finished |-> FALSE, status |-> "Pending"]

\* start, complete, fail, cancel and checkpoint, allowed in any status: none of
\* them takes back a start or a finish.
Transition(status) ==
    [metadata EXCEPT !.status = status,
                     !.started = @ \/ status = "Running",
                     !.finished = @ \/ status \in Terminal]

(***************************************************************************)
(* The store                                                               *)
(***************************************************************************)

NoRows == [study |-> <<>>, experiment |-> <<>>, replication |-> <<>>, run |-> <<>>, result |-> <<>>]
\* The table a row of each table refers to; the columns experiment_id and
\* study_id of runs refer to none.
Refers == [experiment |-> "study", replication |-> "experiment", run |-> "replication",
           result |-> "run"]

\* The text of a status, and the status of a text: Pending when it is none.
StatusText(status) ==
    IF status = "Failed" THEN [Failed |-> "error"] ELSE [variant |-> status]
StatusOf(text) ==
    IF \E status \in RunStatus : StatusText(status) = text
    THEN CHOOSE status \in RunStatus : StatusText(status) = text
    ELSE "Pending"

\* Foreign keys are not enforced.
FaultyReferenceHolds(table, parent) == TRUE
\* PRAGMA foreign_keys of open; an in-memory database has the bundled default, on.
ReferenceHolds(table, parent) ==
    table \in DOMAIN Refers => parent \in DOMAIN tables[Refers[table]]

\* The rows of a table with one put in, or replaced.
Put(rows, id, row) == [i \in DOMAIN rows \cup {id} |-> IF i = id THEN row ELSE rows[i]]

\* INSERT: an identifier that is taken, a parent that is not there, or a seed that
\* SQLite's integers do not hold is a Database error and leaves the table as it was.
Insert(table, id, parent, row) ==
    /\ id \notin DOMAIN tables[table] /\ ReferenceHolds(table, parent)
    /\ tables' = [tables EXCEPT ![table] = Put(@, id, row)]

RegisterStudy(id) == Insert("study", id, None, None) /\ UNCHANGED <<metadata, told>>
RegisterExperiment(id, study) ==
    Insert("experiment", id, study, study) /\ UNCHANGED <<metadata, told>>
RegisterReplication(id, experiment) ==
    Insert("replication", id, experiment, experiment) /\ UNCHANGED <<metadata, told>>
RegisterRun ==
    /\ metadata # None
    /\ Insert("run", metadata.run, metadata.replication,
              [metadata EXCEPT !.status = StatusText(@)])
    /\ told' = [told EXCEPT !.registered[metadata.run] = metadata]
    /\ UNCHANGED metadata

\* A status that is not terminal takes the finish time back.
FinishedAt(status) == status \in Terminal
\* An UPDATE of every row.
FaultyWhere(row, id) == TRUE
Where(row, id) == row.run = id
\* An unknown run is no error: no row changes.
UpdateRunStatus(id, status) ==
    /\ tables' = [tables EXCEPT !.run =
           [i \in DOMAIN @ |->
               IF ~Where(@[i], id) THEN @[i]
               ELSE [@[i] EXCEPT !.status = StatusText(status), !.finished = FinishedAt(status)]]]
    /\ told' = IF told.registered[id] = None THEN told ELSE [told EXCEPT !.updated[id] = status]
    /\ UNCHANGED metadata

\* INSERT OR IGNORE: the first result of a run stays.
FaultyPutResult(id, json) == IF id \in DOMAIN tables.result THEN tables.result ELSE Put(tables.result, id, json)
\* INSERT OR REPLACE.
PutResult(id, json) == Put(tables.result, id, json)
\* The reference to the run is checked whether the result is new or replaced.
StoreResult(id, json) ==
    /\ ReferenceHolds("result", id)
    /\ tables' = [tables EXCEPT !.result = PutResult(id, json)]
    /\ told' = [told EXCEPT !.result[id] = json]
    /\ UNCHANGED metadata

\* A row that cannot be read is no row.
Read(row) == [row EXCEPT !.status = StatusOf(@)]
GetRun(id) == IF id \in DOMAIN tables.run THEN Read(tables.run[id]) ELSE None
ListRuns(experiment) == {Read(row) : row \in {run \in Range(tables.run) : run.experiment = experiment}}
GetResult(id) == IF id \in DOMAIN tables.result THEN tables.result[id] ELSE None

Build ==
    /\ metadata = None
    /\ \E run, replication, experiment \in Ids :
           metadata' = RunMetadata(run, replication, experiment, experiment)
    /\ UNCHANGED <<tables, told>>
ChangeStatus ==
    /\ metadata # None
    /\ \E status \in RunStatus \ {"Pending"} : metadata' = Transition(status)
    /\ UNCHANGED <<tables, told>>

(***************************************************************************)
(* Checkpoints                                                             *)
(***************************************************************************)

\* All the runs share one file.
FaultyCheckpointPath(run) == CHOOSE id \in Ids : TRUE
CheckpointPath(run) == run

\* A file that ends early: it is not known how early, but it does not parse.
CutShort(run) == [run |-> run, progress |-> 0]

\* save_checkpoint truncates the file and then writes it.
BeginCheckpoint(run) ==
    /\ writing = None
    /\ saved[run] < MaxWrites
    /\ saved' = [saved EXCEPT ![run] = @ + 1]
    /\ writing' = [run |-> run, progress |-> saved[run] + 1]
    /\ file' = [file EXCEPT ![CheckpointPath(run)] = CutShort(run)]
EndCheckpoint ==
    /\ writing # None
    /\ file' = [file EXCEPT ![CheckpointPath(writing.run)] = writing]
    /\ writing' = None
    /\ UNCHANGED saved
Crash ==
    /\ writing # None
    /\ writing' = None
    /\ UNCHANGED <<file, saved>>

\* What is cut short does not parse: a Serialization error.
LoadCheckpoint(run) == file[CheckpointPath(run)]
ListCheckpoints(run) ==
    IF LoadCheckpoint(run) = None THEN <<>> ELSE <<LoadCheckpoint(run)>>

(***************************************************************************)
(* Observations                                                            *)
(***************************************************************************)

\* The observations of a key, in the order they have.
OfKey(lines, key) ==
    LET of[n \in 0..Len(lines)] ==
            IF n = 0 THEN <<>>
            ELSE IF lines[n].key = key THEN Append(of[n - 1], lines[n]) ELSE of[n - 1]
    IN of[Len(lines)]

\* Appends the first n of some observations, each to the log of its key.
WriteLines(lines, n) == [key \in Keys |-> logs[key] \o OfKey(SubSeq(lines, 1, n), key)]

\* The first of these lines goes on where a torn line ended; the line that
\* fails may leave a part of itself.
Fails(lines, n) ==
    LET hit == {key \in torn : OfKey(SubSeq(lines, 1, n), key) # <<>>}
    IN /\ spoilt' = spoilt \cup {OfKey(SubSeq(lines, 1, n), key)[1].n : key \in hit}
       /\ \/ torn' = torn \ hit
          \/ n < Len(lines) /\ torn' = (torn \ hit) \cup {lines[n + 1].key}
       /\ lost' = (lost \/ n < Len(lines))

\* A failed write keeps its batch in the buffer, to be written once more.
FaultyDrain(lines) ==
    \E n \in 0..Len(lines) :
        /\ logs' = WriteLines(lines, n)
        /\ buffer' = IF n = Len(lines) THEN <<>> ELSE lines
        /\ Fails(lines, n)
\* The buffer is emptied first; the first line that fails ends the loop and
\* those after it are lost.
Drain(lines) ==
    \E n \in 0..Len(lines) :
        /\ logs' = WriteLines(lines, n)
        /\ buffer' = <<>>
        /\ Fails(lines, n)

\* write_match_record, write_player_state and write_event of the buffered
\* writer; with a buffer_size of 0 or 1 every line is written at once.
AddAndMaybeFlush(key) ==
    LET lines == Append(buffer, [key |-> key, n |-> Len(written) + 1])
    IN /\ Len(written) < MaxWrites
       /\ written' = Append(written, key)
       /\ IF Len(lines) >= bufferSize THEN Drain(lines)
          ELSE buffer' = lines /\ UNCHANGED <<logs, torn, spoilt, lost>>
       /\ UNCHANGED bufferSize

Flush == buffer # <<>> /\ Drain(buffer) /\ UNCHANGED <<bufferSize, written>>

\* The writer has no Drop: what it holds goes with it.
DropWriter ==
    /\ buffer # <<>>
    /\ buffer' = <<>> /\ lost' = TRUE
    /\ UNCHANGED <<logs, torn, spoilt, bufferSize, written>>

(***************************************************************************)
(* Specification                                                           *)
(***************************************************************************)

Init ==
    /\ part \in {"store", "checkpoints", "observations"}
    /\ tables = NoRows /\ metadata = None
    /\ told = [registered |-> [run \in Ids |-> None], updated |-> [run \in Ids |-> None],
               result |-> [run \in Ids |-> None]]
    /\ file = [run \in Ids |-> None] /\ writing = None /\ saved = [run \in Ids |-> 0]
    /\ logs = [key \in Keys |-> <<>>] /\ torn = {} /\ spoilt = {} /\ buffer = <<>> /\ written = <<>> /\ lost = FALSE
    /\ bufferSize \in (IF part = "observations" THEN BufferSizes ELSE {0})

StoreNext ==
    /\ part = "store"
    /\ \/ \E id \in Ids : RegisterStudy(id)
       \/ \E id, study \in Ids : RegisterExperiment(id, study)
       \/ \E id, experiment \in Ids : RegisterReplication(id, experiment)
       \/ Build
       \/ ChangeStatus
       \/ RegisterRun
       \/ \E id \in Ids, status \in RunStatus : UpdateRunStatus(id, status)
       \/ \E id \in Ids, json \in Results : StoreResult(id, json)
    /\ UNCHANGED <<part, checkpointVars, logVars>>
CheckpointNext ==
    /\ part = "checkpoints"
    /\ \/ \E run \in Ids : BeginCheckpoint(run)
       \/ EndCheckpoint
       \/ Crash
    /\ UNCHANGED <<part, storeVars, logVars>>
LogNext ==
    /\ part = "observations"
    /\ \/ \E key \in Keys : AddAndMaybeFlush(key)
       \/ Flush
       \/ DropWriter
    /\ UNCHANGED <<part, storeVars, checkpointVars>>

Next == StoreNext \/ CheckpointNext \/ LogNext
Spec == Init /\ [][Next]_vars

(***************************************************************************)
(* Properties                                                              *)
(***************************************************************************)

\* A run as it was registered, with the last status it was updated to; the
\* finish of an update replaces that of the registration.
Latest(id) ==
    IF told.updated[id] = None THEN told.registered[id]
    ELSE [told.registered[id] EXCEPT !.status = told.updated[id],
                                     !.finished = told.updated[id] \in Terminal]

\* Runs and results are read back as they were last written, alone and by
\* experiment, and whatever is stored leads back to its study.
StoreIsTraceable ==
    /\ \A table \in DOMAIN Refers : \A id \in DOMAIN tables[table] :
           LET row == tables[table][id]
           IN (IF table = "result" THEN id ELSE IF table = "run" THEN row.replication ELSE row)
                  \in DOMAIN tables[Refers[table]]
    /\ \A id \in Ids :
           /\ GetRun(id) = Latest(id) /\ GetResult(id) = told.result[id]
           /\ GetResult(id) # None => GetRun(id) # None
           /\ GetRun(id) # None /\ GetRun(id).status \in Terminal => GetRun(id).finished
    /\ \A experiment \in Ids :
           ListRuns(experiment) =
               {Latest(id) : id \in {i \in Ids : /\ told.registered[i] # None
                                               /\ told.registered[i].experiment = experiment}}

\* A run that was not cut short while writing resumes from its own last checkpoint.
ResumeIsOwn ==
    \A run \in Ids :
        LET loaded == LoadCheckpoint(run)
        IN loaded # CutShort(run) /\ saved[run] > 0 =>
               loaded = [run |-> run, progress |-> saved[run]]

\* A log holds the observations of its key, each once and in order, and all of
\* them that are not still buffered unless a write failed or the writer was dropped.
LogsInOrder ==
    \A key \in Keys :
        LET lines == logs[key] \o OfKey(buffer, key)
            all == OfKey([i \in DOMAIN written |-> [key |-> written[i], n |-> i]], key)
        IN /\ \A i, j \in DOMAIN lines : i < j => lines[i].n < lines[j].n
           /\ \A i \in DOMAIN lines : written[lines[i].n] = key
           /\ ~lost => lines = all /\ spoilt = {}

\* What is read back is what was written.
PersistedIsWhatWasWritten == StoreIsTraceable /\ ResumeIsOwn /\ LogsInOrder
===============================================================================
