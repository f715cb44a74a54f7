---------------------------- MODULE ResultStore ----------------------------
(***************************************************************************)
(* Persisting one result: core/store.py::ResultStore.persist over the      *)
(* all-or-nothing writes of core/persistence.py.  A record is rendered,    *)
(* checked and written with its series in a Parquet sidecar; what cannot   *)
(* be written as it is is written smaller, in the results directory or in  *)
(* the emergency directory.  Writes fail, and the process can die between  *)
(* any two of them.                                                        *)
(*                                                                         *)
(* A record is the set of parts it still holds.  Each part is fine, leaky  *)
(* (it holds a value that identifies the operator), broken (it has no      *)
(* canonical encoding) or misshapen (it does not fit the schema).          *)
(***************************************************************************)
EXTENDS Naturals, FiniteSets

CONSTANT MaxFaults   \* bound: writes and removals that fail

ASSUME MaxFaultsAssumption == MaxFaults \in Nat

\* What plugins filled in freely, what was scored, what enrichers added, and what the
\* core wrote itself.
Parts     == {"series", "evidence", "scored", "extensions", "core"}
Qualities == {"fine", "leaky", "broken", "misshapen"}

VARIABLES quality,    \* of each part of the record
          pc,
          parts,      \* the parts in the payload to write
          scrubbed,   \* were its identities scrubbed (or every plugin value dropped)?
          sidecar,    \* "none", "built" or "written": the sidecar of this call
          fault,      \* what sent the call to the degraded path: "none", "os", "data"
          status,     \* the record's status in memory: as it was, or failed
          faults,
          \* the disk
          series,     \* the sidecar file: "none" or "there"
          record,     \* the record in the results directory
          emergency,  \* the record in the emergency directory
          dump,       \* has an INVALID- dump been written?
          \* another process
          reader      \* of the results directory: where it is, the record it has read

disk == <<series, record, emergency, dump>>
vars == <<quality, pc, parts, scrubbed, sidecar, fault, status, faults, disk, reader>>

NoRecord == [parts |-> {}, pointer |-> FALSE, stage |-> "none", status |-> "none",
             scrubbed |-> FALSE]

Init ==
    /\ quality \in [Parts -> Qualities]
    /\ pc = "start"
    /\ parts = Parts /\ scrubbed = FALSE /\ sidecar = "none"
    /\ fault = "none" /\ status = "given" /\ faults = 0
    /\ series = "none" /\ record = NoRecord /\ emergency = NoRecord /\ dump = FALSE
    /\ reader = [at |-> "walk", record |-> NoRecord]

Fault == faults < MaxFaults /\ faults' = faults + 1

----------------------------------------------------------------------------
(* Rendering: _payload.                                                    *)

\* Mutant of Check: what enrichers add is trusted.
CheckOwn(S) ==
    IF \E p \in S \ {"extensions"} : quality[p] = "leaky" THEN "leak"
    ELSE IF \E p \in S : quality[p] = "broken" THEN "broken"
    ELSE IF \E p \in S : quality[p] = "misshapen" THEN "misshapen"
    ELSE "fine"

\* What checking the parts of a payload says: the leaks are looked for first, then the
\* digest needs a canonical encoding, then the schema is checked.
Check(S) ==
    IF \E p \in S : quality[p] = "leaky" THEN "leak"
    ELSE IF \E p \in S : quality[p] = "broken" THEN "broken"
    ELSE IF \E p \in S : quality[p] = "misshapen" THEN "misshapen"
    ELSE "fine"

\* Scrubbed, a leaky part is fine.
CheckScrubbed(S) ==
    IF \E p \in S : quality[p] = "broken" THEN "broken"
    ELSE IF \E p \in S : quality[p] = "misshapen" THEN "misshapen"
    ELSE "fine"

\* The parts written inline: with a sidecar the series are not among them.
Inline == IF sidecar = "none" THEN Parts ELSE Parts \ {"series"}

\* _assert_schema dumps the payload it refuses; the dump is best-effort.
DumpInvalid ==
    \/ dump' = TRUE /\ UNCHANGED faults
    \/ Fault /\ UNCHANGED dump

----------------------------------------------------------------------------
(* persist.                                                                *)

\* _series_sidecar: an optimisation; anything wrong with it keeps the series inline.
BuildSidecar ==
    /\ pc = "start"
    /\ \/ sidecar' = "none"
       \/ quality["series"] \in {"fine", "misshapen"} /\ sidecar' = "built"
    /\ pc' = "render"
    /\ UNCHANGED <<quality, parts, scrubbed, fault, status, faults, disk>>

Rendered ==
    /\ pc = "render" /\ Check(Inline) = "fine"
    /\ parts' = Inline
    /\ pc' = IF sidecar = "built" THEN "sidecar" ELSE "record"
    /\ UNCHANGED <<quality, scrubbed, sidecar, fault, status, faults, disk>>

\* Mutant of Malformed: refused without a dump.
MalformedUnseen ==
    /\ pc = "render" /\ Check(Inline) = "misshapen"
    /\ pc' = "raised"
    /\ UNCHANGED <<quality, parts, scrubbed, sidecar, fault, status, faults, disk>>

\* A malformed record fails loudly: dumped as it is, then SchemaValidationError.
Malformed ==
    /\ pc = "render" /\ Check(Inline) = "misshapen"
    /\ DumpInvalid
    /\ pc' = "raised"
    /\ UNCHANGED <<quality, parts, scrubbed, sidecar, fault, status, series, record,
                   emergency>>

\* A leak, or no encoding: the degraded path.
Unfit ==
    /\ pc = "render" /\ Check(Inline) \in {"leak", "broken"}
    /\ fault' = "data" /\ pc' = "degrade"
    /\ UNCHANGED <<quality, parts, scrubbed, sidecar, status, faults, disk>>

\* The sidecar is written before the record that points to it.
WriteSidecar ==
    /\ pc = "sidecar"
    /\ series' = "there" /\ sidecar' = "written"
    /\ pc' = "record"
    /\ UNCHANGED <<quality, parts, scrubbed, fault, status, faults, record, emergency, dump>>

\* ... and when it cannot be, the series stay inline.
SidecarFails ==
    /\ pc = "sidecar" /\ Fault
    /\ sidecar' = "none" /\ pc' = "render"
    /\ UNCHANGED <<quality, parts, scrubbed, fault, status, disk>>

\* Mutant of WriteRecord: the caller is told of a sidecar that was given up.
WriteRecordStale ==
    /\ pc = "record"
    /\ record' = [parts |-> Parts \ {"series"}, pointer |-> sidecar = "written",
                  stage |-> "ok", status |-> status, scrubbed |-> FALSE]
    /\ pc' = "returned"
    /\ UNCHANGED <<quality, parts, scrubbed, sidecar, fault, status, faults, series,
                   emergency, dump>>

WriteRecord ==
    /\ pc = "record"
    /\ record' = [parts |-> parts, pointer |-> sidecar = "written", stage |-> "ok",
                  status |-> status, scrubbed |-> FALSE]
    /\ pc' = "returned"
    /\ UNCHANGED <<quality, parts, scrubbed, sidecar, fault, status, faults, series,
                   emergency, dump>>

RecordFails ==
    /\ pc = "record" /\ Fault
    /\ fault' = "os" /\ pc' = "degrade"
    /\ UNCHANGED <<quality, parts, scrubbed, sidecar, status, disk>>

----------------------------------------------------------------------------
(* _persist_degraded.                                                      *)

\* The sidecar is removed, or moved aside, or stays where no record points to it; the
\* status becomes failed and the extensions are replaced.
RemoveSidecar ==
    \/ series' = "none" /\ UNCHANGED faults
    \/ series = "there" /\ Fault /\ UNCHANGED series

Degrade ==
    /\ pc = "degrade"
    /\ RemoveSidecar
    /\ sidecar' = "none" /\ status' = "failed"
    /\ pc' = "shrink"
    /\ UNCHANGED <<quality, parts, scrubbed, fault, record, emergency, dump>>

\* _degraded_payload: the largest of these shapes that can be rendered; then the smallest
\* one with its identities scrubbed; then the minimum the core writes by itself.
\* No part of the record as it was, only what _minimal_payload writes itself.
Minimal == {}
Shapes == <<Parts \ {"extensions"}, {"scored", "core"}, {"core"}>>

Shrink ==
    /\ pc = "shrink"
    /\ IF \E n \in DOMAIN Shapes : Check(Shapes[n]) = "fine"
       THEN /\ \E n \in DOMAIN Shapes :
                 /\ Check(Shapes[n]) = "fine"
                 /\ \A m \in 1 .. n - 1 : Check(Shapes[m]) # "fine"
                 /\ parts' = Shapes[n]
            /\ UNCHANGED scrubbed
       ELSE /\ scrubbed' = TRUE
            /\ parts' = IF CheckScrubbed({"core"}) = "fine" THEN {"core"} ELSE Minimal
    /\ IF \E n \in DOMAIN Shapes : Check(Shapes[n]) = "misshapen"
       THEN dump' \in {dump, TRUE} ELSE UNCHANGED dump
    /\ pc' = IF fault = "os" THEN "emergency" ELSE "rewrite"
    /\ UNCHANGED <<quality, sidecar, fault, status, faults, series, record, emergency>>

\* Mutant of Degraded: the record keeps the status of its run.
DegradedAsIs == [parts |-> parts, pointer |-> FALSE, stage |-> "failed",
                 status |-> "given", scrubbed |-> scrubbed]

Degraded == [parts |-> parts, pointer |-> FALSE, stage |-> "failed", status |-> "failed",
             scrubbed |-> scrubbed]

\* Only the data was at fault: the record stays where the user asked for it.
WriteDegraded ==
    /\ pc = "rewrite"
    /\ \/ record' = Degraded /\ pc' = "returned" /\ UNCHANGED faults
       \/ Fault /\ pc' = "emergency" /\ UNCHANGED record
    /\ UNCHANGED <<quality, parts, scrubbed, sidecar, fault, status, series, emergency, dump>>

\* The last resort; when it fails too the record is printed and the error raised.
WriteEmergency ==
    /\ pc = "emergency"
    /\ \/ emergency' = Degraded /\ pc' = "returned" /\ UNCHANGED faults
       \/ Fault /\ pc' = "raised" /\ UNCHANGED emergency
    /\ UNCHANGED <<quality, parts, scrubbed, sidecar, fault, status, series, record, dump>>

\* The emergency file is written in place: a process killed inside leaves it torn.
KilledInEmergency ==
    /\ pc = "emergency"
    /\ emergency' = [NoRecord EXCEPT !.stage = "torn"] /\ pc' = "dead"
    /\ UNCHANGED <<quality, parts, scrubbed, sidecar, fault, status, faults, series, record,
                   dump>>

\* A crash between two writes: those of the results directory are all or nothing.
Crash ==
    /\ pc \notin {"returned", "raised", "dead"}
    /\ pc' = "dead"
    /\ UNCHANGED <<quality, parts, scrubbed, sidecar, fault, status, faults, disk>>

Finished == pc \in {"returned", "raised", "dead"} /\ UNCHANGED vars

Persist == \/ BuildSidecar \/ Rendered \/ Malformed \/ Unfit \/ WriteSidecar \/ SidecarFails
           \/ WriteRecord \/ RecordFails \/ Degrade \/ Shrink \/ WriteDegraded
           \/ WriteEmergency

----------------------------------------------------------------------------
(* Reading it back, in another process and at any time: query_series.      *)

\* iter_verified_records passes over what is not a record or does not carry its own
\* digest, and never leaves the results directory.
FindRecord ==
    /\ reader.at = "walk" /\ record # NoRecord
    /\ reader' = [at |-> "found", record |-> record]
    /\ UNCHANGED <<quality, pc, parts, scrubbed, sidecar, fault, status, faults, disk>>

Verified(r) == r.pointer /\ series = "there"

\* validate_sidecar, in its own time: inline series are in no table, and a sidecar that is
\* missing or not the record's is passed over without a word.
OpenSidecar ==
    /\ reader.at = "found"
    /\ reader' = [reader EXCEPT !.at = IF Verified(reader.record) THEN "table" ELSE "skipped"]
    /\ UNCHANGED <<quality, pc, parts, scrubbed, sidecar, fault, status, faults, disk>>

Next == \/ (Persist \/ KilledInEmergency \/ Crash) /\ UNCHANGED reader
        \/ FindRecord \/ OpenSidecar \/ Finished

Spec == Init /\ [][Next]_vars

----------------------------------------------------------------------------
(* Properties.                                                             *)

\* At every instant, also after a crash, a record that points to a sidecar has it, and a
\* record that does not holds its series itself, or says that it is degraded.
SeriesAreFindable ==
    record # NoRecord =>
        /\ record.pointer => series = "there"
        /\ record.stage = "ok" /\ ~record.pointer => "series" \in record.parts

\* No value that identifies the operator reaches a file.
NothingPrivateWritten ==
    \A r \in {record, emergency} : \A p \in r.parts : quality[p] = "leaky" => r.scrubbed

\* A call that returns has left a record that readers accept, one of them only, and the
\* caller's copy agrees with it about how the run ended; a call that raises has dumped the
\* record or met a disk that refused it.
NothingVanishes ==
    /\ pc = "returned" =>
         /\ (record = NoRecord) # (emergency = NoRecord)
         /\ \A r \in {record, emergency} \ {NoRecord} :
              /\ CheckScrubbed(r.parts) = "fine"
              /\ r.status = status
    /\ pc = "raised" => dump \/ faults > 0

\* Nothing a plugin did can make a run look better than it was: a record that lost a part
\* says that it failed.  (A torn emergency file is no record: its digest does not match.)
SmallerMeansFailed ==
    \A r \in {q \in {record, emergency} : q.stage \in {"ok", "failed"}} :
        LET whole == IF r.pointer THEN Parts \ {"series"} ELSE Parts
        IN  r.parts = whole \/ (r.status = "failed" /\ r.stage = "failed")

\* What a reader found it can read for good: a record's pointer holds between the reading of
\* the record and of the series, and only a record with its series elsewhere is passed over.
ReadersKeepUp ==
    reader.at # "walk" =>
        /\ reader.record.pointer => series = "there"
        /\ (reader.at = "skipped") => ~reader.record.pointer

\* What is on disk after a persist, a fault or a crash may be trusted as it stands: its
\* series can be found, it names nobody, and it does not look better than it was.
DiskIsSound == SeriesAreFindable /\ ReadersKeepUp /\ NothingPrivateWritten /\ SmallerMeansFailed
=============================================================================
