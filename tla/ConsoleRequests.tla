-------------------------- MODULE ConsoleRequests --------------------------
(***************************************************************************)
(* The requests of the viewer that change or read one file while others    *)
(* do: viewer/server.py's routing and gates, the target configs of         *)
(* viewer/targets.py, the launch of a run with a target (viewer/launch.py) *)
(* and the slots of the event streams.  Every request has a thread of its  *)
(* own and nothing locks a target file: it is looked up, parsed, measured, *)
(* read again, truncated, filled and unlinked in separate steps, beside an *)
(* editor that works on the same directory.                                *)
(*                                                                         *)
(* A target file is what the code tells apart in its text: a mapping with  *)
(* no credential ("plain"), with one ("secret"), with three asterisks in   *)
(* its place ("masked"); no mapping, whatever the text says, a credential  *)
(* too ("broken"); or bytes that are not UTF-8 ("bytes").                  *)
(***************************************************************************)
EXTENDS Naturals, FiniteSets

CONSTANTS Threads,      \* request threads
          Launches,     \* run ids the console can give out
          MaxUpsets     \* changes made in an editor, files that cannot be written,
                        \* processes that do not start

ASSUME UpsetsAssumption == MaxUpsets \in Nat

VARIABLES file,       \* the target: absent, empty (truncated), or a text
          allow,      \* csbench serve --allow-write
          at, req,    \* where a thread is, with which request
          saw,        \* the file as the thread read it
          touched,    \* threads that have looked at a file others changed since
          orphans,    \* threads whose open file has been unlinked
          answer,     \* the answer just given, to a request whose file nobody else changed
          child,      \* of each run: none, noted, spawned, running, refused
          asked, conf,  \* the target as it was checked; did the child read the same?
          moved,      \* runs whose target changed after it was checked
          held,       \* _StreamSlots._held
          upsets,     \* editor's changes and upsets so far
          edited, masked  \* the editor changed the file; put asterisks there

disk     == <<file, orphans, touched, moved>>
launched == <<child, asked, conf>>
requestVars == <<allow, at, req, saw, answer, disk, launched, held, upsets, edited, masked>>

Texts == {"plain", "secret", "masked", "broken", "bytes"}
Writes == {"put", "delete", "launch"}
MAX_STREAMS == 1

Nothing == [kind |-> "none"]

RequestInit ==
    /\ file \in {"absent", "plain"} /\ allow \in BOOLEAN
    /\ at = [h \in Threads |-> "idle"] /\ req = [h \in Threads |-> Nothing]
    /\ saw = [h \in Threads |-> "absent"] /\ touched = {} /\ orphans = {}
    /\ answer = Nothing
    /\ child = [r \in Launches |-> "none"] /\ moved = {}
    /\ asked = [r \in Launches |-> "absent"] /\ conf = [r \in Launches |-> "unread"]
    /\ held = 0 /\ upsets = 0 /\ edited = FALSE /\ masked = FALSE

----------------------------------------------------------------------------
(* What arrives, and what is refused without looking at a file.            *)

\* flaw: what is wrong with the request before anything is looked at on disk.
Flaws == {"none", "foreign host", "no header", "odd name", "long body", "odd body"}
Plain  == [kind: {"target", "targets", "stream", "delete", "cancel", "stray"}, flaw: Flaws]
Put    == [kind: {"put"}, flaw: Flaws, yaml: (Texts \ {"bytes"}) \cup {"blank"},
           overwrite: BOOLEAN]
Launch == [kind: {"launch"}, flaw: Flaws, known: BOOLEAN, plan: BOOLEAN]
Arriving == Plain \cup Put \cup Launch

\* _parse, _load_config: is there a mapping in the text?  (An empty file is an empty one.)
Loads(text) == text \notin {"broken", "bytes"}

\* redact: in a mapping, a value under a credential-shaped key is hidden, asterisks
\* included.  A text that does not load gives an empty mapping: nothing in it is hidden.
Hidden(text) == Loads(text) /\ text \in {"secret", "masked"}

\* _put_target: only what parses to a mapping is written, and never a redacted read on
\* its way back.
Placeholder(text) == Hidden(text) /\ text = "masked"
\* Mutant of PutRefusal: only what would not load is refused.
PutRefusalOfBroken(r) == r.yaml \in {"blank", "broken"}
PutRefusal(r) == r.yaml \in {"blank", "broken"} \/ Placeholder(r.yaml)

\* validate_launch: domain, platform, benchmark, scorer, params, repeat, warmup.
LaunchRefusal(r) == ~r.known

\* _write_allowed and _write_body: the flag, the header, the length, the text.
WriteRefusal(r) == ~allow \/ r.flaw \in {"no header", "long body", "odd body"}

\* _cancel: the header, no body, a plain run id.
CancelRefusal(r) == r.flaw \in {"no header", "long body", "odd body", "odd name"}

\* _route and what it hands over to.
Refused(r) ==
    \/ r.flaw = "foreign host"
    \/ r.kind = "stray"
    \/ r.flaw = "odd name" /\ r.kind # "targets"
    \/ r.kind = "cancel" /\ CancelRefusal(r)
    \/ r.kind \in Writes /\ WriteRefusal(r)
    \/ r.kind = "put" /\ PutRefusal(r)
    \/ r.kind = "launch" /\ LaunchRefusal(r)
Admitted == {r \in Arriving : ~Refused(r)}

Reply(h, a) ==
    /\ answer' = IF h \in touched THEN Nothing ELSE a
    /\ at' = [at EXCEPT ![h] = "idle"] /\ req' = [req EXCEPT ![h] = Nothing]
    /\ saw' = [saw EXCEPT ![h] = "absent"]
Judged(kind, status) == IF status = 500 THEN [kind |-> kind, status |-> 500] ELSE Nothing
Say(h, status) == Reply(h, Judged(req[h].kind, status))
Answers(h, r, status) == Reply(h, Judged(r.kind, status))
Silent == answer' = Nothing
Go(h, where) == at' = [at EXCEPT ![h] = where] /\ Silent /\ UNCHANGED <<req, saw>>

Mishap == upsets < MaxUpsets /\ upsets' = upsets + 1
Rest == UNCHANGED <<allow, edited, masked>>
Reads == UNCHANGED <<file, orphans, moved, launched, held, upsets>> /\ Rest
Forget(h) == touched' = touched \ {h}

\* A refused request leaves no trace but its answer.
Refuse4xx(h) ==
    /\ at[h] = "idle" /\ Admitted # Arriving
    /\ Reply(h, Nothing) /\ Forget(h) /\ Reads

\* A request that goes on takes its first look at the file in the same step.
Accepts(h, r, kinds) == at[h] = "idle" /\ r.kind \in kinds
Begin(h, where, r) ==
    /\ at' = [at EXCEPT ![h] = where] /\ req' = [req EXCEPT ![h] = r]
    /\ saw' = [saw EXCEPT ![h] = IF where = "note" THEN file ELSE "absent"]
    /\ Silent

----------------------------------------------------------------------------
(* Reading and deleting a target.                                          *)

\* find_target: the name is looked for in the directory.
Find(h, r) ==
    /\ Accepts(h, r, {"target", "delete"})
    /\ IF file = "absent" THEN Answers(h, r, 404)
       ELSE Begin(h, IF r.kind = "delete" THEN "unlink" ELSE "parse", [kind |-> r.kind])
    /\ Forget(h) /\ Reads

\* list_targets: what the directory holds, read one after the other.
ListTargets(h, r) ==
    /\ Accepts(h, r, {"targets"})
    /\ IF file = "absent" THEN Answers(h, r, 200) ELSE Begin(h, "parse", [kind |-> "targets"])
    /\ Forget(h) /\ Reads

\* _parse: what cannot be read or is no mapping stays visible with its error.
Parse(h) ==
    /\ at[h] = "parse"
    /\ saw' = [saw EXCEPT ![h] = file] /\ at' = [at EXCEPT ![h] = "stat"]
    /\ Silent /\ UNCHANGED <<req, touched>> /\ Reads

\* Mutant of Stat: the text is served with the mapping whatever was hidden in it.
StatShowsAll(h) ==
    /\ at[h] = "stat"
    /\ IF file # "absent" /\ req[h].kind = "target" THEN Go(h, "text") /\ UNCHANGED touched
       ELSE Say(h, IF file = "absent" THEN 500 ELSE 200) /\ Forget(h)
    /\ Reads

\* _summary measures the file again, and raises when it is gone; the text is served
\* unless something in the parsed mapping is hidden.
Stat(h) ==
    /\ at[h] = "stat"
    /\ IF file # "absent" /\ req[h].kind = "target" /\ ~Hidden(saw[h])
       THEN Go(h, "text") /\ UNCHANGED touched
       ELSE Say(h, IF file = "absent" THEN 500 ELSE 200) /\ Forget(h)
    /\ Reads

\* read_text once more: it raises when the file is gone, and for what is not UTF-8.
Text(h) ==
    /\ at[h] = "text"
    /\ IF file \in {"absent", "bytes"} THEN Say(h, 500)
       ELSE Reply(h, [kind |-> "text", data |-> saw[h], yaml |-> file])
    /\ Forget(h) /\ Reads

\* Whoever changes the file, the requests and runs that looked at it have seen another one.
Change(by, now) ==
    /\ file' = now
    /\ touched' = (touched \ by) \cup {g \in Threads \ by : at[g] # "idle"}
    /\ moved' = moved \cup {r \in Launches : child[r] \in {"spawned", "plan"}}

\* Those who have it open keep the unlinked file.
TakeAway(by) ==
    Change(by, "absent") /\ orphans' = orphans \cup {g \in Threads : at[g] = "fill"}

Unlink(h) ==
    /\ at[h] = "unlink"
    /\ IF file # "absent" THEN Say(h, 200) /\ TakeAway({h})
       ELSE Say(h, 500) /\ Forget(h) /\ UNCHANGED <<file, orphans, moved>>
    /\ UNCHANGED <<launched, held, upsets>> /\ Rest

----------------------------------------------------------------------------
(* Writing a target: checked, then truncated, then filled.                 *)

Check(h, r) ==
    /\ Accepts(h, r, {"put"})
    /\ IF file # "absent" /\ ~r.overwrite THEN Answers(h, r, 409)
       ELSE Begin(h, "open", [kind |-> "put", yaml |-> r.yaml, overwrite |-> r.overwrite])
    /\ Forget(h) /\ Reads

Open(h) ==
    /\ at[h] = "open"
    /\ \/ Change({h}, "empty") /\ Begin(h, "fill", [kind |-> "put", yaml |-> req[h].yaml])
          /\ UNCHANGED upsets
       \/ Mishap /\ Say(h, 500) /\ Forget(h) /\ UNCHANGED <<file, moved>>
    /\ UNCHANGED <<orphans, launched, held>> /\ Rest

\* Over the text of another writer the shorter one leaves the other's end.
Fill(h) ==
    /\ at[h] = "fill"
    /\ IF h \in orphans THEN Forget(h) /\ UNCHANGED <<file, moved>>
       ELSE \E text \in {req[h].yaml} \cup (IF file = "empty" THEN {} ELSE {"broken"}) :
                Change({h}, text)
    /\ Say(h, 200) /\ orphans' = orphans \ {h}
    /\ UNCHANGED <<launched, held, upsets>> /\ Rest

\* Somebody edits or removes the file beside the console.
Edit ==
    /\ Mishap /\ edited' = TRUE
    /\ \/ TakeAway({})
       \/ \E text \in Texts \ {file} : Change({}, text) /\ UNCHANGED orphans
    /\ masked' = (masked \/ file' = "masked")
    /\ Silent /\ UNCHANGED <<allow, at, req, saw, launched, held>>

----------------------------------------------------------------------------
(* Starting a run with the target.                                         *)

Validate(h, r) ==
    /\ Accepts(h, r, {"launch"})
    /\ IF file = "absent" THEN Answers(h, r, 400)
       ELSE Begin(h, "note", [kind |-> "launch", plan |-> r.plan])
    /\ Forget(h) /\ Reads

\* record_launch, before there is a process.
Note(h) ==
    /\ at[h] = "note"
    /\ \/ /\ \E r \in Launches :
               /\ child[r] = "none" /\ child' = [child EXCEPT ![r] = "noted"]
               /\ asked' = [asked EXCEPT ![r] = saw[h]]
               /\ req' = [req EXCEPT ![h] = [kind |-> "launch", plan |-> req[h].plan, run |-> r]]
          /\ at' = [at EXCEPT ![h] = "popen"] /\ Silent /\ UNCHANGED <<saw, upsets>>
       \/ Mishap /\ Say(h, 500) /\ UNCHANGED <<child, asked>>
    /\ UNCHANGED <<disk, conf, held>> /\ Rest

\* Popen; the answer does not wait for the child.
Popen(h) ==
    LET r == req[h].run IN
    /\ at[h] = "popen"
    /\ \/ /\ child' = [child EXCEPT ![r] = IF req[h].plan THEN "plan" ELSE "spawned"]
          /\ moved' = IF h \in touched THEN moved \cup {r} ELSE moved
          /\ Say(h, 202) /\ UNCHANGED upsets
       \/ Mishap /\ Say(h, 500) /\ UNCHANGED <<child, moved>>
    /\ Forget(h) /\ UNCHANGED <<file, orphans, asked, conf, held>> /\ Rest

\* csbench run: an id and a plan exclude each other; a config that is not there, or that
\* does not load, is refused; otherwise it reads what the file holds by now.
ChildReads(r) ==
    /\ child[r] \in {"spawned", "plan"}
    /\ IF child[r] = "plan" \/ file = "absent" \/ ~Loads(file)
       THEN child' = [child EXCEPT ![r] = "refused"] /\ UNCHANGED conf
       ELSE /\ child' = [child EXCEPT ![r] = "running"]
            /\ conf' = [conf EXCEPT ![r] = IF file = asked[r] THEN "same" ELSE "another"]
    /\ asked' = [asked EXCEPT ![r] = "absent"]
    /\ Silent
    /\ UNCHANGED <<allow, at, req, saw, disk, held, upsets, edited, masked>>

----------------------------------------------------------------------------
(* Event streams, and a cancel.                                            *)

Acquire(h, r) ==
    /\ Accepts(h, r, {"stream"})
    /\ IF held >= MAX_STREAMS THEN Answers(h, r, 503) /\ UNCHANGED held
       ELSE Begin(h, "pump", [kind |-> "stream"]) /\ held' = held + 1
    /\ UNCHANGED <<disk, launched, upsets>> /\ Rest

\* Mutant of Release: a stream that raised keeps its slot.
ReleaseIfServed(h) ==
    /\ at[h] = "pump"
    /\ \E status \in {200, 500} :
         Say(h, status) /\ held' = IF status = 200 THEN held - 1 ELSE held
    /\ UNCHANGED <<disk, launched, upsets>> /\ Rest

\* The run is over, the browser is gone, or the pump raised.
Release(h) ==
    /\ at[h] = "pump"
    /\ held' = IF held > 0 THEN held - 1 ELSE 0
    /\ \E status \in {200, 500} : Say(h, status)
    /\ UNCHANGED <<disk, launched, upsets>> /\ Rest

\* request_cancel leaves a marker for a run it finds running.
Cancel(h, r) ==
    /\ Accepts(h, r, {"cancel"})
    /\ Answers(h, r, IF \E q \in Launches : child[q] = "running" THEN 200 ELSE 404)
    /\ Forget(h) /\ Reads

----------------------------------------------------------------------------
Handle(h) == \/ Parse(h) \/ Stat(h) \/ Text(h) \/ Unlink(h) \/ Open(h) \/ Fill(h)
             \/ Note(h) \/ Popen(h) \/ Release(h)
Receive(h, r) == \/ Find(h, r) \/ ListTargets(h, r) \/ Check(h, r) \/ Validate(h, r)
                 \/ Acquire(h, r) \/ Cancel(h, r)

RequestNext ==
    \/ \E h \in Threads : (\E r \in Admitted : Receive(h, r)) \/ Refuse4xx(h) \/ Handle(h)
    \/ Edit
    \/ \E r \in Launches : ChildReads(r)

----------------------------------------------------------------------------
(* Properties.                                                             *)

\* A credential in a target is never replaced by the asterisks that hide it; a file that
\* was there when a request without `overwrite` looked is not replaced by it; and a server
\* that may not write leaves every file to the editor and starts nothing.
TargetsAreKept ==
    /\ file = "masked" => masked
    /\ \A h \in Threads :
         at[h] = "open" /\ file # "absent" /\ ~req[h].overwrite => h \in touched
    /\ ~allow => touched = {} \/ edited
    /\ ~allow => \A r \in Launches : child[r] = "none"

\* A text that can show a credential to whoever reads it.
Revealing(text) == text \in {"secret", "broken"}

\* What a request says of the target is one file's truth, unless somebody changed it under
\* the request: the text served is the one whose mapping was shown, with no credential of
\* that mapping in it; and nothing fails but by a mishap.  The code's exceptions, against
\* the docstring of targets.py: a text without a mapping has nothing to redact and is
\* served with what it holds, and one that is not UTF-8 fails the request.
AnswersHold ==
    /\ answer.kind = "text" => /\ answer.yaml = answer.data
                               /\ Revealing(answer.yaml) => ~Loads(answer.yaml)
    /\ answer.kind = "target" => file = "bytes"
    /\ answer.kind \notin {"targets", "delete"}

\* A run that was accepted runs with the very target that was checked, and is refused only
\* when it is a plan, when the target does not load, or when it changed in between.
RunsGetTheirTarget ==
    \A r \in Launches \ moved :
        /\ child[r] = "running" => conf[r] = "same"
        /\ child[r] = "spawned" => file = asked[r]

\* Every stream gives its slot back, however it ends.
SlotsComeBack == held = Cardinality({h \in Threads : at[h] = "pump"}) /\ held <= MAX_STREAMS

\* Requests that overlap each other and an editor neither lose a target nor lie about it.
RequestsHold == TargetsAreKept /\ AnswersHold /\ RunsGetTheirTarget /\ SlotsComeBack
=============================================================================
