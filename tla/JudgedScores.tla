---------------------------- MODULE JudgedScores ----------------------------
(***************************************************************************)
(* Items scored by a judge model: response_quality.py run over the items   *)
(* by core/metric_runner.py, through core/judge.py's CachingJudge.         *)
(*                                                                         *)
(* Two processes score the same items with the same judge; each may keep   *)
(* its verdicts in the cache file the other one names.  A prompt is the    *)
(* item it is about.  The rubric's four verdicts are cut to two, a reply   *)
(* that holds none of them is "junk".                                      *)
(***************************************************************************)
EXTENDS SuiteRunner, SequencesExt

Scorers == {1, 2}
Verdicts2 == {"good", "poor"}
Replies == Verdicts2 \cup {"junk"}

\* Bound: several items, or several samples of one.
Jobs == {[items |-> 2, samples |-> 1], [items |-> 1, samples |-> 3]}
Prompts == 1 .. 2
Empty == [p \in Prompts |-> "none"]

VARIABLES
    job,        \* what is scored, and how many samples each item gets
    ask,        \* each scorer: judge configured, cached, at, reply, mem, got, scores
    cache,      \* the cache file; Empty when missing or corrupt
    draft,      \* its .tmp file, << >> when there is none
    calls       \* calls that reached the judge, by scorer and prompt

judgeVars == <<job, ask, cache, draft, calls>>

Fresh(judge, cached) ==
    [judge |-> judge, cached |-> cached, at |-> "new", reply |-> "none", mem |-> Empty,
     got |-> << >>, scores |-> << >>, met |-> {}, after |-> {}]

JudgeInit ==
    /\ job \in (IF suite = "judged" THEN Jobs ELSE {[items |-> 0, samples |-> 1]})
    /\ ask \in [Scorers -> {Fresh(TRUE, TRUE), Fresh(TRUE, FALSE), Fresh(FALSE, FALSE)}]
    /\ suite = "judged" \/ \A s \in Scorers : ~ask[s].judge
    /\ cache = Empty /\ draft = << >>
    /\ calls = [s \in Scorers |-> [p \in Prompts |-> 0]]

Item(s) == Len(ask[s].scores) + 1
Busy(s) == ask[s].at \notin {"new", "done", "dead"}

\* build_judge: CachingJudge loads the file, whatever is wrong with it.
\* Mutant: it starts empty.
LoadedNothing(s) == Empty
Loaded(s) == IF ask[s].cached THEN cache ELSE Empty

BuildJudge(s) ==
    /\ suite = "judged" /\ ask[s].at = "new"
    /\ ask' = [t \in Scorers |->
                  IF t = s
                  THEN [ask[s] EXCEPT !.at = "item", !.mem = Loaded(s),
                                      !.met = {u \in Scorers : Busy(u)},
                                      !.after = {u \in Scorers : ask[u].at \in {"done", "dead"}}]
                  ELSE IF Busy(t) THEN [ask[t] EXCEPT !.met = @ \cup {s}] ELSE ask[t]]
    /\ UNCHANGED <<job, cache, draft, calls>>

\* _apply_one appends one score and goes on to the next item.
Scored(a, score) ==
    [a EXCEPT !.scores = Append(@, score), !.got = << >>, !.reply = "none",
              !.at = IF Len(a.scores) + 1 = job.items THEN "done" ELSE "item"]

\* Counter.most_common: the first seen of the most frequent.
Majority(got) ==
    LET Votes(v) == Cardinality({i \in DOMAIN got : got[i] = v}) IN
    got[CHOOSE i \in DOMAIN got :
            /\ \A v \in Verdicts2 : Votes(v) <= Votes(got[i])
            /\ \A j \in 1 .. i - 1 : Votes(got[j]) < Votes(got[i])]

\* judge_emit: a reply outside the rubric raises, and the item is an error.
Read(a, reply) ==
    IF reply = "junk" THEN Scored(a, "error")
    ELSE LET got == Append(a.got, reply) IN
         IF Len(got) = job.samples THEN Scored([a EXCEPT !.got = got], Majority(got))
         ELSE [a EXCEPT !.got = got, !.reply = "none", !.at = "item"]

\* No judge, or an item without output.
SkipItem(s) ==
    /\ ask[s].at = "item"
    /\ ask[s].judge => ask[s].got = << >>
    /\ ask' = [ask EXCEPT ![s] = Scored(ask[s], "skip")]
    /\ UNCHANGED <<job, cache, draft, calls>>

\* CachingJudge.generate: a reply it holds answers every sample of the item.
Hits(s) ==
    /\ ask[s].at = "item" /\ ask[s].judge
    /\ ask[s].mem[Item(s)] # "none"
    /\ ask' = [ask EXCEPT ![s] = Read(ask[s], ask[s].mem[Item(s)])]
    /\ UNCHANGED <<job, cache, draft, calls>>

\* The reply is kept as it came, before anyone has read a verdict in it.
Asks(s) ==
    /\ ask[s].at = "item" /\ ask[s].judge
    /\ ask[s].mem[Item(s)] = "none"
    /\ \/ \E reply \in Replies :
             /\ calls' = [calls EXCEPT ![s][Item(s)] = @ + 1]
             /\ ask' = [ask EXCEPT ![s] =
                           IF ask[s].cached
                           THEN [ask[s] EXCEPT !.mem[Item(s)] = reply, !.reply = reply, !.at = "flush"]
                           ELSE Read(ask[s], reply)]
       \/ ask' = [ask EXCEPT ![s] = Scored(ask[s], "error")] /\ UNCHANGED calls
    /\ UNCHANGED <<job, cache, draft>>

\* _flush writes all it holds to the one .tmp, then renames that; a scorer
\* whose .tmp another one renamed raises, and the item it paid for is an error.
WriteDraft(s) ==
    /\ ask[s].at = "flush"
    /\ draft' = <<ask[s].mem>>
    /\ ask' = [ask EXCEPT ![s].at = "rename"]
    /\ UNCHANGED <<job, cache, calls>>

Rename(s) ==
    /\ ask[s].at = "rename"
    /\ \/ /\ draft # << >>
          /\ cache' = draft[1] /\ draft' = << >>
          /\ ask' = [ask EXCEPT ![s] = Read(ask[s], ask[s].reply)]
       \/ /\ draft = << >>
          /\ ask' = [ask EXCEPT ![s] = Scored(ask[s], "error")]
          /\ UNCHANGED <<cache, draft>>
    /\ UNCHANGED <<job, calls>>

\* The process is killed; its .tmp stays.
Dies(s) ==
    /\ Busy(s)
    /\ ask' = [ask EXCEPT ![s].at = "dead"]
    /\ UNCHANGED <<job, cache, draft, calls>>

JudgeStep ==
    \E s \in Scorers :
        BuildJudge(s) \/ SkipItem(s) \/ Hits(s) \/ Asks(s) \/ WriteDraft(s) \/ Rename(s) \/ Dies(s)

(***************************************************************************)
(* Properties                                                              *)
(***************************************************************************)

Judged(s) == {k \in DOMAIN ask[s].scores : ask[s].scores[k] \in Verdicts2}

\* A verdict another run had paid for and put away is never paid for again, as
\* long as the two did not run at once; and no entry is lost or made up.
PaidOnce ==
    /\ \A s, t \in Scorers : t \in ask[s].after /\ ask[s].cached /\ ask[t].cached =>
          \A p \in Prompts :
              calls[s][p] > 0 => p \notin Judged(t) /\ calls[s][p] <= 1
    /\ \A p \in Prompts :
          /\ cache[p] # "none" => \E s \in Scorers : ask[s].cached /\ calls[s][p] > 0
          /\ \A s \in Scorers :
                /\ ask[s].cached /\ p \in Judged(s) /\ ask[s].met = {} => cache[p] # "none"
                /\ ask[s].cached => calls[s][p] <= 1

\* A score is a verdict this judge gave on this item, backed by as many calls as
\* samples when nothing was cached; an item is in error only where the judge
\* failed, said junk, or a scorer running at the same time took the .tmp.
VerdictsAreReal ==
    \A s \in Scorers : \A k \in DOMAIN ask[s].scores :
        /\ k \in Judged(s) =>
              IF ask[s].cached
              THEN ask[s].mem[k] = ask[s].scores[k] /\ \E t \in Scorers : calls[t][k] > 0
              ELSE calls[s][k] = job.samples
        /\ ask[s].scores[k] = "error" =>
              \/ ask[s].mem[k] \in {"none", "junk"}
              \/ ask[s].met # {}
        /\ ~ask[s].judge => ask[s].scores[k] = "skip" /\ calls[s][k] = 0

JudgeIsHonest == PaidOnce /\ VerdictsAreReal
=============================================================================
