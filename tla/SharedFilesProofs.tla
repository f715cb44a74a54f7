-------------------------- MODULE SharedFilesProofs --------------------------
(***************************************************************************)
(* Proofs about the two files that processes share through the disk alone. *)
(*                                                                         *)
(* The live progress of a run (ProgressPlane), for any bounds: the         *)
(* inductive invariant PlaneInv, and from it that a subscriber receives    *)
(* what the run wrote (StreamIsFaithful) and that no reader deletes the    *)
(* directory of a run that has begun and not finished, unless its first    *)
(* snapshot failed (LiveNeverSwept).                                       *)
(* What the recursive function of Past computes is proved by the least     *)
(* number for which it would fail.                                         *)
(*                                                                         *)
(* The receipts of a publisher (PublishReceipts), for any processes, keys  *)
(* and number of attempts: the type invariant, the inductive invariant     *)
(* Inv, and from it that the publisher is called at most once for a key,   *)
(* that receipts are true, and that the receipt file implements            *)
(* AtMostOncePublish.                                                      *)
(***************************************************************************)
EXTENDS PublishReceipts, ProgressPlane, FiniteSetTheorems, WellFoundedInduction, TLAPS

(***************************************************************************)
(* Live progress.                                                          *)
(***************************************************************************)

\* A set of numbers that is not empty has a least one: there is no infinite descent in its
\* initial segments.
LEMMA Least ==
    ASSUME NEW T \in SUBSET Nat, T # {}
    PROVE  \E n \in T : \A m \in T : n <= m
<1>1. PICK x \in T : TRUE
  OBVIOUS
<1> DEFINE D == {0 .. n : n \in {m \in T : m <= x}}
<1>2. IsWellFoundedOn(StrictSubsetOrdering(Nat), FiniteSubsetsOf(Nat))
  BY FS_StrictSubsetOrderingWellFounded
<1>3. D \subseteq FiniteSubsetsOf(Nat)
  <2> SUFFICES ASSUME NEW n \in Nat PROVE 0 .. n \in FiniteSubsetsOf(Nat)
    OBVIOUS
  <2>1. IsFiniteSet(0 .. n)
    BY FS_Interval
  <2>2. 0 .. n \subseteq Nat
    OBVIOUS
  <2> QED
    BY <2>1, <2>2 DEF FiniteSubsetsOf
<1>4. D # {}
  BY <1>1
<1>5. PICK S \in D : \A R \in D : ~(<<R, S>> \in StrictSubsetOrdering(Nat))
  <2> HIDE DEF D
  <2> QED BY <1>2, <1>3, <1>4, WFMin
<1>6. PICK n \in T : S = 0 .. n /\ n <= x
  BY <1>5
<1>7. \A m \in T : n <= m
  <2> SUFFICES ASSUME NEW m \in T, m < n PROVE FALSE
    OBVIOUS
  <2>1. 0 .. m \in D
    BY <1>6
  <2>2. 0 .. m \subseteq 0 .. n /\ n \in 0 .. n /\ n \notin 0 .. m
    OBVIOUS
  <2>3. <<0 .. m, 0 .. n>> \in StrictSubsetOrdering(Nat)
    BY <2>2 DEF StrictSubsetOrdering
  <2> QED
    BY <2>1, <2>3, <1>5, <1>6
<1> QED
  BY <1>6, <1>7


\* The lines of a stream, and the order they are written in.
Events == [seq : Nat, kind : Kinds]
Ordered(s) == \A i, j \in DOMAIN s : i < j => s[i].seq < s[j].seq

\* What a subscriber keeps of the lines: those past its token, all of them, in their order.
LEMMA PastIs ==
    ASSUME NEW lines \in Seq(Events), NEW mark \in Nat
    PROVE  /\ Past(lines, mark) \in Seq(Events)
           /\ Range(Past(lines, mark)) = {lines[i] :
                                           i \in {j \in DOMAIN lines : lines[j].seq > mark}}
           /\ Ordered(lines) => Ordered(Past(lines, mark))
<1> DEFINE L == Len(lines)
           Value(f, n) == IF n = 0 THEN << >>
                          ELSE IF lines[n].seq > mark THEN Append(f[n - 1], lines[n])
                          ELSE f[n - 1]
           Defined(f, N) == f = [n \in 0 .. N |-> Value(f, n)]
           kept == CHOOSE f : Defined(f, L)
<1>0. L \in Nat
  OBVIOUS
<1>1. Past(lines, mark) = kept[L]
  BY DEF Past
<1>2. \E f : Defined(f, L)
  <2> DEFINE T == {N \in Nat : N <= L /\ ~\E f : Defined(f, N)}
  <2> SUFFICES ASSUME T # {} PROVE FALSE
    BY <1>0
  <2>1. PICK N \in T : \A m \in T : N <= m
    <3> HIDE DEF Defined
    <3> QED
      BY Least
  <2>2. N # 0
    <3> DEFINE f == [n \in 0 .. 0 |-> << >>]
    <3>1. Defined(f, 0)
      OBVIOUS
    <3> QED
      BY <3>1
  <2>2a. N - 1 \in Nat /\ N - 1 < N /\ N - 1 <= L /\ N <= L
    BY <1>0, <2>1, <2>2
  <2>3. PICK g : Defined(g, N - 1)
    <3> HIDE DEF Defined
    <3>1. N - 1 \notin T
      BY <2>1, <2>2a
    <3> QED
      BY <3>1, <2>2a
  <2> DEFINE f == [n \in 0 .. N |-> IF n = N THEN Value(g, n) ELSE g[n]]
  <2>4. Defined(f, N)
    <3>1. \A n \in 0 .. N - 1 : f[n] = g[n] /\ g[n] = Value(g, n)
      <4> SUFFICES ASSUME NEW n \in 0 .. N - 1 PROVE f[n] = g[n] /\ g[n] = Value(g, n)
        OBVIOUS
      <4>1. n \in 0 .. N /\ n # N
        BY <2>2a
      <4>2. f[n] = g[n]
        BY <4>1
      <4>3. g[n] = Value(g, n)
        <5> HIDE DEF Value, f
        <5> QED
          BY <2>3
      <4> QED
        BY <4>2, <4>3
    <3>2. \A n \in 0 .. N : f[n] = Value(f, n)
      <4> SUFFICES ASSUME NEW n \in 0 .. N PROVE f[n] = Value(f, n)
        OBVIOUS
      <4>1. n # 0 => n - 1 \in 0 .. N - 1
        BY <2>2a
      <4>2. n # 0 => f[n - 1] = g[n - 1]
        BY <4>1, <3>1
      <4>3. Value(f, n) = Value(g, n)
        BY <4>2
      <4>4. f[n] = Value(g, n)
        <5>1. CASE n = N
          BY <5>1
        <5>2. CASE n # N
          <6>1. n \in 0 .. N - 1
            BY <5>2, <2>2a
          <6> HIDE DEF Value
          <6> QED
            BY <6>1, <3>1
        <5> QED
          BY <5>1, <5>2
      <4> QED
        BY <4>3, <4>4
    <3>3. f = [n \in 0 .. N |-> f[n]]
      OBVIOUS
    <3> QED
      <4> HIDE DEF f, Value
      <4> QED
        BY <3>2, <3>3
  <2> QED
    <3> HIDE DEF f, Defined
    <3> QED
      BY <2>4, <2>1
<1>3. Defined(kept, L)
  <2> HIDE DEF Defined
  <2> QED
    BY <1>2
<1> HIDE DEF kept, L
<1> DEFINE Good(n) == /\ kept[n] \in Seq(Events)
                      /\ Range(kept[n]) = {lines[i] : i \in {j \in 1 .. n : lines[j].seq > mark}}
                      /\ Ordered(lines) => Ordered(kept[n])
<1>4. \A n \in 0 .. L : Good(n)
  <2> DEFINE T == {n \in Nat : n <= L /\ ~Good(n)}
  <2> SUFFICES ASSUME T # {} PROVE FALSE
    <3> HIDE DEF Good
    <3> QED
      BY <1>0
  <2>1. PICK n \in T : \A m \in T : n <= m
    <3> HIDE DEF Good
    <3> QED
      BY Least
  <2>2. CASE n = 0
    <3>1. kept[0] = << >>
      BY <1>3, <1>0
    <3>2. Good(0)
      BY <3>1 DEF Range, Ordered
    <3> QED BY <3>2, <2>2, <2>1
  <2>3. CASE n # 0
    <3>0. n \in Nat /\ n <= L /\ n - 1 \in Nat /\ n - 1 < n /\ n - 1 <= L /\ ~Good(n)
      BY <1>0, <2>1, <2>3
    <3>1. Good(n - 1)
      <4> HIDE DEF Good
      <4>1. n - 1 \notin T
        BY <2>1, <3>0
      <4> QED
        BY <4>1, <3>0
    <3>2. n \in 1 .. L /\ n \in DOMAIN lines /\ lines[n] \in Events /\ n \in 0 .. L
      BY <3>0, <2>3, <1>0 DEF L
    <3>3. kept[n] = IF lines[n].seq > mark THEN Append(kept[n - 1], lines[n]) ELSE kept[n - 1]
      BY <1>3, <3>2, <2>3
    <3> DEFINE K == kept[n - 1]
    <3>4. 1 .. n = (1 .. n - 1) \cup {n}
      BY <3>0, <2>3
    <3>5. CASE ~(lines[n].seq > mark)
      <4>1. kept[n] = K
        BY <3>3, <3>5
      <4>2. {j \in 1 .. n : lines[j].seq > mark} = {j \in 1 .. n - 1 : lines[j].seq > mark}
        BY <3>4, <3>5
      <4>3. Good(n)
        BY <4>1, <4>2, <3>1
      <4> QED
        BY <4>3, <3>0
    <3>6. CASE lines[n].seq > mark
      <4>1. kept[n] \in Seq(Events) /\ Len(kept[n]) = Len(K) + 1
            /\ (\A i \in DOMAIN K : kept[n][i] = K[i]) /\ kept[n][Len(K) + 1] = lines[n]
        BY <3>1, <3>2, <3>3, <3>6
      <4>2. Range(kept[n]) = Range(K) \cup {lines[n]}
        <5>1. DOMAIN kept[n] = DOMAIN K \cup {Len(K) + 1}
          BY <4>1, <3>1
        <5> HIDE DEF K
        <5>2. \A i \in DOMAIN K : i # Len(K) + 1
          BY <4>1, <3>1 DEF K
        <5> QED
          BY <5>1, <5>2, <4>1 DEF Range
      <4>3. Range(kept[n]) = {lines[i] : i \in {j \in 1 .. n : lines[j].seq > mark}}
        <5>1. {j \in 1 .. n : lines[j].seq > mark} = {j \in 1 .. n - 1 :
                                                       lines[j].seq > mark} \cup {n}
          BY <3>4, <3>6
        <5> QED
          BY <4>2, <3>1, <5>1
      <4>4. ASSUME Ordered(lines) PROVE Ordered(kept[n])
        <5>1. \A i \in DOMAIN K : K[i].seq < lines[n].seq
          <6> SUFFICES ASSUME NEW i \in DOMAIN K PROVE K[i].seq < lines[n].seq
            OBVIOUS
          <6>1. PICK j \in 1 .. n - 1 : K[i] = lines[j]
            BY <3>1 DEF Range
          <6>2. j \in DOMAIN lines /\ j < n
            BY <3>2, <6>1 DEF L
          <6> QED
            BY <6>1, <6>2, <3>2, <4>4 DEF Ordered
        <5>2. Ordered(K)
          BY <3>1, <4>4
        <5>3. K \in Seq(Events) /\ Len(K) \in Nat /\ DOMAIN K = 1 .. Len(K)
          BY <3>1
        <5>4. DOMAIN kept[n] = 1 .. Len(K) + 1
          BY <4>1
        <5> HIDE DEF K
        <5> SUFFICES ASSUME NEW i \in DOMAIN kept[n], NEW j \in DOMAIN kept[n], i < j
                     PROVE  kept[n][i].seq < kept[n][j].seq
          BY DEF Ordered
        <5>5. i \in DOMAIN K /\ kept[n][i] = K[i]
          BY <5>3, <5>4, <4>1
        <5>6. CASE j = Len(K) + 1
          BY <5>1, <5>5, <5>6, <4>1
        <5>7. CASE j # Len(K) + 1
          <6>1. j \in DOMAIN K /\ kept[n][j] = K[j]
            BY <5>3, <5>4, <5>7, <4>1
          <6> QED
            BY <6>1, <5>2, <5>5 DEF Ordered
        <5> QED
          BY <5>6, <5>7
      <4> QED
        BY <4>1, <4>3, <4>4, <3>0
    <3> QED
      BY <3>5, <3>6
  <2> QED
    BY <2>2, <2>3
<1>5. Good(L)
  <2> HIDE DEF Good
  <2> QED
    BY <1>4, <1>0
<1>6. DOMAIN lines = 1 .. L
  BY DEF L
<1> QED
  BY <1>1, <1>5, <1>6
(***************************************************************************)
(* What the state can be.                                                  *)
(***************************************************************************)
Statuses  == {"absent", "running"} \cup Terminal
\* What a reader can take for the snapshot; the type of the writer's state, of the files,
\* and of the reader's and the reaper's.
Snapshots == [seq : Nat, status : Statuses]
WriterType ==
    /\ run \in {"new", "made", "on", "over", "exited", "killed"}
    /\ job \in Kinds \cup {"none"} /\ at \in {"free", "append", "rest", "state"}
    /\ seq \in Nat /\ status \in {"running", "completed", "interrupted"}
    /\ enabled \in BOOLEAN /\ asked \in Nat
FilesType ==
    /\ dir \in BOOLEAN /\ stream \in Seq(Events) /\ partial \in BOOLEAN
    /\ snapshot \in Snapshots /\ aged \in BOOLEAN /\ marker \in BOOLEAN
ReaderType ==
    /\ sub \in {"out", "opening", "judging", "draining", "polling", "closing", "done"}
    /\ seen \in Snapshots /\ told \in Statuses \cup {"none"}
    /\ since \in Nat /\ got \in Seq(Events) /\ opened \in Nat
    /\ reaper \in {"idle", "probe", "due"} /\ faults \in Nat
PlaneType == WriterType /\ FilesType /\ ReaderType

\* The run has reached its end, or was killed.
Gone == run \in {"over", "exited", "killed"}

\* The lock: who holds it, and what the writer says of itself meanwhile.
WriterInv ==
    /\ at # "free" => run \in {"on", "over"} /\ job # "none"
    /\ run = "over" /\ at # "free" => job = "log"
    /\ at = "state" => job # "log"
    /\ ~Gone /\ job # "done" => status = "running"
    /\ snapshot.status \in Terminal => Gone
    /\ job = "done" => at # "free"

\* A directory that is not there is empty; there is a snapshot once begin is over, or the
\* plane went off in it; and nothing is past due while begin is under way, or while a
\* reaper that found no snapshot still means to sweep.
LiveInv ==
    /\ ~dir => stream = << >> /\ snapshot = Absent /\ ~aged
    /\ dir /\ run \notin {"new", "made", "killed"} => snapshot # Absent \/ Dark
    /\ run = "new" => ~dir
    /\ run = "made" => dir
    /\ run = "on" => dir \/ Dark
    /\ run \in {"new", "made"} => ~aged /\ seq = 0
    /\ run = "on" /\ reaper = "due" => ~aged \/ Dark

\* The lines of the stream, and the resume token against them.
StreamInv ==
    /\ Ordered(stream)
    /\ \A i \in DOMAIN stream : stream[i].seq <= seq /\ (at = "rest" => stream[i].seq < seq)
    /\ since <= seq /\ (at = "rest" => since < seq)

\* What the subscriber has received, against its token.
GotInv ==
    /\ Ordered(got)
    /\ \A i \in DOMAIN got : got[i].seq <= since
    /\ \A i \in DOMAIN stream : stream[i].seq <= since => stream[i] \in Range(got)

\* What it believes of the run; and once it was told the end, no `done` is outstanding.
ReaderInv ==
    /\ seen.status \in Terminal => Gone
    /\ sub = "polling" => seen.status \notin Terminal
    /\ told \in Terminal => Gone /\ DoneDeliversAll

\* The inductive invariant.
PlaneInv == PlaneType /\ WriterInv /\ LiveInv /\ StreamInv /\ GotInv /\ ReaderInv

(***************************************************************************)
(* Two operations on the lines.                                            *)
(***************************************************************************)
\* AppendRest, and Interrupt in the middle of a line: the new line is the last one.
LEMMA AppendLine ==
    ASSUME NEW lines \in Seq(Events), NEW e \in Events
    PROVE  /\ Append(lines, e) \in Seq(Events)
           /\ DOMAIN Append(lines, e) = DOMAIN lines \cup {Len(lines) + 1}
           /\ \A i \in DOMAIN lines : i <= Len(lines) /\ Append(lines, e)[i] = lines[i]
           /\ Append(lines, e)[Len(lines) + 1] = e
  OBVIOUS

\* _drain: every line on disk has been received after it, in order and each once, and the
\* token is at the last one received.
LEMMA DeliverIs ==
    ASSUME PlaneInv, Deliver, UNCHANGED <<writer, files>>
    PROVE  /\ got' \in Seq(Events) /\ since' \in Nat
           /\ Ordered(got') /\ \A i \in DOMAIN got' : got'[i].seq <= since'
           /\ since' <= seq /\ (at = "rest" => since' < seq)
           /\ dir => \A i \in DOMAIN stream : stream[i] \in Range(got')
           /\ Range(got) \subseteq Range(got')
<1> DEFINE F == Fresh
<1>0. stream \in Seq(Events) /\ got \in Seq(Events) /\ since \in Nat /\ seq \in Nat
      /\ dir \in BOOLEAN
  BY DEF PlaneInv, PlaneType, WriterType, FilesType, ReaderType
<1>1. F \in Seq(Events) /\ Ordered(F) /\ \A i \in DOMAIN F : \E j \in DOMAIN stream :
                                              F[i] = stream[j] /\ stream[j].seq > since
  <2>1. CASE dir
    <3>1. F = Past(stream, since)
      BY <2>1 DEF Fresh
    <3>2. Ordered(stream)
      BY DEF PlaneInv, StreamInv
    <3>3. \A i \in DOMAIN F : F[i] \in Range(F)
      BY DEF Range
    <3> HIDE DEF F
    <3>4. Range(F) = {stream[i] : i \in {j \in DOMAIN stream : stream[j].seq > since}}
      BY <3>1, <1>0, PastIs
    <3>5. F \in Seq(Events) /\ Ordered(F)
      BY <3>1, <3>2, <1>0, PastIs
    <3> QED
      BY <3>3, <3>4, <3>5
  <2>2. CASE ~dir
    BY <2>2 DEF Fresh, Ordered
  <2> QED
    BY <1>0, <2>1, <2>2
<1>2. dir => \A i \in DOMAIN stream : stream[i].seq > since => stream[i] \in Range(F)
  <2> SUFFICES ASSUME dir PROVE \A i \in DOMAIN stream : stream[i].seq > since
                      => stream[i] \in Range(F)
    OBVIOUS
  <2>1. F = Past(stream, since)
    BY DEF Fresh
  <2> HIDE DEF F
  <2> QED
    BY <2>1, <1>0, PastIs
<1>3. got' = got \o F /\ since' = IF F = << >> THEN since ELSE F[Len(F)].seq
  BY DEF Deliver, Last
<1> HIDE DEF F
<1>4. F # << >> => Len(F) \in DOMAIN F /\ \A i \in DOMAIN F : i <= Len(F)
  BY <1>1
<1>5. since' \in Nat /\ since <= since' /\ since' <= seq /\ (at = "rest" => since' < seq)
  <2>1. CASE F = << >>
    BY <2>1, <1>0, <1>3 DEF PlaneInv, StreamInv
  <2>2. CASE F # << >>
    <3>1. PICK j \in DOMAIN stream : F[Len(F)] = stream[j] /\ stream[j].seq > since
      BY <2>2, <1>1, <1>4
    <3>2. stream[j] \in Events
      BY <1>0
    <3>3. stream[j].seq \in Nat
      BY <3>2 DEF Events
    <3>4. since' = stream[j].seq
      BY <2>2, <3>1, <1>3
    <3> QED
      BY <3>1, <3>3, <3>4, <1>0 DEF PlaneInv, StreamInv
  <2> QED
    BY <2>1, <2>2
<1>6. \A i \in DOMAIN F : F[i] \in Events /\ F[i].seq \in Nat /\ F[i].seq > since
      /\ F[i].seq <= since'
  <2> SUFFICES ASSUME NEW i \in DOMAIN F
               PROVE  F[i] \in Events /\ F[i].seq \in Nat /\ F[i].seq > since /\ F[i].seq <= since'
    OBVIOUS
  <2>1. F # << >> /\ F[i] \in Events /\ F[Len(F)] \in Events
    BY <1>1
  <2>2. F[i].seq \in Nat /\ F[Len(F)].seq \in Nat
    BY <2>1 DEF Events
  <2>3. i = Len(F) \/ F[i].seq < F[Len(F)].seq
    BY <2>1, <1>1, <1>4 DEF Ordered
  <2> QED
    BY <2>1, <2>2, <2>3, <1>1, <1>3
<1>7. \A i \in DOMAIN got : got[i] \in Events /\ got[i].seq \in Nat /\ got[i].seq <= since
  <2>1. \A i \in DOMAIN got : got[i] \in Events
    BY <1>0
  <2>2. \A e \in Events : e.seq \in Nat
    BY DEF Events
  <2> QED
    BY <2>1, <2>2 DEF PlaneInv, GotInv
<1>8. /\ got' \in Seq(Events) /\ Len(got') = Len(got) + Len(F)
      /\ \A i \in DOMAIN got : i \in DOMAIN got' /\ got'[i] = got[i]
      /\ \A i \in DOMAIN F : i + Len(got) \in DOMAIN got' /\ got'[i + Len(got)] = F[i]
      /\ \A i \in DOMAIN got' : i \in DOMAIN got
         \/ (i - Len(got) \in DOMAIN F /\ i = (i - Len(got)) + Len(got))
  BY <1>0, <1>1, <1>3
<1>9. \A i \in DOMAIN got' : got'[i].seq <= since'
  <2> SUFFICES ASSUME NEW i \in DOMAIN got' PROVE got'[i].seq <= since'
    OBVIOUS
  <2>1. CASE i \in DOMAIN got
    BY <2>1, <1>0, <1>5, <1>7, <1>8
  <2>2. CASE i - Len(got) \in DOMAIN F /\ i = (i - Len(got)) + Len(got)
    BY <2>2, <1>6, <1>8
  <2> QED
    BY <2>1, <2>2, <1>8
<1>10. Ordered(got')
  <2> SUFFICES ASSUME NEW i \in DOMAIN got', NEW j \in DOMAIN got', i < j
               PROVE  got'[i].seq < got'[j].seq
    BY DEF Ordered
  <2>0. i \in Nat /\ j \in Nat /\ Len(got) \in Nat /\ DOMAIN got = 1 .. Len(got)
        /\ DOMAIN F = 1 .. Len(F) /\ Len(F) \in Nat
    BY <1>0, <1>1, <1>8
  <2>1. CASE j \in DOMAIN got
    <3>1. i \in DOMAIN got
      BY <2>0, <2>1, <1>8
    <3>2. got[i].seq < got[j].seq
      BY <2>1, <3>1 DEF PlaneInv, GotInv, Ordered
    <3> QED
      BY <2>1, <3>1, <3>2, <1>8
  <2>2. CASE i \in DOMAIN got /\ j - Len(got) \in DOMAIN F /\ j = (j - Len(got)) + Len(got)
    <3>1. got'[i] = got[i] /\ got[i].seq \in Nat /\ got[i].seq <= since
      BY <2>2, <1>7, <1>8
    <3>2. got'[j].seq \in Nat /\ got'[j].seq > since
      BY <2>2, <1>6, <1>8
    <3> QED
      BY <3>1, <3>2, <1>0
  <2>3. CASE i - Len(got) \in DOMAIN F /\ i = (i - Len(got)) + Len(got)
             /\ j - Len(got) \in DOMAIN F /\ j = (j - Len(got)) + Len(got)
    <3>1. i - Len(got) < j - Len(got)
      BY <2>0
    <3>2. F[i - Len(got)].seq < F[j - Len(got)].seq
      BY <2>3, <3>1, <1>1 DEF Ordered
    <3> QED
      BY <2>3, <3>2, <1>8
  <2> QED
    BY <2>0, <2>1, <2>2, <2>3, <1>8
<1>11. Range(got) \subseteq Range(got') /\ Range(F) \subseteq Range(got')
  BY <1>8 DEF Range
<1>12. dir => \A i \in DOMAIN stream : stream[i] \in Range(got')
  <2> SUFFICES ASSUME dir, NEW i \in DOMAIN stream PROVE stream[i] \in Range(got')
    OBVIOUS
  <2>1. stream[i] \in Events
    BY <1>0
  <2>2. stream[i].seq \in Nat
    BY <2>1 DEF Events
  <2>3. stream[i].seq > since \/ stream[i].seq <= since
    BY <2>2, <1>0
  <2>4. stream[i].seq <= since => stream[i] \in Range(got)
    BY DEF PlaneInv, GotInv
  <2> QED
    BY <2>3, <2>4, <1>2, <1>11
<1> QED
  BY <1>5, <1>8, <1>9, <1>10, <1>11, <1>12

(***************************************************************************)
(* The inductive invariant, conjunct by conjunct.  A conjunct is disturbed *)
(* only by an action that changes one of its variables.                    *)
(***************************************************************************)
LEMMA PlaneInitial == PlaneInit => PlaneInv
<1> SUFFICES ASSUME PlaneInit PROVE PlaneInv
  OBVIOUS
<1>1. << >> \in Seq(Events)
  OBVIOUS
<1>2. PlaneType
  BY <1>1 DEF PlaneInit, PlaneType, WriterType, FilesType, ReaderType, Snapshots, Statuses, Absent
<1>3. WriterInv /\ LiveInv
  BY DEF PlaneInit, WriterInv, LiveInv, Gone, Absent, Terminal
<1>4. StreamInv /\ GotInv /\ ReaderInv
  BY DEF PlaneInit, StreamInv, GotInv, ReaderInv, Gone, Absent, Terminal, Ordered
<1> QED
  BY <1>2, <1>3, <1>4 DEF PlaneInv

\* The writer's variables keep their types.
LEMMA WriterTypeStep == PlaneInv /\ [PlaneNext]_planeVars => WriterType'
<1> SUFFICES ASSUME PlaneInv, [PlaneNext]_planeVars PROVE WriterType'
  OBVIOUS
<1> USE DEF PlaneInv, PlaneType, WriterType
<1>1. ASSUME UNCHANGED writer PROVE WriterType'
  BY <1>1 DEF writer
<1>2. ASSUME NEW kind \in Kinds, Begin(kind) PROVE WriterType'
  BY <1>2 DEF Begin
<1>3. CASE MakeDirectory \/ FirstSnapshot \/ SkipAppend \/ AppendPart \/ AppendRest
  BY <1>3 DEF MakeDirectory, FirstSnapshot, SkipAppend, AppendPart, AppendRest, Unlock
<1>4. CASE WriteState \/ Exit \/ Kill
  BY <1>4 DEF WriteState, Exit, Kill, Unlock
<1>5. CASE WriteFails
  <2>1. run' \in {"new", "made", "on", "over", "exited", "killed"} /\ seq' \in Nat
    BY <1>5 DEF WriteFails, Unlock
  <2>2. job' = "none" /\ at' = "free" /\ status' = status /\ asked' = asked
    BY <1>5 DEF WriteFails, Unlock
  <2>3. enabled' = FALSE
    BY <1>5 DEF WriteFails
  <2> QED
    BY <2>1, <2>2, <2>3
<1>6. CASE Interrupt
  BY <1>6 DEF Interrupt
<1>7. CASE BeginFails
  <2>1. /\ run' = "on" /\ UNCHANGED <<job, at, seq, status, asked>>
    BY <1>7 DEF BeginFails
  <2>2. enabled' = FALSE
    BY <1>7 DEF BeginFails
  <2> QED
    BY <2>1, <2>2
<1> QED
  BY <1>1, <1>2, <1>3, <1>4, <1>5, <1>6, <1>7 DEF PlaneNext, Write, Poll, Reap, planeVars, Look,
      Judge, Drain, LastDrain, Open, Disconnect, Expire, RequestCancel, Scan, Probe, Sweep,
      GracePasses

\* The files keep their types.
LEMMA FilesTypeStep == PlaneInv /\ [PlaneNext]_planeVars => FilesType'
<1> SUFFICES ASSUME PlaneInv, [PlaneNext]_planeVars PROVE FilesType'
  OBVIOUS
<1> USE DEF PlaneInv, PlaneType, FilesType
<1>1. ASSUME UNCHANGED files PROVE FilesType'
  BY <1>1 DEF files
<1>2. /\ [seq |-> 0, status |-> "running"] \in Snapshots /\ Absent \in Snapshots
      /\ [seq |-> seq, status |-> status] \in Snapshots /\ << >> \in Seq(Events)
  BY DEF Snapshots, Statuses, Terminal, Absent, WriterType
<1>3. CASE MakeDirectory \/ FirstSnapshot \/ BeginFails \/ AppendPart \/ WriteState
  BY <1>2, <1>3 DEF MakeDirectory, FirstSnapshot, BeginFails, AppendPart, WriteState
<1>4. CASE AppendRest \/ Interrupt
  <2>1. at = "rest" => [seq |-> seq, kind |-> job] \in Events
    BY DEF Events, WriterType, WriterInv
  <2>2. at = "rest" => Append(stream, [seq |-> seq, kind |-> job]) \in Seq(Events)
    BY <2>1
  <2> QED
    BY <1>4, <2>2 DEF AppendRest, Interrupt
<1>5. CASE RequestCancel \/ Sweep \/ GracePasses
  BY <1>1, <1>2, <1>5 DEF RequestCancel, Sweep, GracePasses
<1> QED
  BY <1>1, <1>3, <1>4, <1>5 DEF PlaneNext, Write, Poll, Reap, planeVars, Begin, SkipAppend,
     WriteFails, Exit, Kill, Look, Judge, Drain, LastDrain, Open, Disconnect, Expire, Scan, Probe

\* The subscriber's and the reaper's variables keep their types.
LEMMA ReaderTypeStep == PlaneInv /\ [PlaneNext]_planeVars => ReaderType'
<1> SUFFICES ASSUME PlaneInv, [PlaneNext]_planeVars PROVE ReaderType'
  OBVIOUS
<1>0. PlaneType
  BY DEF PlaneInv
<1> USE <1>0 DEF PlaneType, ReaderType
<1>1. ASSUME UNCHANGED <<reader, reaper>>, faults' \in Nat PROVE ReaderType'
  BY <1>1 DEF reader
<1>2. CASE Look
  BY <1>2 DEF Look, FilesType, Snapshots
<1>3. CASE Judge
  <2>1. [seen EXCEPT !.status = "abandoned"] \in Snapshots
    BY DEF Snapshots, Statuses, Terminal
  <2> QED
    BY <1>3, <2>1 DEF Judge, Judged
<1>4. CASE Drain
  <2>1. got' \in Seq(Events) /\ since' \in Nat
    BY <1>4, DeliverIs DEF Drain
  <2> QED
    BY <1>4, <2>1 DEF Drain
<1>5. CASE LastDrain
  <2>1. got' \in Seq(Events) /\ since' \in Nat
    BY <1>5, DeliverIs DEF LastDrain
  <2> QED
    BY <1>5, <2>1 DEF LastDrain, Snapshots
<1>6. CASE Open \/ Disconnect \/ Expire
  BY <1>6 DEF Open, Disconnect, Expire
<1>7. CASE Scan \/ Probe \/ Sweep
  BY <1>7 DEF Scan, Probe, Sweep, reader
<1>8. CASE BeginFails \/ WriteFails \/ Interrupt
  BY <1>1, <1>8 DEF BeginFails, WriteFails, Interrupt, Fault
<1>9. ASSUME UNCHANGED <<reader, reaper, faults>> PROVE ReaderType'
  BY <1>1, <1>9
<1> QED
  BY <1>2, <1>3, <1>4, <1>5, <1>6, <1>7, <1>8, <1>9 DEF PlaneNext, Write, Poll, Reap, planeVars,
      MakeDirectory, FirstSnapshot, BeginFails, Begin, SkipAppend, AppendPart, AppendRest,
      WriteState, Exit, Kill, RequestCancel, GracePasses

\* WriterInv is the writer's, but for the snapshot.
LEMMA WriterStep == PlaneInv /\ [PlaneNext]_planeVars => WriterInv'
<1> SUFFICES ASSUME PlaneInv, [PlaneNext]_planeVars PROVE WriterInv'
  OBVIOUS
<1> USE DEF PlaneInv, WriterInv, Gone
<1>1. ASSUME UNCHANGED <<writer, snapshot>> PROVE WriterInv'
  BY <1>1 DEF writer
<1>2. ASSUME NEW kind \in Kinds, Begin(kind) PROVE WriterInv'
  BY <1>2 DEF Begin, Kinds, files, Terminal
<1>3. CASE MakeDirectory \/ FirstSnapshot \/ BeginFails \/ Exit \/ Kill
  BY <1>3 DEF MakeDirectory, FirstSnapshot, BeginFails, Exit, Kill, Terminal, files, PlaneType,
      WriterType
<1>4. CASE SkipAppend \/ AppendPart \/ AppendRest
  BY <1>4 DEF SkipAppend, AppendPart, AppendRest, Unlock, Droppable, Skips, files
<1>5. CASE WriteState
  BY <1>5 DEF WriteState, Unlock, Terminal
<1>6. CASE WriteFails \/ Interrupt
  BY <1>6 DEF WriteFails, Interrupt, Unlock, files
<1>7. CASE Sweep
  BY <1>7 DEF Sweep, Absent, Terminal, writer, files
<1> QED
  BY <1>1, <1>2, <1>3, <1>4, <1>5, <1>6, <1>7 DEF PlaneNext, Write, Poll, Reap, planeVars, files,
     Look, Judge, Drain, LastDrain, Open, Disconnect, Expire, RequestCancel, Scan, Probe,
     GracePasses

\* LiveInv: what a sweep may find.
LEMMA LiveStep == PlaneInv /\ [PlaneNext]_planeVars => LiveInv'
<1> SUFFICES ASSUME PlaneInv, [PlaneNext]_planeVars PROVE LiveInv'
  OBVIOUS
<1>0. run \in {"new", "made", "on", "over", "exited", "killed"} /\ dir \in BOOLEAN
      /\ aged \in BOOLEAN
  BY DEF PlaneInv, PlaneType, WriterType, FilesType
<1> USE <1>0 DEF PlaneInv, LiveInv, Dark
<1>1. ASSUME UNCHANGED <<run, reaper, dir, stream, snapshot, aged, seq, enabled>>
      PROVE  LiveInv'
  BY <1>1
<1>2. [seq |-> 0, status |-> "running"] # Absent /\ [seq |-> seq, status |-> status] # Absent
  BY DEF Absent, PlaneType, WriterType
<1>3. CASE MakeDirectory
  BY <1>3 DEF MakeDirectory
<1>13. CASE FirstSnapshot
  <2>1. run = "made" /\ run' = "on" /\ dir' = dir /\ snapshot' # Absent /\ ~aged'
    BY <1>2, <1>13 DEF FirstSnapshot
  <2>2. UNCHANGED <<seq, enabled, stream>>
    BY <1>13 DEF FirstSnapshot
  <2>3. dir
    BY <2>1
  <2> QED
    BY <2>1, <2>2, <2>3
<1>12. CASE BeginFails
  <2>1. run' = "on" /\ Dark'
    BY <1>12 DEF BeginFails
  <2>2. UNCHANGED <<stream, snapshot, aged>>
    BY <1>12 DEF BeginFails
  <2>3. ~dir' => ~dir
    BY <1>12 DEF BeginFails
  <2> QED
    BY <2>1, <2>2, <2>3
<1>4. CASE SkipAppend \/ AppendPart \/ AppendRest \/ WriteFails
  BY <1>4 DEF SkipAppend, AppendPart, AppendRest, WriteFails, Skips, Unlock, WriterInv, files
<1>5. CASE WriteState
  BY <1>2, <1>5 DEF WriteState, Unlock, WriterInv
<1>6. CASE Interrupt
  BY <1>6 DEF Interrupt, Skips, WriterInv
<1>7. CASE Exit \/ Kill
  BY <1>7 DEF Exit, Kill, files
<1>8. CASE Scan
  BY <1>8 DEF Scan, WriterInv, Gone, writer, files
<1>9. CASE Probe
  BY <1>9 DEF Probe, Alive, writer, files
<1>10. CASE Sweep
  BY <1>10 DEF Sweep, writer, files
<1>11. CASE GracePasses
  BY <1>11 DEF GracePasses, writer
<1> QED
  BY <1>1, <1>3, <1>4, <1>5, <1>6, <1>7, <1>8, <1>9, <1>10, <1>11,
     <1>12, <1>13 DEF PlaneNext, Write, Poll, Reap, planeVars, writer, files, Begin, Look,
     Judge, Drain, LastDrain, Open, Disconnect,
     Expire, RequestCancel

\* StreamInv: the writer's counter is ahead of everything on disk and of the token.
LEMMA StreamStep == PlaneInv /\ [PlaneNext]_planeVars => StreamInv'
<1> SUFFICES ASSUME PlaneInv, [PlaneNext]_planeVars PROVE StreamInv'
  OBVIOUS
<1>0. /\ seq \in Nat /\ since \in Nat /\ stream \in Seq(Events)
      /\ \A i \in DOMAIN stream : stream[i] \in Events /\ stream[i].seq \in Nat
  <2>1. seq \in Nat /\ since \in Nat /\ stream \in Seq(Events)
    BY DEF PlaneInv, PlaneType, WriterType, FilesType, ReaderType
  <2>2. \A i \in DOMAIN stream : stream[i] \in Events
    BY <2>1
  <2>3. \A e \in Events : e.seq \in Nat
    BY DEF Events
  <2> QED
    BY <2>1, <2>2, <2>3
<1> USE <1>0 DEF PlaneInv, StreamInv
<1>1. ASSUME UNCHANGED <<seq, stream, since>>, at' # "rest" \/ at' = at PROVE StreamInv'
  BY <1>1 DEF Ordered
<1>2. CASE AppendPart
  <2>1. seq' = seq + 1 /\ stream' = stream /\ since' = since /\ at' = "rest"
    BY <1>2 DEF AppendPart, reader
  <2>2. Ordered(stream')
    BY <2>1
  <2>3. \A i \in DOMAIN stream' : stream'[i].seq < seq'
    BY <2>1
  <2> QED
    BY <2>1, <2>2, <2>3
<1>3. ASSUME seq' \in {seq, seq + 1}, at' = "free", UNCHANGED <<stream, since>> PROVE StreamInv'
  <2>1. \A i \in DOMAIN stream' : stream'[i].seq <= seq'
    BY <1>3
  <2>2. Ordered(stream')
    BY <1>3
  <2> QED
    BY <1>3, <2>1, <2>2
<1>4. ASSUME at = "rest", at' # "rest", UNCHANGED <<seq, since>>,
             stream' = Append(stream, [seq |-> seq, kind |-> job])
      PROVE  StreamInv'
  <2> DEFINE e == [seq |-> seq, kind |-> job]
  <2>1. e \in Events /\ e.seq = seq
    BY <1>4 DEF Events, PlaneType, WriterType, WriterInv
  <2> HIDE DEF e
  <2>2. /\ DOMAIN stream' = DOMAIN stream \cup {Len(stream) + 1}
        /\ \A i \in DOMAIN stream : i <= Len(stream) /\ stream'[i] = stream[i]
        /\ stream'[Len(stream) + 1] = e
    BY <1>4, <2>1, AppendLine DEF e
  <2>3. \A i \in DOMAIN stream : i \in Nat /\ stream'[i].seq < stream'[Len(stream) + 1].seq
    BY <1>4, <2>1, <2>2
  <2>4. Ordered(stream')
    BY <2>2, <2>3 DEF Ordered
  <2>5. \A i \in DOMAIN stream' : stream'[i].seq <= seq'
    BY <1>4, <2>1, <2>2
  <2> QED
    BY <1>4, <2>4, <2>5
<1>5. CASE AppendRest
  BY <1>4, <1>5 DEF AppendRest, Unlock, reader
<1>6. CASE WriteFails
  BY <1>3, <1>6 DEF WriteFails, Unlock, reader, files
<1>7. CASE Interrupt
  BY <1>3, <1>4, <1>7 DEF Interrupt, reader
<1>8. CASE Drain \/ LastDrain
  <2>1. UNCHANGED <<writer, files>> /\ since' <= seq /\ (at = "rest" => since' < seq)
    BY <1>8, DeliverIs DEF Drain, LastDrain
  <2> QED
    BY <2>1 DEF writer, files
<1>9. CASE Sweep
  BY <1>9 DEF Sweep, Ordered, writer, reader, files
<1> QED
  BY <1>1, <1>2, <1>5, <1>6, <1>7, <1>8, <1>9 DEF PlaneNext, Write, Poll, Reap, planeVars,
      writer, files, reader, Unlock, MakeDirectory, FirstSnapshot, BeginFails, Begin,
      SkipAppend, WriteState, Exit, Kill, Look, Judge, Open, Disconnect, Expire, RequestCancel,
      Scan, Probe, GracePasses

\* GotInv: a line that reaches the disk is beyond the token.
LEMMA GotStep == PlaneInv /\ [PlaneNext]_planeVars => GotInv'
<1> SUFFICES ASSUME PlaneInv, [PlaneNext]_planeVars PROVE GotInv'
  OBVIOUS
<1>0. seq \in Nat /\ since \in Nat /\ stream \in Seq(Events)
  BY DEF PlaneInv, PlaneType, WriterType, FilesType, ReaderType
<1> USE <1>0 DEF PlaneInv, GotInv
<1>1. ASSUME UNCHANGED <<stream, since, got>> PROVE GotInv'
  BY <1>1
<1>2. ASSUME at = "rest", UNCHANGED <<since, got>>,
             stream' = Append(stream, [seq |-> seq, kind |-> job])
      PROVE  GotInv'
  <2> DEFINE e == [seq |-> seq, kind |-> job]
  <2>1. e \in Events /\ e.seq = seq /\ ~(e.seq <= since)
    BY <1>2 DEF Events, PlaneType, WriterType, WriterInv, StreamInv
  <2> HIDE DEF e
  <2>2. /\ DOMAIN stream' = DOMAIN stream \cup {Len(stream) + 1}
        /\ \A i \in DOMAIN stream : stream'[i] = stream[i]
        /\ stream'[Len(stream) + 1] = e
    BY <1>2, <2>1, AppendLine DEF e
  <2>3. \A i \in DOMAIN stream' : stream'[i].seq <= since => stream'[i] \in Range(got)
    BY <2>1, <2>2
  <2> QED
    BY <1>2, <2>3
<1>3. CASE AppendRest
  BY <1>2, <1>3 DEF AppendRest, reader
<1>4. CASE Interrupt
  BY <1>1, <1>2, <1>4 DEF Interrupt, reader
<1>5. CASE Drain \/ LastDrain
  <2>1. UNCHANGED files /\ Ordered(got') /\ \A i \in DOMAIN got' : got'[i].seq <= since'
    BY <1>5, DeliverIs DEF Drain, LastDrain
  <2>2. dir => \A i \in DOMAIN stream : stream[i] \in Range(got')
    BY <1>5, DeliverIs DEF Drain, LastDrain
  <2>3. ~dir => stream = << >>
    BY DEF LiveInv
  <2> QED
    BY <2>1, <2>2, <2>3 DEF files
<1>6. CASE Sweep
  BY <1>6 DEF Sweep, reader, files
<1> QED
  BY <1>1, <1>3, <1>4, <1>5, <1>6 DEF PlaneNext, Write, Poll, Reap, planeVars, files, reader,
      MakeDirectory, FirstSnapshot, BeginFails, Begin, SkipAppend, AppendPart, WriteState,
      WriteFails, Exit, Kill, Look, Judge, Open, Disconnect, Expire, RequestCancel, Scan, Probe,
      GracePasses

\* ReaderInv: after the final frame only records of the log may still be written.
LEMMA ReaderStep == PlaneInv /\ [PlaneNext]_planeVars => ReaderInv'
<1> SUFFICES ASSUME PlaneInv, [PlaneNext]_planeVars PROVE ReaderInv'
  OBVIOUS
<1>0. stream \in Seq(Events) /\ dir \in BOOLEAN /\ seen \in Snapshots
  BY DEF PlaneInv, PlaneType, FilesType, ReaderType
<1>1. Gone => Gone'
  <2> USE DEF Gone, PlaneInv, WriterInv, writer
  <2>1. ASSUME UNCHANGED run PROVE Gone => Gone'
    BY <2>1
  <2> QED
    BY <2>1 DEF PlaneNext, Write, Poll, Reap, planeVars, Unlock, MakeDirectory, FirstSnapshot,
        BeginFails, Begin, SkipAppend, AppendPart, AppendRest, WriteState, WriteFails,
        Interrupt, Exit, Kill, Look, Judge, Drain, LastDrain, Open, Disconnect, Expire,
        RequestCancel, Scan, Probe, Sweep, GracePasses
<1> USE <1>0 DEF PlaneInv, ReaderInv
<1>2. ASSUME UNCHANGED <<dir, stream, told, got>> PROVE told' \in Terminal => DoneDeliversAll'
  BY <1>2 DEF DoneDeliversAll
<1>3. ASSUME UNCHANGED <<sub, seen, told, got>>, told \in Terminal => DoneDeliversAll'
      PROVE  ReaderInv'
  BY <1>1, <1>3
<1>4. ASSUME at = "rest", UNCHANGED <<dir, told, got>>,
             stream' = Append(stream, [seq |-> seq, kind |-> job])
      PROVE  told \in Terminal => DoneDeliversAll'
  <2> SUFFICES ASSUME told \in Terminal, dir, NEW i \in DOMAIN stream', NEW j \in DOMAIN stream',
                      j >= i, stream'[j].kind = "done"
               PROVE  stream'[i] \in Range(got)
    BY <1>4 DEF DoneDeliversAll
  <2> DEFINE e == [seq |-> seq, kind |-> job]
  <2>1. e \in Events /\ e.kind = "log"
    BY <1>4 DEF Events, PlaneType, WriterType, WriterInv, Gone
  <2> HIDE DEF e
  <2>2. /\ DOMAIN stream' = DOMAIN stream \cup {Len(stream) + 1}
        /\ \A n \in DOMAIN stream : n <= Len(stream) /\ stream'[n] = stream[n]
        /\ stream'[Len(stream) + 1] = e
    BY <1>4, <2>1, AppendLine DEF e
  <2>3. j \in DOMAIN stream /\ j <= Len(stream) /\ stream[j].kind = "done"
    BY <2>1, <2>2
  <2>4. i \in DOMAIN stream
    BY <2>2, <2>3
  <2> QED
    BY <2>2, <2>3, <2>4 DEF DoneDeliversAll
<1>5. CASE AppendRest
  BY <1>3, <1>4, <1>5 DEF AppendRest, reader
<1>6. CASE Interrupt
  BY <1>2, <1>3, <1>4, <1>6 DEF Interrupt, reader
<1>7. CASE MakeDirectory \/ BeginFails \/ Sweep
  BY <1>3, <1>7 DEF MakeDirectory, BeginFails, Sweep, DoneDeliversAll, Gone, reader, files
<1>8. CASE Look
  BY <1>1, <1>2, <1>8 DEF Look, WriterInv, DoneDeliversAll, files
<1>9. CASE Judge
  <2>1. Judged(seen).status \in Terminal => Gone
    BY DEF Judged, Alive, Gone, PlaneType, WriterType, Snapshots
  <2> QED
    BY <1>1, <1>2, <1>9, <2>1 DEF Judge, files
<1>10. CASE Drain
  <2>1. Range(got) \subseteq Range(got')
    BY <1>10, DeliverIs DEF Drain
  <2> QED
    BY <1>1, <1>10, <2>1 DEF Drain, DoneDeliversAll, files
<1>11. CASE LastDrain
  <2>1. dir => \A i \in DOMAIN stream : stream[i] \in Range(got')
    BY <1>11, DeliverIs DEF LastDrain
  <2> QED
    BY <1>1, <1>11, <2>1 DEF LastDrain, DoneDeliversAll, files
<1>12. CASE Open \/ Disconnect \/ Expire
  BY <1>1, <1>2, <1>12 DEF Open, Disconnect, Expire, files
<1>13. ASSUME UNCHANGED <<reader, dir, stream>> PROVE ReaderInv'
  BY <1>2, <1>3, <1>13 DEF reader
<1> QED
  BY <1>5, <1>6, <1>7, <1>8, <1>9, <1>10, <1>11, <1>12, <1>13 DEF PlaneNext, Write, Poll, Reap,
     planeVars, files, FirstSnapshot, Begin, SkipAppend, AppendPart, WriteState, WriteFails, Exit,
     Kill, RequestCancel, Scan, Probe, GracePasses

(***************************************************************************)
(* The theorems.                                                           *)
(***************************************************************************)
\* The writer, the directory, the subscriber and the reaper (core/progress.py and
\* viewer/server.py) keep the strengthened invariant, whatever the bounds.
THEOREM PlaneInvariant == PlaneSpec => []PlaneInv
<1>1. PlaneInv /\ [PlaneNext]_planeVars => PlaneInv'
  BY WriterTypeStep, FilesTypeStep, ReaderTypeStep, WriterStep, LiveStep, StreamStep, GotStep,
     ReaderStep DEF PlaneInv, PlaneType
<1> QED
  BY PlaneInitial, <1>1, PTL DEF PlaneSpec

\* However many events, failed writes and reconnections there are, a subscriber of
\* _pump_events receives what the run wrote: in order, each event once, no gap behind the
\* resume token, and everything up to `done` before a final frame.
THEOREM StreamFaithful == PlaneSpec => []StreamIsFaithful
<1>1. PlaneInv => StreamIsFaithful
  <2> SUFFICES ASSUME PlaneInv PROVE StreamIsFaithful
    OBVIOUS
  <2>1. InOrderOnce /\ NothingSkipped
    BY DEF PlaneInv, GotInv, InOrderOnce, NothingSkipped, Ordered
  <2>2. DoneDeliversAll
    BY DEF PlaneInv, ReaderInv, DoneDeliversAll
  <2> QED
    BY <2>1, <2>2 DEF StreamIsFaithful
<1> QED
  BY PlaneInvariant, <1>1, PTL

\* Whatever a reaper (_scan) read of a run and however stale that is, it never deletes the
\* directory of a run that has begun and not finished, unless the plane went off in begin
\* before a snapshot could say that the run is alive.
THEOREM LiveKept == PlaneSpec => []LiveNeverSwept
<1>1. PlaneInv => LiveNeverSwept
  BY DEF PlaneInv, LiveInv, LiveNeverSwept
<1> QED
  BY PlaneInvariant, <1>1, PTL


(***************************************************************************)
(* Receipts.                                                               *)
(***************************************************************************)

USE NoKeyAssumption, NoProcAssumption, MaxAttemptsAssumption

\* A receipt a process of a type-correct state writes is a receipt.
LEMMA EntryType ==
    ASSUME TypeOK, NEW p \in Procs, pc[p] # "idle", AttemptInv,
           NEW st \in {"pending", "skipped", "success", "indeterminate"}, NEW b \in BOOLEAN,
           st = "success" => b, st \in {"pending", "skipped"} => ~b
    PROVE  Entry(p, st, b) \in Receipt
<1>1. key[p] \in Keys /\ attempt[p] \in 1 .. MaxAttempts /\ key[p] # NoKey
  BY DEF TypeOK, AttemptInv, Attempts
<1>2. attempt[p] # 0
  BY <1>1
<1> QED
  BY <1>1, <1>2 DEF Entry, Receipt, States, Attempts, NoAttempt

\* The receipt of a refused record is a receipt, whatever key it is filed under.
LEMMA RefusalType ==
    ASSUME TypeOK, NEW p \in Procs
    PROVE  Refusals(p) \subseteq Receipt
BY DEF TypeOK, Refusals, Receipt, States, NoAttempt

\* The two ways a write ends, as what they can do to the file.
LEMMA WriteEffect ==
    ASSUME NEW r, WriteLine(r) \/ WriteCut(r), text \in {"lines", "ragged", "broken"}
    PROVE  /\ receipts' = receipts \/ receipts' = receipts \union {r}
           /\ Unreadable => Unreadable'
           /\ text' \in {"lines", "ragged", "broken"}
BY DEF WriteLine, WriteCut, file, Unreadable

\* A whole line on a file of whole lines leaves it one; on a ragged one it breaks it.
LEMMA WriteLineEffect ==
    ASSUME NEW r, WriteLine(r), text \in {"lines", "ragged", "broken"}
    PROVE  r \in receipts' \/ Unreadable'
BY DEF WriteLine, Unreadable

\* A process holding the lock to write may write only the line its state prescribes.
LEMMA WritingType ==
    ASSUME TypeOK, AttemptInv, NEW p \in Procs, pc[p] # "idle", NEW r \in Writing(p)
    PROVE  r \in Receipt
<1>1. CASE pc[p] = "refusing"
  BY <1>1, RefusalType DEF Writing
<1>2. CASE pc[p] = "deciding"
  <2>1. Decision(p) \in {"pending", "skipped", "indeterminate"}
    BY DEF Decision
  <2>2. r = Entry(p, Decision(p), FALSE)
    BY <1>2 DEF Writing
  <2> QED
    BY <2>1, <2>2, EntryType
<1>3. CASE pc[p] = "settling"
  <2>1. verdict[p] \in {"success", "indeterminate"}
    BY DEF TypeOK
  <2>2. r = Entry(p, verdict[p], TRUE)
    BY <1>3 DEF Writing
  <2> QED
    BY <2>1, <2>2, EntryType
<1>4. CASE pc[p] \notin {"refusing", "deciding", "settling"}
  BY <1>4 DEF Writing
<1> QED
  BY <1>1, <1>2, <1>3, <1>4

----------------------------------------------------------------------------
(* Lines that change no verdict.                                           *)

\* A line that settles no announced attempt and claims nothing that did not happen.
Harmless(r) ==
    /\ r \in Receipt
    /\ r.state = "failed" => r.attempt = NoAttempt
    /\ r.state = "success" => <<r.attempt, r.key>> \in called
    /\ r.state = "skipped" => \E q \in receipts : q.key = r.key /\ q.state = "success"

\* Whatever a process may be writing is harmless.
LEMMA WritingHarmless ==
    ASSUME Inv, NEW p \in Procs, pc[p] # "idle", NEW r \in Writing(p)
    PROVE  Harmless(r)
<1>1. r \in Receipt
  BY WritingType DEF Inv
<1>2. CASE pc[p] = "refusing"
  <2>1. r.state = "failed" /\ r.attempt = NoAttempt
    BY <1>2 DEF Writing, Refusals
  <2> QED
    BY <1>1, <2>1 DEF Harmless
<1>3. CASE pc[p] = "deciding"
  <2>1. r = Entry(p, Decision(p), FALSE)
    BY <1>3 DEF Writing
  <2>2. r.key = key[p] /\ r.state = Decision(p)
    BY <2>1 DEF Entry
  <2>3. view[p] = receipts
    BY <1>3 DEF Inv, ViewInv
  <2>4. r.state = "skipped" => \E q \in receipts : q.key = r.key /\ q.state = "success"
    BY <2>2, <2>3 DEF Decision, Published, Of
  <2>5. r.state \in {"skipped", "indeterminate", "pending"}
    BY <2>2 DEF Decision
  <2> QED
    BY <1>1, <2>4, <2>5 DEF Harmless
<1>4. CASE pc[p] = "settling"
  <2>1. r = Entry(p, verdict[p], TRUE)
    BY <1>4 DEF Writing
  <2>2. r.key = key[p] /\ r.attempt = attempt[p] /\ r.state \in {"success", "indeterminate"}
    BY <2>1 DEF Entry, Inv, TypeOK
  <2>3. <<attempt[p], key[p]>> \in called
    BY <1>4 DEF Inv, CallInv, AfterCall
  <2> QED
    BY <1>1, <2>2, <2>3 DEF Harmless
<1>5. CASE pc[p] \notin {"refusing", "deciding", "settling"}
  BY <1>5 DEF Writing
<1> QED
  BY <1>2, <1>3, <1>4, <1>5

\* Writing such a line, whole or cut, and ending the attempt.
LEMMA WriteAndLeave ==
    ASSUME Inv, NEW p \in Procs, pc[p] \in Critical,
           NEW r, Harmless(r), WriteLine(r) \/ WriteCut(r),
           holder' = NoProc, pc' = [pc EXCEPT ![p] = "idle"],
           UNCHANGED <<local, started, called>>
    PROVE  Inv'
<1>1. /\ receipts' = receipts \/ receipts' = receipts \union {r}
      /\ Unreadable => Unreadable'
      /\ text' \in {"lines", "ragged", "broken"}
  BY WriteEffect DEF Inv, TypeOK
<1>2. holder = p
  BY DEF Inv, LockInv
<1>3. \A q \in Procs : q # p => pc'[q] = pc[q] /\ pc[q] \notin Critical
  BY <1>2 DEF Inv, LockInv, TypeOK
<1>4. pc'[p] = "idle"
  BY DEF Inv, TypeOK
<1>5. /\ key' = key /\ attempt' = attempt /\ view' = view /\ verdict' = verdict
      /\ started' = started /\ called' = called
  BY DEF local
<1>6. TypeOK'
  <2>1. receipts' \subseteq Receipt
    BY <1>1 DEF Harmless, Inv, TypeOK
  <2> QED
    BY <1>1, <1>5, <2>1 DEF Inv, TypeOK
<1>7. LockInv'
  <2>1. p \notin {NoProc} /\ "idle" \notin Critical
    BY DEF Critical
  <2> QED
    BY <1>3, <1>4, <2>1 DEF LockInv
<1>8. ViewInv'
  BY <1>3, <1>4 DEF ViewInv, Critical
<1>9. AttemptInv'
  BY <1>3, <1>4, <1>5 DEF Inv, AttemptInv
<1>10. ReservationInv'
  BY <1>1, <1>3, <1>4, <1>5 DEF Inv, ReservationInv, Announced
<1>11. CallInv'
  BY <1>3, <1>4, <1>5 DEF Inv, CallInv, AfterCall
<1>12. FailedInv'
  BY <1>1 DEF Inv, FailedInv, Harmless
<1>13. CallsAreAnnounced'
  BY <1>1, <1>5 DEF Inv, CallsAreAnnounced, Announced
<1>14. AtMostOnce'
  BY <1>3, <1>4, <1>5 DEF Inv, AtMostOnce
<1>15. ReceiptsAreTrue'
  BY <1>1, <1>5 DEF Inv, ReceiptsAreTrue, Harmless
<1> QED
  BY <1>6, <1>7, <1>8, <1>9, <1>10, <1>11, <1>12, <1>13, <1>14, <1>15 DEF Inv

\* Ending the attempt without touching the file.
LEMMA LeaveQuietly ==
    ASSUME Inv, NEW p \in Procs, UNCHANGED file,
           holder' = IF holder = p THEN NoProc ELSE holder,
           pc' = [pc EXCEPT ![p] = "idle"], UNCHANGED <<local, started, called>>
    PROVE  Inv'
<1>1. \A q \in Procs : q # p => pc'[q] = pc[q]
  BY DEF Inv, TypeOK
<1>2. pc'[p] = "idle"
  BY DEF Inv, TypeOK
<1>3. /\ key' = key /\ attempt' = attempt /\ view' = view /\ verdict' = verdict
      /\ started' = started /\ called' = called /\ receipts' = receipts /\ text' = text
  BY DEF local, file
<1>4. TypeOK'
  BY <1>3 DEF Inv, TypeOK
<1>5. LockInv'
  <2>1. "idle" \notin Critical /\ p # NoProc
    BY DEF Critical
  <2> QED
    BY <1>1, <1>2, <2>1 DEF Inv, LockInv
<1>6. ViewInv'
  BY <1>1, <1>2, <1>3 DEF Inv, ViewInv, Unreadable
<1>7. AttemptInv'
  BY <1>1, <1>2, <1>3 DEF Inv, AttemptInv
<1>8. ReservationInv'
  BY <1>1, <1>2, <1>3 DEF Inv, ReservationInv, Announced, Unreadable
<1>9. CallInv'
  BY <1>1, <1>2, <1>3 DEF Inv, CallInv, AfterCall
<1>10. FailedInv' /\ CallsAreAnnounced' /\ ReceiptsAreTrue'
  BY <1>3 DEF Inv, FailedInv, CallsAreAnnounced, Announced, Unreadable, ReceiptsAreTrue
<1>11. AtMostOnce'
  BY <1>1, <1>2, <1>3 DEF Inv, AtMostOnce
<1> QED
  BY <1>4, <1>5, <1>6, <1>7, <1>8, <1>9, <1>10, <1>11 DEF Inv

----------------------------------------------------------------------------
(* The other steps.                                                        *)

\* Taking the lock to read or to write.
LEMMA TakeLock ==
    ASSUME Inv, NEW p \in Procs, NEW w, Acquire(p), Goto(p, w),
           \/ pc[p] = "refuse" /\ w = "refusing"
           \/ pc[p] = "begin" /\ w = "reading"
           \/ pc[p] = "settle" /\ w = "settling",
           UNCHANGED <<local, file, started, called>>
    PROVE  Inv'
<1>1. /\ pc'[p] = w /\ \A q \in Procs : q # p => pc'[q] = pc[q] /\ pc[q] \notin Critical
      /\ holder' = p
  BY DEF Inv, LockInv, TypeOK, Acquire, Goto
<1>2. /\ key' = key /\ attempt' = attempt /\ view' = view /\ verdict' = verdict
      /\ started' = started /\ called' = called /\ receipts' = receipts /\ text' = text
  BY DEF local, file
<1>3. w \in Critical /\ w \notin {"idle", "deciding", "reserved"}
  BY DEF Critical
<1>4. TypeOK'
  BY <1>1, <1>2 DEF Inv, TypeOK, Goto
<1>5. LockInv'
  BY <1>1, <1>3 DEF LockInv
<1>6. ViewInv'
  BY <1>1, <1>2, <1>3 DEF Inv, ViewInv, Unreadable
<1>7. AttemptInv'
  BY <1>1, <1>2, <1>3 DEF Inv, AttemptInv
<1>8. ReservationInv'
  BY <1>1, <1>2, <1>3 DEF Inv, ReservationInv, Announced, Unreadable
<1>9. CallInv'
  BY <1>1, <1>2 DEF Inv, CallInv, AfterCall
<1>10. FailedInv' /\ CallsAreAnnounced' /\ ReceiptsAreTrue'
  BY <1>2 DEF Inv, FailedInv, CallsAreAnnounced, Announced, Unreadable, ReceiptsAreTrue
<1>11. AtMostOnce'
  BY <1>1, <1>2, <1>3 DEF Inv, AtMostOnce
<1> QED
  BY <1>4, <1>5, <1>6, <1>7, <1>8, <1>9, <1>10, <1>11 DEF Inv

\* A new attempt has an id of its own, and nothing claims its key yet.
LEMMA StartStep ==
    ASSUME Inv, NEW p \in Procs, Start(p)
    PROVE  Inv'
<1>1. pc[p] = "idle" /\ pc'[p] \in {"begin", "refuse"}
  BY DEF Start, Goto, Inv, TypeOK
<1>2. \A q \in Procs : q # p => /\ pc'[q] = pc[q] /\ key'[q] = key[q]
                               /\ attempt'[q] = attempt[q]
  BY DEF Start, Goto, Inv, TypeOK
<1>3. /\ view' = view /\ verdict' = verdict /\ holder' = holder /\ called' = called
      /\ receipts' = receipts /\ text' = text
  BY DEF Start, file
<1>4. attempt'[p] \in Attempts /\ started' \in 0 .. MaxAttempts
  BY DEF Start, Inv, TypeOK, Attempts
<1>5. TypeOK'
  BY <1>3, <1>4 DEF Inv, TypeOK, Start, Goto
<1>6. LockInv'
  BY <1>1, <1>2, <1>3 DEF Inv, LockInv, Critical
<1>7. ViewInv'
  BY <1>1, <1>2, <1>3 DEF Inv, ViewInv, Unreadable
<1>8. AttemptInv'
  BY <1>2, <1>4 DEF Inv, AttemptInv
<1>9. ReservationInv'
  BY <1>1, <1>2, <1>3 DEF Inv, ReservationInv, Announced, Unreadable
<1>10. CallInv'
  BY <1>1, <1>2, <1>3 DEF Inv, CallInv, AfterCall
<1>11. FailedInv' /\ CallsAreAnnounced' /\ ReceiptsAreTrue'
  BY <1>3 DEF Inv, FailedInv, CallsAreAnnounced, Announced, Unreadable, ReceiptsAreTrue
<1>12. AtMostOnce'
  BY <1>1, <1>2, <1>3 DEF Inv, AtMostOnce
<1> QED
  BY <1>5, <1>6, <1>7, <1>8, <1>9, <1>10, <1>11, <1>12 DEF Inv

\* What is read under the lock is what the file says, until the lock is given up.
LEMMA ReadStep ==
    ASSUME Inv, NEW p \in Procs, ReadReceipts(p)
    PROVE  Inv'
<1>1. /\ pc[p] = "reading" /\ pc'[p] = "deciding" /\ view'[p] = receipts
      /\ ~Unreadable
  BY DEF ReadReceipts, Goto, Inv, TypeOK
<1>2. \A q \in Procs : q # p => pc'[q] = pc[q] /\ view'[q] = view[q]
  BY DEF ReadReceipts, Goto, Inv, TypeOK
<1>3. /\ key' = key /\ attempt' = attempt /\ verdict' = verdict /\ holder' = holder
      /\ started' = started /\ called' = called /\ receipts' = receipts /\ text' = text
  BY DEF ReadReceipts, file
<1>4. TypeOK'
  BY <1>3 DEF Inv, TypeOK, ReadReceipts, Goto
<1>5. LockInv'
  BY <1>1, <1>2, <1>3 DEF Inv, LockInv, Critical
<1>6. ViewInv'
  BY <1>1, <1>2, <1>3 DEF Inv, ViewInv, Unreadable
<1>7. AttemptInv' /\ CallInv'
  BY <1>1, <1>2, <1>3 DEF Inv, AttemptInv, CallInv, AfterCall
<1>8. ReservationInv' /\ AtMostOnce'
  BY <1>1, <1>2, <1>3 DEF Inv, ReservationInv, Announced, Unreadable, AtMostOnce
<1>9. FailedInv' /\ CallsAreAnnounced' /\ ReceiptsAreTrue'
  BY <1>3 DEF Inv, FailedInv, CallsAreAnnounced, Announced, Unreadable, ReceiptsAreTrue
<1> QED
  BY <1>4, <1>5, <1>6, <1>7, <1>8, <1>9 DEF Inv

\* An announced attempt of a key, settled or not, stops every later one.
LEMMA AnnouncedBlocks ==
    ASSUME FailedInv, NEW c \in Attempts \X Keys, Announced(c)
    PROVE  Published(c[2], receipts) \/ InDoubt(c[2], receipts)
<1> DEFINE a == [key |-> c[2], attempt |-> c[1], state |-> "pending", called |-> FALSE]
<1>1. a \in Of(c[2], receipts) /\ a.state = "pending" /\ a.attempt = c[1]
  BY DEF Announced, Of
<1>2. CASE c[1] \notin Settled(c[2], receipts)
  BY <1>1, <1>2 DEF InDoubt
<1>3. CASE c[1] \in Settled(c[2], receipts)
  <2>1. PICK r \in Of(c[2], receipts) : /\ r.attempt = c[1]
                                        /\ r.state \in {"success", "failed", "indeterminate"}
    BY <1>3 DEF Settled
  <2>2. c[1] # NoAttempt
    BY DEF Attempts, NoAttempt
  <2>3. r.state # "failed"
    BY <2>1, <2>2 DEF FailedInv, Of
  <2> QED
    BY <2>1, <2>3 DEF Published, InDoubt
<1> QED
  BY <1>2, <1>3

\* Nothing claims the key a process finds free.
LEMMA FreeKey ==
    ASSUME Inv, NEW p \in Procs, pc[p] = "deciding", Decision(p) = "pending"
    PROVE  /\ \A c \in called : c[2] # key[p]
           /\ \A q \in Procs : pc[q] = "reserved" => key[q] # key[p]
<1>1. view[p] = receipts /\ ~Unreadable
  BY DEF Inv, ViewInv
<1>2. ~Published(key[p], receipts) /\ ~InDoubt(key[p], receipts)
  BY <1>1 DEF Decision
<1>3. ASSUME NEW c \in called
      PROVE  c[2] # key[p]
  <2>1. c \in Attempts \X Keys /\ Announced(c)
    BY <1>1 DEF Inv, TypeOK, CallsAreAnnounced
  <2> QED
    BY <1>2, <2>1, AnnouncedBlocks DEF Inv
<1>4. ASSUME NEW q \in Procs, pc[q] = "reserved"
      PROVE  key[q] # key[p]
  <2> DEFINE c == <<attempt[q], key[q]>>
  <2>1. c \in Attempts \X Keys /\ Announced(c) /\ c[2] = key[q]
    BY <1>1, <1>4 DEF Inv, TypeOK, AttemptInv, ReservationInv
  <2> QED
    BY <1>2, <2>1, AnnouncedBlocks DEF Inv
<1> QED
  BY <1>3, <1>4

\* The decision reserves a key only when its receipts leave no doubt that it is free.
LEMMA DecideStep ==
    ASSUME Inv, NEW p \in Procs, Decide(p)
    PROVE  Inv'
<1> DEFINE r == Entry(p, Decision(p), FALSE)
<1>1. pc[p] = "deciding" /\ pc[p] \in Critical /\ WriteLine(r) /\ holder' = NoProc
  BY DEF Decide, Critical, Release
<1>2. UNCHANGED <<local, started, called>>
  BY DEF Decide
<1>3. Harmless(r)
  <2>1. r \in Writing(p)
    BY <1>1 DEF Writing
  <2> QED
    BY <1>1, <2>1, WritingHarmless
<1>4. CASE Decision(p) # "pending"
  <2>1. pc' = [pc EXCEPT ![p] = "idle"]
    BY <1>4 DEF Decide, Goto
  <2> HIDE DEF r
  <2> QED
    BY <1>1, <1>2, <1>3, <2>1, WriteAndLeave
<1>5. CASE Decision(p) = "pending"
  <2>1. pc'[p] = "reserved" /\ \A q \in Procs : q # p => pc'[q] = pc[q]
    BY <1>5 DEF Decide, Goto, Inv, TypeOK
  <2>2. /\ \A c \in called : c[2] # key[p]
        /\ \A q \in Procs : pc[q] = "reserved" => key[q] # key[p]
    BY <1>1, <1>5, FreeKey
  <2>3. /\ receipts' = receipts \/ receipts' = receipts \union {r}
        /\ Unreadable => Unreadable'
        /\ text' \in {"lines", "ragged", "broken"}
        /\ r \in receipts' \/ Unreadable'
    <3> HIDE DEF r
    <3> QED
      BY <1>1, WriteEffect, WriteLineEffect DEF Inv, TypeOK
  <2>4. /\ key' = key /\ attempt' = attempt /\ view' = view /\ verdict' = verdict
        /\ started' = started /\ called' = called
    BY <1>2 DEF local
  <2>5. r = [key |-> key[p], attempt |-> attempt[p], state |-> "pending", called |-> FALSE]
    BY <1>5 DEF Entry
  <2>6. \A q \in Procs : q # p => pc[q] \notin Critical
    BY <1>1 DEF Inv, LockInv
  <2>7. TypeOK'
    <3>1. receipts' \subseteq Receipt
      BY <1>3, <2>3 DEF Harmless, Inv, TypeOK
    <3>2. pc' = [pc EXCEPT ![p] = "reserved"]
      BY <1>5 DEF Decide, Goto
    <3> QED
      BY <1>1, <2>3, <2>4, <3>1, <3>2 DEF Inv, TypeOK
  <2>8. LockInv'
    BY <1>1, <2>1, <2>6 DEF LockInv, Critical
  <2>9. ViewInv'
    BY <2>1, <2>6 DEF ViewInv, Critical
  <2>10. AttemptInv'
    BY <1>1, <2>1, <2>4 DEF Inv, AttemptInv
  <2>11. ReservationInv'
    <3>1. Announced(<<attempt[p], key[p]>>)' \/ Unreadable'
      BY <2>3, <2>4, <2>5 DEF Announced
    <3>2. ASSUME NEW q \in Procs, q # p, pc[q] = "reserved"
          PROVE  Announced(<<attempt[q], key[q]>>)' \/ Unreadable'
      BY <2>3, <2>4, <3>2 DEF Inv, ReservationInv, Announced
    <3> QED
      BY <2>1, <2>2, <2>4, <3>1, <3>2 DEF Inv, ReservationInv
  <2>12. CallInv'
    BY <2>1, <2>4 DEF Inv, CallInv, AfterCall
  <2>13. FailedInv' /\ ReceiptsAreTrue'
    BY <1>3, <2>3, <2>4 DEF Inv, FailedInv, ReceiptsAreTrue, Harmless
  <2>14. CallsAreAnnounced'
    BY <2>3, <2>4 DEF Inv, CallsAreAnnounced, Announced
  <2>15. AtMostOnce'
    BY <2>1, <2>2, <2>4 DEF Inv, AtMostOnce
  <2> QED
    BY <2>7, <2>8, <2>9, <2>10, <2>11, <2>12, <2>13, <2>14, <2>15 DEF Inv
<1> QED
  BY <1>4, <1>5

\* A call follows an announced reservation, and is the first for its key.
LEMMA CallStep ==
    ASSUME Inv, NEW p \in Procs, CallPublisher(p)
    PROVE  Inv'
<1> DEFINE c == <<attempt[p], key[p]>>
<1>1. /\ pc[p] = "reserved" /\ pc'[p] = "calling"
      /\ \A q \in Procs : q # p => pc'[q] = pc[q]
      /\ called' = called \union {c}
  BY DEF CallPublisher, Goto, Inv, TypeOK
<1>2. /\ key' = key /\ attempt' = attempt /\ view' = view /\ verdict' = verdict
      /\ started' = started /\ holder' = holder /\ receipts' = receipts /\ text' = text
  BY DEF CallPublisher, local, file
<1>3. c \in Attempts \X Keys /\ c[2] = key[p]
  BY <1>1 DEF Inv, AttemptInv, TypeOK
<1>4. Announced(c) \/ Unreadable
  BY <1>1 DEF Inv, ReservationInv
<1>5. TypeOK'
  BY <1>1, <1>2, <1>3 DEF Inv, TypeOK, CallPublisher, Goto
<1>6. LockInv'
  BY <1>1, <1>2 DEF Inv, LockInv, Critical
<1>7. ViewInv' /\ AttemptInv'
  BY <1>1, <1>2 DEF Inv, ViewInv, AttemptInv, Unreadable
<1>8. ReservationInv'
  BY <1>1, <1>2 DEF Inv, ReservationInv, Announced, Unreadable
<1>9. CallInv'
  BY <1>1, <1>2 DEF Inv, CallInv, AfterCall
<1>10. FailedInv' /\ ReceiptsAreTrue'
  BY <1>1, <1>2 DEF Inv, FailedInv, ReceiptsAreTrue
<1>11. CallsAreAnnounced'
  BY <1>1, <1>2, <1>4 DEF Inv, CallsAreAnnounced, Announced, Unreadable
<1>12. AtMostOnce'
  BY <1>1, <1>2, <1>3 DEF Inv, AtMostOnce, ReservationInv
<1> QED
  BY <1>5, <1>6, <1>7, <1>8, <1>9, <1>10, <1>11, <1>12 DEF Inv

\* What the publisher answered decides the receipt, not the call.
LEMMA ReturnStep ==
    ASSUME Inv, NEW p \in Procs, CallReturns(p)
    PROVE  Inv'
<1>1. /\ pc[p] = "calling" /\ pc'[p] = "settle"
      /\ \A q \in Procs : q # p => pc'[q] = pc[q]
  BY DEF CallReturns, Goto, Inv, TypeOK
<1>2. /\ key' = key /\ attempt' = attempt /\ view' = view /\ holder' = holder
      /\ started' = started /\ called' = called /\ receipts' = receipts /\ text' = text
  BY DEF CallReturns, file
<1>3. TypeOK'
  BY <1>2 DEF Inv, TypeOK, CallReturns, Goto
<1>4. LockInv'
  BY <1>1, <1>2 DEF Inv, LockInv, Critical
<1>5. ViewInv' /\ AttemptInv'
  BY <1>1, <1>2 DEF Inv, ViewInv, AttemptInv, Unreadable
<1>6. ReservationInv' /\ AtMostOnce'
  BY <1>1, <1>2 DEF Inv, ReservationInv, Announced, Unreadable, AtMostOnce
<1>7. CallInv'
  BY <1>1, <1>2 DEF Inv, CallInv, AfterCall
<1>8. FailedInv' /\ CallsAreAnnounced' /\ ReceiptsAreTrue'
  BY <1>2 DEF Inv, FailedInv, CallsAreAnnounced, Announced, Unreadable, ReceiptsAreTrue
<1> QED
  BY <1>3, <1>4, <1>5, <1>6, <1>7, <1>8 DEF Inv

\* A process that dies leaves at most one harmless line, whole or cut, and frees its lock.
LEMMA CrashStep ==
    ASSUME Inv, NEW p \in Procs, Crash(p)
    PROVE  Inv'
<1>1. /\ pc[p] # "idle" /\ pc' = [pc EXCEPT ![p] = "idle"]
      /\ holder' = (IF holder = p THEN NoProc ELSE holder)
      /\ UNCHANGED <<local, started, called>>
  BY DEF Crash, Goto
<1>2. CASE UNCHANGED file
  BY <1>1, <1>2, LeaveQuietly
<1>3. CASE \E r \in Writing(p) : WriteLine(r) \/ WriteCut(r)
  <2>1. PICK r \in Writing(p) : WriteLine(r) \/ WriteCut(r)
    BY <1>3
  <2>2. Harmless(r)
    BY <1>1, WritingHarmless
  <2>3. pc[p] \in {"refusing", "deciding", "settling"}
    BY <2>1 DEF Writing
  <2>4. pc[p] \in Critical /\ holder = p
    BY <2>3 DEF Critical, Inv, LockInv
  <2> QED
    BY <1>1, <2>1, <2>2, <2>4, WriteAndLeave
<1> QED
  BY <1>2, <1>3 DEF Crash

----------------------------------------------------------------------------
(* The theorems.                                                           *)

\* Before the first attempt the file is empty and nobody has called.
LEMMA InitInv == Init => Inv
<1> SUFFICES ASSUME Init PROVE Inv
  OBVIOUS
<1>1. TypeOK
  BY DEF Init, TypeOK, NoAttempt
<1>2. LockInv /\ ViewInv /\ AttemptInv /\ ReservationInv /\ CallInv
  BY DEF Init, LockInv, ViewInv, AttemptInv, ReservationInv, CallInv, Critical, AfterCall
<1>3. FailedInv /\ CallsAreAnnounced /\ AtMostOnce /\ ReceiptsAreTrue
  BY DEF Init, FailedInv, CallsAreAnnounced, AtMostOnce, ReceiptsAreTrue
<1> QED
  BY <1>1, <1>2, <1>3 DEF Inv

\* Nothing in Inv looks at anything but the variables.
LEMMA StutterInv == Inv /\ UNCHANGED vars => Inv'
BY DEF vars, local, file, Inv, TypeOK, LockInv, ViewInv, AttemptInv, ReservationInv,
       CallInv, FailedInv, CallsAreAnnounced, AtMostOnce, ReceiptsAreTrue, Announced,
       Unreadable, AfterCall, Critical

\* Every step of every process preserves the invariant.
LEMMA NextInv == Inv /\ [Next]_vars => Inv'
<1> SUFFICES ASSUME Inv, [Next]_vars PROVE Inv'
  OBVIOUS
<1>1. CASE UNCHANGED vars
  BY <1>1, StutterInv
<1>2. CASE \E p \in Procs : Start(p) \/ Step(p) \/ Crash(p)
  <2>1. PICK p \in Procs : Start(p) \/ Step(p) \/ Crash(p)
    BY <1>2
  <2>2. CASE Start(p)
    BY <2>2, StartStep
  <2>3. CASE Crash(p)
    BY <2>3, CrashStep
  <2>4. CASE LockToRefuse(p)
    BY <2>4, TakeLock DEF LockToRefuse
  <2>5. CASE LockToBegin(p)
    BY <2>5, TakeLock DEF LockToBegin
  <2>6. CASE LockToSettle(p)
    BY <2>6, TakeLock DEF LockToSettle
  <2>7. CASE ReadReceipts(p)
    BY <2>7, ReadStep
  <2>8. CASE ReadFails(p)
    <3>1. holder = p
      BY <2>8 DEF ReadFails, Inv, LockInv, Critical
    <3> QED
      BY <2>8, <3>1, LeaveQuietly DEF ReadFails, Goto, Release
  <2>9. CASE Decide(p)
    BY <2>9, DecideStep
  <2>10. CASE CallPublisher(p)
    BY <2>10, CallStep
  <2>11. CASE CallReturns(p)
    BY <2>11, ReturnStep
  <2>12. CASE WriteRefusal(p)
    <3>1. PICK r \in Refusals(p) : WriteLine(r) \/ WriteCut(r)
      BY <2>12 DEF WriteRefusal
    <3>2. pc[p] = "refusing" /\ r \in Writing(p)
      BY <2>12 DEF WriteRefusal, Writing
    <3>3. Harmless(r)
      BY <3>2, WritingHarmless
    <3> QED
      BY <2>12, <3>1, <3>2, <3>3, WriteAndLeave DEF WriteRefusal, Goto, Release, Critical
  <2>13. CASE DecisionFails(p)
    <3> DEFINE r == Entry(p, Decision(p), FALSE)
    <3>1. pc[p] = "deciding" /\ r \in Writing(p)
      BY <2>13 DEF DecisionFails, Writing
    <3>2. Harmless(r)
      BY <3>1, WritingHarmless
    <3>3. WriteLine(r) \/ WriteCut(r)
      BY <2>13 DEF DecisionFails
    <3> HIDE DEF r
    <3> QED
      BY <2>13, <3>1, <3>2, <3>3, WriteAndLeave DEF DecisionFails, Goto, Release, Critical
  <2>14. CASE WriteVerdict(p)
    <3> DEFINE r == Entry(p, verdict[p], TRUE)
    <3>1. pc[p] = "settling" /\ r \in Writing(p)
      BY <2>14 DEF WriteVerdict, Writing
    <3>2. Harmless(r)
      BY <3>1, WritingHarmless
    <3>3. WriteLine(r) \/ WriteCut(r)
      BY <2>14 DEF WriteVerdict
    <3> HIDE DEF r
    <3> QED
      BY <2>14, <3>1, <3>2, <3>3, WriteAndLeave DEF WriteVerdict, Goto, Release, Critical
  <2> QED
    BY <2>1, <2>2, <2>3, <2>4, <2>5, <2>6, <2>7, <2>8, <2>9, <2>10, <2>11, <2>12, <2>13,
       <2>14 DEF Step
<1> QED
  BY <1>1, <1>2 DEF Next, Finished

\* Inv is an invariant of every system of publishing processes.
THEOREM Invariance == Spec => []Inv
BY InitInv, NextInv, PTL DEF Spec

\* The state of a publication keeps its type.
THEOREM TypeCorrect == Spec => []TypeOK
<1>1. Inv => TypeOK
  BY DEF Inv
<1> QED
  BY <1>1, Invariance, PTL

\* A publisher is called at most once for one idempotency key, however many processes
\* publish the same record, die on the way and leave torn lines behind.
THEOREM PublishedAtMostOnce == Spec => []AtMostOnce
<1>1. Inv => AtMostOnce
  BY DEF Inv
<1> QED
  BY <1>1, Invariance, PTL

\* Every call is announced in the file, or the file has become unreadable.
THEOREM EveryCallAnnounced == Spec => []CallsAreAnnounced
<1>1. Inv => CallsAreAnnounced
  BY DEF Inv
<1> QED
  BY <1>1, Invariance, PTL

\* No receipt says more than what happened.
THEOREM TrueReceipts == Spec => []ReceiptsAreTrue
<1>1. Inv => ReceiptsAreTrue
  BY DEF Inv
<1> QED
  BY <1>1, Invariance, PTL

----------------------------------------------------------------------------
(* The receipt file implements the abstract boundary.                      *)

\* How a step changes the receipts: one harmless line more, or none.
LEMMA ReceiptsGrow ==
    ASSUME Inv, [Next]_vars
    PROVE  receipts' = receipts \/ \E r : Harmless(r) /\ receipts' = receipts \union {r}
<1>1. CASE UNCHANGED vars
  BY <1>1 DEF vars, file
<1>2. ASSUME NEW p \in Procs, Start(p) \/ Step(p) \/ Crash(p)
      PROVE  receipts' = receipts \/ \E r : Harmless(r) /\ receipts' = receipts \union {r}
  <2>1. CASE UNCHANGED file
    BY <2>1 DEF file
  <2>2. CASE \E r \in Writing(p) : WriteLine(r) \/ WriteCut(r)
    <3>1. PICK r \in Writing(p) : WriteLine(r) \/ WriteCut(r)
      BY <2>2
    <3>2. pc[p] # "idle"
      BY <3>1 DEF Writing
    <3>3. Harmless(r)
      BY <3>1, <3>2, WritingHarmless
    <3> QED
      BY <3>1, <3>3, WriteEffect DEF Inv, TypeOK
  <2>3. CASE Start(p) \/ LockToRefuse(p) \/ LockToBegin(p) \/ LockToSettle(p)
             \/ ReadReceipts(p) \/ ReadFails(p) \/ CallPublisher(p) \/ CallReturns(p)
    BY <2>1, <2>3 DEF Start, LockToRefuse, LockToBegin, LockToSettle, ReadReceipts,
                     ReadFails, CallPublisher, CallReturns
  <2>4. CASE Crash(p)
    BY <2>1, <2>2, <2>4 DEF Crash
  <2>5. CASE WriteRefusal(p)
    BY <2>2, <2>5 DEF WriteRefusal, Writing
  <2>6. CASE Decide(p) \/ DecisionFails(p)
    <3>1. Entry(p, Decision(p), FALSE) \in Writing(p)
      BY <2>6 DEF Decide, DecisionFails, Writing
    <3> QED
      BY <2>2, <2>6, <3>1 DEF Decide, DecisionFails
  <2>7. CASE WriteVerdict(p)
    <3>1. Entry(p, verdict[p], TRUE) \in Writing(p)
      BY <2>7 DEF WriteVerdict, Writing
    <3> QED
      BY <2>2, <2>7, <3>1 DEF WriteVerdict
  <2> QED
    BY <1>2, <2>3, <2>4, <2>5, <2>6, <2>7 DEF Step
<1> QED
  BY <1>1, <1>2 DEF Next, Finished

\* How a step changes the calls: one more for a key that had none, and no line, or none.
LEMMA CallsGrow ==
    ASSUME Inv, [Next]_vars
    PROVE  \/ called' = called
           \/ \E p \in Procs : /\ pc[p] = "reserved"
                               /\ called' = called \union {<<attempt[p], key[p]>>}
                               /\ receipts' = receipts
<1>1. CASE UNCHANGED vars
  BY <1>1 DEF vars
<1>2. ASSUME NEW p \in Procs, Start(p) \/ Step(p) \/ Crash(p), ~CallPublisher(p)
      PROVE  called' = called
  BY <1>2 DEF Start, Step, Crash, LockToRefuse, WriteRefusal, LockToBegin, ReadReceipts,
              ReadFails, Decide, DecisionFails, CallReturns, LockToSettle, WriteVerdict
<1>3. ASSUME NEW p \in Procs, CallPublisher(p)
      PROVE  /\ pc[p] = "reserved"
             /\ called' = called \union {<<attempt[p], key[p]>>}
             /\ receipts' = receipts
  BY <1>3 DEF CallPublisher, file
<1> QED
  BY <1>1, <1>2, <1>3 DEF Next, Finished

\* Each step is a call, a confirmation, or invisible at the boundary.
LEMMA BoundaryStep ==
    ASSUME Inv, [Next]_vars
    PROVE  [Boundary!Next]_(Boundary!vars)
<1>1. CASE called' = called /\ receipts' = receipts
  BY <1>1 DEF Boundary!vars, Successes
<1>2. CASE called' = called /\ \E r : Harmless(r) /\ receipts' = receipts \union {r}
  <2>1. PICK r : Harmless(r) /\ receipts' = receipts \union {r}
    BY <1>2
  <2>2. CASE r.state # "success"
    <3>1. Successes' = Successes
      BY <2>1, <2>2 DEF Successes
    <3> QED
      BY <1>2, <3>1 DEF Boundary!vars
  <2>3. CASE r.state = "success"
    <3>1. Successes' = Successes \union {<<r.attempt, r.key>>}
      BY <2>1, <2>3 DEF Successes
    <3>2. <<r.attempt, r.key>> \in called
      BY <2>1, <2>3 DEF Harmless
    <3>3. Boundary!Confirm(<<r.attempt, r.key>>)
      BY <1>2, <3>1, <3>2 DEF Boundary!Confirm
    <3> QED
      BY <3>2, <3>3 DEF Boundary!Next
  <2> QED
    BY <2>2, <2>3
<1>3. ASSUME NEW p \in Procs, pc[p] = "reserved",
             called' = called \union {<<attempt[p], key[p]>>}, receipts' = receipts
      PROVE  Boundary!Next
  <2>1. attempt[p] \in Attempts /\ key[p] \in Keys
    BY <1>3 DEF Inv, TypeOK, AttemptInv
  <2>2. \A c \in called : c[2] # key[p]
    BY <1>3 DEF Inv, AtMostOnce
  <2>3. Boundary!Call(attempt[p], key[p])
    BY <1>3, <2>2 DEF Boundary!Call, Successes
  <2> QED
    BY <2>1, <2>3 DEF Boundary!Next
<1> QED
  BY <1>1, <1>2, <1>3, ReceiptsGrow, CallsGrow

\* The receipt file, its lock and the crashes of its writers implement the boundary.
THEOREM BoundaryImplemented == Spec => ImplementsBoundary
<1>1. Init => Boundary!Init
  BY DEF Init, Boundary!Init, Successes
<1>2. Inv /\ [Next]_vars => [Boundary!Next]_(Boundary!vars)
  BY BoundaryStep
<1> QED
  BY <1>1, <1>2, Invariance, PTL DEF Spec, ImplementsBoundary, Boundary!Spec

\* Receipts are only ever added, and no call follows the record of a success.
THEOREM EvidenceKept == Spec => AppendOnly
<1> DEFINE Kept == /\ receipts \subseteq receipts'
                   /\ \A c \in called' \ called : ~Published(c[2], receipts)
<1>1. ASSUME Inv, [Next]_vars
      PROVE  Kept
  <2>1. receipts \subseteq receipts'
    BY <1>1, ReceiptsGrow
  <2>2. ASSUME NEW c \in called' \ called
        PROVE  ~Published(c[2], receipts)
    <3>1. PICK p \in Procs : /\ pc[p] = "reserved"
                             /\ called' = called \union {<<attempt[p], key[p]>>}
      BY <1>1, <2>2, CallsGrow
    <3>2. c[2] = key[p]
      BY <2>2, <3>1
    <3>3. ASSUME NEW r \in receipts, r.key = key[p], r.state = "success"
          PROVE  FALSE
      <4>1. <<r.attempt, r.key>> \in called
        BY <1>1, <3>3 DEF Inv, ReceiptsAreTrue
      <4> QED
        BY <1>1, <3>1, <3>3, <4>1 DEF Inv, AtMostOnce
    <3> QED
      BY <3>2, <3>3 DEF Published, Of
  <2> QED
    BY <2>1, <2>2
<1>2. Inv /\ [Next]_vars => [Kept]_vars
  BY <1>1
<1> QED
  BY <1>2, Invariance, PTL DEF Spec, AppendOnly
=============================================================================
