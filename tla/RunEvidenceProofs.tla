-------------------------- MODULE RunEvidenceProofs --------------------------
(* Proofs about module RunEvidence, for every set of runs and attesters, every *)
(* length of a run and every scenario: one invariant that speaks of each       *)
(* process beside the disk, and what follows from it.                          *)
EXTENDS RunEvidence, SequenceTheorems, WellFoundedInduction, TLAPS

-----------------------------------------------------------------------------
(* Naturals. *)

(* A set that holds 0 and with each natural the next holds all of them. *)
LEMMA NatSetInduction ==
    ASSUME NEW S, 0 \in S, \A n \in Nat : n \in S => n + 1 \in S
    PROVE  Nat \subseteq S
<1> DEFINE outside == {n \in Nat : n \notin S}
<1> DEFINE less == OpToRel(<, Nat)
<1>1. IsWellFoundedOn(less, Nat)
  BY NatLessThanWellFounded
<1>2. \A x, y \in Nat : y < x => <<y, x>> \in less
  BY DEF OpToRel
<1> SUFFICES ASSUME outside # {} PROVE FALSE
  OBVIOUS
<1>3. \E x \in outside : \A y \in outside : ~ (<<y, x>> \in less)
  <2>1. outside \subseteq Nat
    OBVIOUS
  <2> HIDE DEF outside, less
  <2> QED BY <1>1, <2>1, WFMin
<1>4. PICK x \in outside : \A y \in outside : ~ (<<y, x>> \in less)
  BY <1>3
<1> HIDE DEF less
<1>5. x # 0 /\ x - 1 \in Nat /\ x - 1 < x /\ (x - 1) + 1 = x
  OBVIOUS
<1>6. x - 1 \in outside
  BY <1>5
<1> QED BY <1>2, <1>4, <1>5, <1>6

(* A set of naturals that is not empty has a least element. *)
LEMMA LeastNat ==
    ASSUME NEW S, S \subseteq Nat, S # {}
    PROVE  \E x \in S : \A y \in S : x <= y
<1> DEFINE below == {n \in Nat : \A y \in S : n <= y}
<1> SUFFICES ASSUME \A x \in S : \E y \in S : ~ (x <= y) PROVE FALSE
  OBVIOUS
<1>1. 0 \in below
  OBVIOUS
<1>2. ASSUME NEW n \in Nat, n \in below
      PROVE  n + 1 \in below
  <2>1. n \notin S
    BY <1>2
  <2>2. \A y \in S : n <= y /\ n # y /\ y \in Nat
    BY <1>2, <2>1
  <2> QED BY <2>2
<1> HIDE DEF below
<1>3. Nat \subseteq below
  BY <1>1, <1>2, NatSetInduction
<1>4. PICK x \in S : TRUE
  OBVIOUS
<1>5. x \in Nat /\ x + 1 \in below
  BY <1>3, <1>4
<1>6. \A y \in S : x + 1 <= y
  BY <1>5 DEF below
<1> QED BY <1>4, <1>5, <1>6

(* So has one that is bounded a greatest. *)
LEMMA GreatestNat ==
    ASSUME NEW b \in Nat, NEW S, S \subseteq 0 .. b, S # {}
    PROVE  Max(S) \in S /\ \A y \in S : Max(S) >= y
<1> DEFINE turned == {b - y : y \in S}
<1>1. turned \subseteq Nat /\ turned # {}
  <2>1. \A y \in S : y \in Nat /\ b - y \in Nat
    OBVIOUS
  <2>2. PICK y \in S : TRUE
    OBVIOUS
  <2>3. b - y \in turned
    BY <2>2
  <2> QED BY <2>1, <2>3
<1>2. PICK x \in turned : \A y \in turned : x <= y
  <2> HIDE DEF turned
  <2> QED BY <1>1, LeastNat
<1>3. PICK z \in S : x = b - z
  BY <1>2
<1>4. \A y \in S : z >= y
  <2> SUFFICES ASSUME NEW y \in S PROVE z >= y
    OBVIOUS
  <2>1. b - y \in turned
    OBVIOUS
  <2>2. b - z <= b - y
    BY <1>2, <1>3, <2>1
  <2> QED BY <2>2
<1> QED BY <1>4 DEF Max

(* A neutral run gives the least of the answers, which is one. *)
LEMMA MinAnswer == Min(Answer) \in Answer
<1>1. Answer \subseteq Nat /\ Answer # {}
  BY EvidenceAssumption
<1>2. \E x \in Answer : \A y \in Answer : x <= y
  BY <1>1, LeastNat
<1> QED BY <1>2 DEF Min

(* What an engine records is an answer, or what the verifier does not take. *)
LEMMA AnswersAreContent ==
    ASSUME NEW r, NEW type
    PROVE  Recordable(r, type) \subseteq Content
BY MinAnswer DEF Recordable, Content

-----------------------------------------------------------------------------
(* The events of a run. *)

KindOfEvent == [type : {"run.started", "agent.created", "task.evaluated",
                        "metrics.recorded", "tick.completed", "run.completed"},
                tick : 0 .. Ticks]

(* What the last event of the first ticks is. *)
FirstEvents == <<Kind("run.started", 0), Kind("agent.created", 0)>>

MoreEvents(f, t) == f[t - 1] \o TickEvents(t)

(* The events up to a tick are those up to the one before, and its own. *)
LEMMA UptoUnfolds ==
    /\ Upto[0] = FirstEvents
    /\ \A t \in 1 .. Ticks : Upto[t] = MoreEvents(Upto, t)
<1> DEFINE Loop(g, n) ==
             g = [t \in 0 .. n |-> IF t = 0 THEN FirstEvents ELSE MoreEvents(g, t)]
<1> DEFINE defined == {n \in Nat : \E g : Loop(g, n)}
<1>1. 0 \in defined
  <2> DEFINE g == [t \in 0 .. 0 |-> FirstEvents]
  <2>1. g = [t \in 0 .. 0 |-> IF t = 0 THEN FirstEvents ELSE MoreEvents(g, t)]
    OBVIOUS
  <2> QED BY <2>1
<1>2. ASSUME NEW n \in Nat, n \in defined
      PROVE  n + 1 \in defined
  <2>1. PICK g : Loop(g, n)
    BY <1>2
  <2> DEFINE h == [t \in 0 .. n + 1 |-> IF t = n + 1 THEN MoreEvents(g, t) ELSE g[t]]
  <2>2. ASSUME NEW t \in 0 .. n + 1
        PROVE  h[t] = IF t = 0 THEN FirstEvents ELSE MoreEvents(h, t)
    <3>1. CASE t = 0
      BY <2>1, <3>1
    <3>2. CASE t # 0
      <4>1. t - 1 \in 0 .. n /\ t - 1 # n + 1 /\ t - 1 \in 0 .. n + 1
        BY <3>2
      <4>2. h[t - 1] = g[t - 1]
        BY <4>1
      <4>3. MoreEvents(h, t) = MoreEvents(g, t)
        BY <4>2 DEF MoreEvents
      <4>4. CASE t = n + 1
        BY <3>2, <4>3, <4>4
      <4>5. CASE t # n + 1
        <5>1. t \in 0 .. n
          BY <4>5
        <5>2. g[t] = MoreEvents(g, t)
          BY <2>1, <3>2, <5>1
        <5> QED BY <3>2, <4>3, <4>5, <5>2
      <4> QED BY <4>4, <4>5
    <3> QED BY <3>1, <3>2
  <2>3. h = [t \in 0 .. n + 1 |-> h[t]]
    OBVIOUS
  <2> HIDE DEF h
  <2>4. Loop(h, n + 1)
    BY <2>2, <2>3
  <2> QED BY <2>4
<1> HIDE DEF defined
<1>3. Nat \subseteq defined
  BY <1>1, <1>2, NatSetInduction
<1>4. Ticks \in Nat
  BY EvidenceAssumption
<1>5. \E g : Loop(g, Ticks)
  BY <1>3, <1>4 DEF defined
<1>6. Loop(Upto, Ticks)
  <2>1. Upto = CHOOSE g : Loop(g, Ticks)
    BY DEF Upto, FirstEvents, MoreEvents
  <2> HIDE DEF Loop
  <2> QED BY <1>5, <2>1
<1> QED BY <1>4, <1>6

(* The events of a tick carry it. *)
LEMMA TickEventsType ==
    ASSUME NEW t \in 1 .. Ticks
    PROVE  TickEvents(t) \in Seq(KindOfEvent)
<1>1. Ticks \in Nat /\ t \in 0 .. Ticks
  BY EvidenceAssumption
<1>2. /\ Kind("task.evaluated", t) \in KindOfEvent
      /\ Kind("metrics.recorded", t) \in KindOfEvent
      /\ Kind("tick.completed", t) \in KindOfEvent
  BY <1>1 DEF Kind, KindOfEvent
<1> DEFINE a == Kind("task.evaluated", t)
<1> DEFINE b == Kind("metrics.recorded", t)
<1> DEFINE c == Kind("tick.completed", t)
<1>3. a \in KindOfEvent /\ b \in KindOfEvent /\ c \in KindOfEvent
  BY <1>2
<1> HIDE DEF a, b, c
<1>4. /\ <<a>> \o <<b>> \o <<c>> \in Seq(KindOfEvent)
      /\ <<a>> \o <<>> \o <<c>> \in Seq(KindOfEvent)
  BY <1>3
<1> QED BY <1>4 DEF TickEvents, a, b, c

(* The events of a run are kinds of events. *)
LEMMA LayoutType == Layout \in Seq(KindOfEvent) /\ Length \in Nat
<1> DEFINE typed == {t \in Nat : t <= Ticks => Upto[t] \in Seq(KindOfEvent)}
<1>1. Ticks \in Nat
  BY EvidenceAssumption
<1>2. FirstEvents \in Seq(KindOfEvent)
  <2>1. Kind("run.started", 0) \in KindOfEvent /\ Kind("agent.created", 0) \in KindOfEvent
    BY <1>1 DEF Kind, KindOfEvent
  <2> QED BY <2>1 DEF FirstEvents
<1>3. 0 \in typed
  BY <1>2, UptoUnfolds
<1>4. ASSUME NEW t \in Nat, t \in typed
      PROVE  t + 1 \in typed
  <2> SUFFICES ASSUME t + 1 <= Ticks PROVE Upto[t + 1] \in Seq(KindOfEvent)
    OBVIOUS
  <2>1. Upto[t] \in Seq(KindOfEvent) /\ t + 1 \in 1 .. Ticks /\ (t + 1) - 1 = t
    BY <1>1, <1>4
  <2>2. Upto[t + 1] = Upto[t] \o TickEvents(t + 1)
    BY <2>1, UptoUnfolds DEF MoreEvents
  <2> QED BY <2>1, <2>2, TickEventsType
<1> HIDE DEF typed
<1>5. Nat \subseteq typed
  BY <1>3, <1>4, NatSetInduction
<1>6. Upto[Ticks] \in Seq(KindOfEvent)
  BY <1>1, <1>5 DEF typed
<1>7. Kind("run.completed", Ticks) \in KindOfEvent
  BY <1>1 DEF Kind, KindOfEvent
<1> QED BY <1>6, <1>7 DEF Layout, Length

-----------------------------------------------------------------------------
(* The invariant.  It speaks of one process and the disk at a time, so that   *)
(* what a step does to the process that takes it and what it does to the      *)
(* others can be told apart.                                                  *)

Writes == {"existing", "temporary", "link", "unlink"}
Reads == {"discovery", "snapshot", "replay", "compare", "stable", "attest", "check"}
Runs == {"open", "recover", "append", "metrics", "flush", "verify", "settle", "abandon", "release"}

Place == Over \cup {"lease"} \cup Writes \cup Reads \cup Runs
After == {"none", "config", "open", "append", "flush", "attestation", "settle", "attested"}
End == {"none", "paused", "completed", "failed", "refused"}

Event == [previous : Seq(Content), answer : Content]
Row == [tick : 0 .. Ticks, of : Seq(Content)]

(* A process. *)
IsProcess(r) ==
    /\ r \in [at : Place, head : Seq(Content), metric : 0 .. Ticks, saved : 0 .. NoTick,
              job : {r.job}, end : End, blind : BOOLEAN, seen : {r.seen}]
    /\ r.job.name \in Artifact /\ r.job.next \in After

(* A directory. *)
IsDisk(d) ==
    /\ d \in [lock : {"free", "stale"} \cup Process, file : {d.file}, stray : {d.stray},
              log : Seq(Event), torn : {d.torn}, synced : {d.synced},
              rows : Seq(Row), tornRow : {d.tornRow}]
    /\ d.synced \in 0 .. Len(d.log) /\ Len(d.log) <= Length
    /\ d.file = [name \in Artifact |-> d.file[name]]

(* A process in the part of its code that the lease protects. *)
Owns(r) == r.at \in Runs \/ (r.at \in Writes /\ r.job.next # "attested")

(* One whose recorder is at the end of the log. *)
Follows(r) ==
    \/ r.at \in {"recover", "append", "metrics", "flush", "verify"}
    \/ r.at \in Writes /\ r.job.next \in {"append", "flush", "attestation", "settle"}
    \/ r.at \in {"settle", "release"} /\ r.end = "completed"
    \/ r.at = "completed"

(* One that may have appended what is not synced. *)
Appends(r) ==
    \/ r.at \in {"append", "metrics", "flush", "abandon"}
    \/ r.at \in Writes /\ r.job.next \in {"append", "flush"}

(* A summary is there, and of events that the verifier takes. *)
Summarised(d, history) ==
    d.file[Summary] = <<SummaryOf(history)>> /\ Accepted(history)

Concluded(d, history) ==
    Summarised(d, history) /\ d.file[Attestation] = <<AttestationOf(SummaryOf(history))>>

(* What is being published is right, and follows from what is there. *)
RightJob(r, d) ==
    CASE r.job.next \in {"config", "open"} -> r.job.name \in {Manifest, Config}
      [] r.job.next \in {"append", "flush"} -> r.job.name.kind = "checkpoint"
      [] r.job.next = "attestation" ->
            /\ r.job.name = Summary /\ r.job.content = SummaryOf(r.head)
            /\ Verified(r.head) /\ r.end = "completed"
      [] r.job.next = "settle" ->
            /\ r.job.name = Attestation /\ r.job.content = AttestationOf(SummaryOf(r.head))
            /\ Complete(r.head) /\ r.end = "completed" /\ Summarised(d, r.head)
      [] r.job.next = "attested" ->
            /\ r.job.name = Attestation /\ r.job.content = AttestationOf(SummaryOf(r.head))
            /\ Summarised(d, r.head)
      [] OTHER -> FALSE

(* What a process has reached or seen. *)
Reached(r, d) ==
    /\ r.at \in Writes => RightJob(r, d)
    /\ r.at = "unlink" => d.file[r.job.name] = <<r.job.content>>
    /\ r.at = "metrics" => r.head # <<>>
    /\ r.at = "settle" => r.end = "completed"
    /\ r.at = "compare" => Accepted(r.head)
    /\ r.at = "abandon" => r.end = "failed"
    /\ r.at = "release" => r.end # "none"
    /\ r.at \in {"stable", "attest", "check"} => Summarised(d, r.head)
    /\ \/ r.at \in {"settle", "completed", "attested"}
       \/ r.at = "release" /\ r.end = "completed"
       => Concluded(d, r.head)
    /\ \/ r.at \in {"settle", "completed"}
       \/ r.at = "release" /\ r.end = "completed"
       => Complete(r.head)
    /\ r.at = "completed" \/ (r.at = "release" /\ r.end = "completed") => d.synced = Len(d.log)

Local(s, p, r, d) ==
    /\ IsProcess(r)
    /\ p \in Runner => r.at \notin Reads /\ ~ (r.at \in Writes /\ r.job.next = "attested")
    /\ Owns(r) => d.lock = p
    /\ Follows(r) => r.head = History(d.log)
    /\ s.kills = 0 /\ Owns(r) /\ ~Appends(r) => d.synced = Len(d.log)
    /\ Reached(r, d)

(* The directory by itself.  Where processes are killed and power is lost the *)
(* events may go that a summary was written of.                               *)
Common(s, d) ==
    /\ IsDisk(d)
    /\ d.file[Summary] # Missing =>
          \E history \in Seq(Content) : Complete(history) /\ Summarised(d, history)
    /\ d.file[Attestation] # Missing =>
          \E history \in Seq(Content) : Complete(history) /\ Concluded(d, history)
    /\ d.file[Summary] # Missing /\ (s.kills = 0 \/ s.losses = 0) =>
          Complete(History(d.log)) /\ Summarised(d, History(d.log))
    /\ s.kills = 0 /\ (d.lock \in {"free", "stale"} \/ d.file[Summary] # Missing) =>
          d.synced = Len(d.log)

Counted(s, l) ==
    /\ l \in [kills : 0 .. s.kills, losses : 0 .. s.losses, signals : 0 .. s.signals]

EvidenceInv ==
    /\ scenario \in Scenarios
    /\ proc = [p \in Process |-> proc[p]]
    /\ \A p \in Process : Local(scenario, p, proc[p], disk)
    /\ Common(scenario, disk)
    /\ Counted(scenario, left)

-----------------------------------------------------------------------------
(* Names, histories and summaries. *)

(* Each artifact has a name of its own. *)
LEMMA Names ==
    /\ {Manifest, Config, Summary, Attestation} \subseteq Artifact
    /\ Summary # Attestation /\ {Manifest, Config} \cap {Summary, Attestation} = {}
    /\ \A name \in Artifact : name.kind = "checkpoint" => name \notin {Summary, Attestation}
    /\ \A t \in 0 .. Ticks : Checkpoint(t) \in Artifact /\ Checkpoint(t).kind = "checkpoint"
<1>1. \A a, b : Named(a, b).kind = a
  BY DEF Named
<1>2. /\ Manifest.kind = "manifest" /\ Config.kind = "config"
      /\ Summary.kind = "summary" /\ Attestation.kind = "attestation"
      /\ \A t \in 0 .. Ticks : Checkpoint(t).kind = "checkpoint"
  BY <1>1 DEF Manifest, Config, Summary, Attestation, Checkpoint
<1>3. /\ {Manifest, Config, Summary, Attestation} \subseteq Artifact
      /\ \A t \in 0 .. Ticks : Checkpoint(t) \in Artifact
  BY DEF Artifact
<1>4. /\ Summary # Attestation /\ Manifest # Summary /\ Manifest # Attestation
      /\ Config # Summary /\ Config # Attestation
  BY <1>2
<1> QED BY <1>2, <1>3, <1>4

(* A summary tells the history it is of, and an artifact its content. *)
LEMMA SummaryTells ==
    ASSUME NEW h, NEW g
    PROVE  /\ SummaryOf(h) = SummaryOf(g) => h = g
           /\ AttestationOf(SummaryOf(h)).summary = SummaryOf(h)
           /\ SummaryOf(h).eventHash = h
<1>1. SummaryOf(h).eventHash = h /\ SummaryOf(g).eventHash = g
  BY DEF SummaryOf
<1>2. AttestationOf(SummaryOf(h)).summary = SummaryOf(h)
  BY DEF AttestationOf
<1> QED BY <1>1, <1>2

(* What is there is not missing, and is what it is. *)
LEMMA Contents ==
    ASSUME NEW x, NEW y
    PROVE  <<x>> # Missing /\ (<<x>> = <<y>> => x = y) /\ <<x>>[1] = x
BY DEF Missing

(* The history of a log is as long as the log. *)
LEMMA HistoryType ==
    ASSUME NEW log \in Seq(Event)
    PROVE  History(log) \in Seq(Content) /\ Len(History(log)) = Len(log)
<1>1. Len(log) \in Nat /\ \A i \in 1 .. Len(log) : log[i].answer \in Content
  <2>1. Len(log) \in Nat /\ \A i \in 1 .. Len(log) : log[i] \in Event
    OBVIOUS
  <2>2. \A e \in Event : e.answer \in Content
    BY DEF Event
  <2> QED BY <2>1, <2>2
<1>2. History(log) \in [1 .. Len(log) -> Content]
  BY <1>1 DEF History
<1>3. History(log) \in Seq(Content)
  BY <1>1, <1>2
<1>4. DOMAIN History(log) = 1 .. Len(log)
  BY <1>2
<1> QED BY <1>1, <1>3, <1>4, LenProperties

(* An event that is appended appends its answer to the history. *)
LEMMA HistoryGrows ==
    ASSUME NEW log \in Seq(Event), NEW e \in Event
    PROVE  History(Append(log, e)) = Append(History(log), e.answer)
<1> DEFINE longer == Append(log, e)
<1>1. /\ longer \in Seq(Event) /\ Len(longer) = Len(log) + 1 /\ Len(log) \in Nat
      /\ \A i \in 1 .. Len(log) : longer[i] = log[i]
      /\ longer[Len(log) + 1] = e
  OBVIOUS
<1>2. /\ History(log) \in Seq(Content) /\ Len(History(log)) = Len(log)
      /\ History(longer) \in Seq(Content) /\ Len(History(longer)) = Len(longer)
  BY <1>1, HistoryType
<1>3. e.answer \in Content
  BY DEF Event
<1>4. \A i \in 1 .. Len(log) + 1 :
         History(longer)[i] = Append(History(log), e.answer)[i]
  <2>1. \A i \in 1 .. Len(log) + 1 : History(longer)[i] = longer[i].answer
    BY <1>1 DEF History
  <2>2. \A i \in 1 .. Len(log) : History(log)[i] = log[i].answer
    BY DEF History
  <2>3. /\ \A i \in 1 .. Len(log) : Append(History(log), e.answer)[i] = History(log)[i]
        /\ Append(History(log), e.answer)[Len(log) + 1] = e.answer
    BY <1>1, <1>2, <1>3
  <2> HIDE DEF longer
  <2>4. ASSUME NEW i \in 1 .. Len(log)
        PROVE  History(longer)[i] = Append(History(log), e.answer)[i]
    <3>1. longer[i] = log[i] /\ i \in 1 .. Len(log) + 1
      BY <1>1
    <3> QED BY <2>1, <2>2, <2>3, <3>1
  <2>5. Len(log) + 1 \in 1 .. Len(log) + 1
    BY <1>1
  <2>6. History(longer)[Len(log) + 1] = Append(History(log), e.answer)[Len(log) + 1]
    BY <1>1, <2>1, <2>3, <2>5
  <2>7. \A i \in 1 .. Len(log) + 1 : i \in 1 .. Len(log) \/ i = Len(log) + 1
    BY <1>1
  <2> QED BY <2>4, <2>6, <2>7
<1>5. Append(History(log), e.answer) \in Seq(Content)
      /\ Len(Append(History(log), e.answer)) = Len(log) + 1
  BY <1>2, <1>3
<1> HIDE DEF longer
<1>6. History(longer) = Append(History(log), e.answer)
  BY <1>1, <1>2, <1>4, <1>5, SeqEqual
<1> QED BY <1>6 DEF longer

-----------------------------------------------------------------------------
(* What a step makes of the process that takes it. *)

(* Any place of the process, with the rest as it is. *)
LEMMA ToIs ==
    ASSUME NEW r, IsProcess(r), NEW place \in Place
    PROVE  /\ IsProcess(To(r, place)) /\ To(r, place).at = place
           /\ To(r, place).head = r.head /\ To(r, place).job = r.job
           /\ To(r, place).end = r.end
BY DEF IsProcess, To

(* A process with nothing to do claims nothing. *)
LEMMA IdleIs ==
    /\ IsProcess(Idle) /\ Idle.at = "idle" /\ Idle.head = <<>> /\ Idle.end = "none"
BY EvidenceAssumption, Names DEF Idle, NoJob, NoTick, IsProcess, Place, Over, After, End

(* A process that is idle, started, or told of nothing. *)
LEMMA QuietIsLocal ==
    ASSUME NEW s, NEW p, NEW d, NEW r, IsProcess(r),
           r.at \in {"idle", "failed", "refused", "lease"}
    PROVE  Local(s, p, r, d)
BY DEF Local, Owns, Follows, Appends, Reached, Runs, Writes, Reads

(* Publication of an artifact. *)
LEMMA PublishingIs ==
    ASSUME NEW r, IsProcess(r), NEW name \in Artifact, NEW content, NEW next \in After
    PROVE  LET u == Publishing(r, name, content, next)
           IN /\ IsProcess(u) /\ u.at = "existing" /\ u.head = r.head /\ u.end = r.end
              /\ u.job = [name |-> name, content |-> content, next |-> next]
BY DEF IsProcess, Publishing, Place, Writes

(* What the catch clause leaves is in order. *)
LEMMA FailedIsLocal ==
    ASSUME NEW s, NEW p, NEW d, NEW r, Local(s, p, r, d), p \in Runner => Owns(r)
    PROVE  Local(s, p, Failed(p, r), d)
<1>1. CASE p \notin Runner
  BY <1>1, IdleIs, QuietIsLocal DEF Failed
<1>2. CASE p \in Runner
  <2> DEFINE u == [r EXCEPT !.at = "abandon", !.end = "failed", !.job = NoJob]
  <2>1. IsProcess(u) /\ u.at = "abandon" /\ u.end = "failed"
    BY Names DEF Local, IsProcess, NoJob, Place, Runs, After, End
  <2>2. d.lock = p
    BY <1>2 DEF Local
  <2>3. Failed(p, r) = u
    BY <1>2 DEF Failed
  <2> HIDE DEF u
  <2>4. Local(s, p, u, d)
    BY <2>1, <2>2 DEF Local, Owns, Follows, Appends, Reached, Runs, Writes, Reads
  <2> QED BY <2>3, <2>4
<1> QED BY <1>1, <1>2

(* What follows a publication is in order once the artifact is there. *)
LEMMA PublishedIsLocal ==
    ASSUME NEW s, NEW p, NEW d, NEW r, Local(s, p, r, d), r.at \in Writes,
           d.file[r.job.name] = <<r.job.content>>
    PROVE  Local(s, p, Published(r), d)
<1>1. IsProcess(r) /\ RightJob(r, d) /\ r.job.next \in After
  BY DEF Local, Reached, IsProcess
<1>2. CASE r.job.next = "config"
  <2> DEFINE u == Publishing(r, Config, Identity, "open")
  <2>1. Config \in Artifact /\ "open" \in After
    BY Names DEF After
  <2>2. /\ IsProcess(u) /\ u.at = "existing"
        /\ u.job = [name |-> Config, content |-> Identity, next |-> "open"]
    BY <1>1, <2>1, PublishingIs
  <2>3. Published(r) = u
    BY <1>2 DEF Published
  <2> HIDE DEF u
  <2>4. RightJob(u, d)
    BY <2>2 DEF RightJob
  <2>5. Owns(r) /\ ~Appends(r)
    BY <1>2 DEF Owns, Appends, Writes
  <2>6. Local(s, p, u, d)
    BY <2>2, <2>4, <2>5 DEF Local, Owns, Follows, Appends, Reached, Runs, Writes, Reads
  <2> QED BY <2>3, <2>6
<1>3. CASE r.job.next = "attestation"
  <2> DEFINE u == Publishing(r, Attestation, AttestationOf(r.job.content), "settle")
  <2>1. Attestation \in Artifact /\ "settle" \in After
    BY Names DEF After
  <2>2. /\ IsProcess(u) /\ u.at = "existing" /\ u.head = r.head /\ u.end = r.end
        /\ u.job = [name |-> Attestation, content |-> AttestationOf(r.job.content), next |-> "settle"]
    BY <1>1, <2>1, PublishingIs
  <2>3. Published(r) = u
    BY <1>3 DEF Published
  <2> HIDE DEF u
  <2>4. /\ r.job.name = Summary /\ r.job.content = SummaryOf(r.head)
        /\ Verified(r.head) /\ r.end = "completed"
    BY <1>1, <1>3 DEF RightJob
  <2>5. Summarised(d, r.head) /\ Complete(r.head)
    BY <2>4 DEF Summarised, Verified
  <2>6. RightJob(u, d)
    BY <2>2, <2>4, <2>5 DEF RightJob
  <2>7. Owns(r) /\ ~Appends(r) /\ Follows(r)
    BY <1>3 DEF Owns, Appends, Follows, Writes
  <2>8. Local(s, p, u, d)
    BY <2>2, <2>6, <2>7 DEF Local, Owns, Follows, Appends, Reached, Runs, Writes, Reads
  <2> QED BY <2>3, <2>8
<1>4. CASE r.job.next = "attested"
  <2> DEFINE u == [Idle EXCEPT !.at = "attested", !.head = r.head]
  <2>1. IsProcess(u) /\ u.at = "attested" /\ u.head = r.head
    BY <1>1, IdleIs DEF IsProcess, Place, Over
  <2>2. Published(r) = u
    BY <1>4 DEF Published
  <2> HIDE DEF u
  <2>3. /\ r.job.name = Attestation /\ r.job.content = AttestationOf(SummaryOf(r.head))
        /\ Summarised(d, r.head)
    BY <1>1, <1>4 DEF RightJob
  <2>4. Concluded(d, r.head)
    BY <2>3 DEF Concluded
  <2>5. Local(s, p, u, d)
    BY <2>1, <2>4 DEF Local, Owns, Follows, Appends, Reached, Runs, Writes, Reads
  <2> QED BY <2>2, <2>5
<1>5. CASE r.job.next \in {"open", "append", "flush", "settle"}
  <2> DEFINE u == [r EXCEPT !.at = r.job.next, !.job = NoJob]
  <2>1. IsProcess(u) /\ u.at = r.job.next /\ u.head = r.head /\ u.end = r.end
    BY <1>1, <1>5, Names DEF IsProcess, NoJob, Place, Runs, After
  <2>2. Published(r) = u
    BY <1>5 DEF Published
  <2> HIDE DEF u
  <2>3. Owns(r) /\ d.lock = p
    BY <1>5 DEF Owns, Local
  <2>4. CASE r.job.next = "open"
    <3>1. ~Appends(r)
      BY <2>4 DEF Appends, Writes
    <3> QED BY <2>1, <2>2, <2>3, <2>4, <3>1
            DEF Local, Owns, Follows, Appends, Reached, Runs, Writes, Reads
  <2>5. CASE r.job.next \in {"append", "flush"}
    <3>1. Follows(r)
      BY <2>5 DEF Follows
    <3> QED BY <2>1, <2>2, <2>3, <2>5, <3>1
            DEF Local, Owns, Follows, Appends, Reached, Runs, Writes, Reads
  <2>6. CASE r.job.next = "settle"
    <3>1. Follows(r) /\ ~Appends(r)
      BY <2>6 DEF Follows, Appends, Writes
    <3>2. /\ r.job.name = Attestation /\ r.job.content = AttestationOf(SummaryOf(r.head))
          /\ Complete(r.head) /\ r.end = "completed" /\ Summarised(d, r.head)
      BY <1>1, <2>6 DEF RightJob
    <3>3. Concluded(d, r.head)
      BY <3>2 DEF Concluded
    <3> QED BY <2>1, <2>2, <2>3, <2>6, <3>1, <3>2, <3>3
            DEF Local, Owns, Follows, Appends, Reached, Runs, Writes, Reads
  <2> QED BY <1>5, <2>4, <2>5, <2>6
<1>6. r.job.next # "none"
  BY <1>1 DEF RightJob
<1> QED BY <1>1, <1>2, <1>3, <1>4, <1>5, <1>6 DEF After

(* The summary that is going to be written is of the whole log. *)
LEMMA WriteSummaryIsLocal ==
    ASSUME NEW s, NEW p, NEW d, NEW r, Local(s, p, r, d), r.at \in {"recover", "verify"},
           Verified(r.head)
    PROVE  Local(s, p, WriteSummary(r, r.head), d)
<1> DEFINE v == [r EXCEPT !.end = "completed"]
<1> DEFINE u == Publishing(v, Summary, SummaryOf(r.head), "attestation")
<1>1. IsProcess(v) /\ v.head = r.head /\ v.end = "completed"
  BY DEF Local, IsProcess, End
<1>2. Summary \in Artifact /\ "attestation" \in After
  BY Names DEF After
<1> HIDE DEF v
<1>3. /\ IsProcess(u) /\ u.at = "existing" /\ u.head = r.head /\ u.end = "completed"
      /\ u.job = [name |-> Summary, content |-> SummaryOf(r.head), next |-> "attestation"]
  BY <1>1, <1>2, PublishingIs
<1>4. WriteSummary(r, r.head) = u
  BY DEF WriteSummary, v
<1> HIDE DEF u
<1>5. RightJob(u, d)
  BY <1>3 DEF RightJob
<1>6. Owns(r) /\ Follows(r) /\ ~Appends(r)
  BY DEF Owns, Follows, Appends, Runs, Writes
<1>7. Local(s, p, u, d)
  BY <1>3, <1>5, <1>6 DEF Local, Owns, Follows, Appends, Reached, Runs, Writes, Reads
<1> QED BY <1>4, <1>7

(* A checkpoint is taken of a recorder at the end of the log. *)
LEMMA EmitCheckpointIsLocal ==
    ASSUME NEW s, NEW p, NEW d, NEW r, IsProcess(r), d.lock = p, r.head = History(d.log),
           NEW t \in 0 .. Ticks, NEW next \in {"append", "flush"}
    PROVE  Local(s, p, EmitCheckpoint(r, t, next), d)
<1>1. CASE r.saved = t
  <2> DEFINE u == To(r, next)
  <2>1. next \in Place
    BY DEF Place, Runs
  <2>2. IsProcess(u) /\ u.at = next /\ u.head = r.head
    BY <2>1, ToIs
  <2>3. EmitCheckpoint(r, t, next) = u
    BY <1>1 DEF EmitCheckpoint
  <2> HIDE DEF u
  <2>4. Local(s, p, u, d)
    BY <2>2 DEF Local, Owns, Follows, Appends, Reached, Runs, Writes, Reads
  <2> QED BY <2>3, <2>4
<1>2. CASE r.saved # t
  <2> DEFINE v == [r EXCEPT !.saved = t]
  <2> DEFINE u == Publishing(v, Checkpoint(t), v.head, next)
  <2>1. IsProcess(v) /\ v.head = r.head
    BY EvidenceAssumption DEF IsProcess, NoTick
  <2>2. Checkpoint(t) \in Artifact /\ Checkpoint(t).kind = "checkpoint" /\ next \in After
    BY Names DEF After
  <2>3. EmitCheckpoint(r, t, next) = u
    BY <1>2, <2>1 DEF EmitCheckpoint
  <2> HIDE DEF v
  <2>4. /\ IsProcess(u) /\ u.at = "existing" /\ u.head = r.head
        /\ u.job = [name |-> Checkpoint(t), content |-> v.head, next |-> next]
    BY <2>1, <2>2, PublishingIs
  <2> HIDE DEF u
  <2>5. RightJob(u, d)
    BY <2>2, <2>4 DEF RightJob
  <2>6. Local(s, p, u, d)
    BY <2>4, <2>5 DEF Local, Owns, Follows, Appends, Reached, Runs, Writes, Reads
  <2> QED BY <2>3, <2>6
<1> QED BY <1>1, <1>2

-----------------------------------------------------------------------------
(* What a step makes of the other processes. *)

(* What is published stays as it is. *)
Keeps(d, e) == \A name \in Artifact : d.file[name] # Missing => e.file[name] = d.file[name]

(* Nobody is disturbed where artifacts are only added, the events stay, and   *)
(* become durable if they change in that; nor is one that has not the lease   *)
(* and is told of nothing by what happens to the events.                      *)
LEMMA OthersKeep ==
    ASSUME NEW s, NEW p, NEW r, NEW d, NEW e, Local(s, p, r, d), Keeps(d, e),
           Owns(r) => e.lock = d.lock,
           Owns(r) \/ r.at = "completed" =>
              e.log = d.log /\ (e.synced = d.synced \/ e.synced = Len(e.log))
    PROVE  Local(s, p, r, e)
<1>1. IsProcess(r) /\ r.job.name \in Artifact
  BY DEF Local, IsProcess
<1>2. Summary \in Artifact /\ Attestation \in Artifact
  BY Names
<1>3. Follows(r) => Owns(r) \/ r.at = "completed"
  BY DEF Follows, Owns, Runs, Writes
<1>4. \A history : Summarised(d, history) => Summarised(e, history)
  BY <1>2, Contents DEF Summarised, Keeps
<1>5. \A history : Concluded(d, history) => Concluded(e, history)
  BY <1>2, <1>4, Contents DEF Concluded, Keeps
<1>6. RightJob(r, d) => RightJob(r, e)
  BY <1>4 DEF RightJob
<1>7. r.at = "unlink" => e.file[r.job.name] = <<r.job.content>>
  <2> DEFINE name == r.job.name
  <2>1. r.at = "unlink" => d.file[name] = <<r.job.content>>
    BY DEF Local, Reached
  <2>2. name \in Artifact
    BY <1>1
  <2> HIDE DEF name
  <2>3. <<r.job.content>> # Missing
    BY Contents
  <2>4. r.at = "unlink" => e.file[name] = <<r.job.content>>
    BY <2>1, <2>2, <2>3 DEF Keeps
  <2> QED BY <2>4 DEF name
<1>8. r.at = "completed" \/ (r.at = "release" /\ r.end = "completed") => e.synced = Len(e.log)
  BY DEF Local, Reached, Owns, Runs
<1>9. Reached(r, e)
  BY <1>4, <1>5, <1>6, <1>7, <1>8 DEF Local, Reached
<1> QED BY <1>1, <1>3, <1>9 DEF Local

-----------------------------------------------------------------------------
(* The steps. *)

(* A step of one process that leaves the disk in order. *)
LEMMA StepInv ==
    ASSUME EvidenceInv, NEW p \in Process, NEW r, Becomes(p, r),
           scenario' = scenario, Counted(scenario, left'),
           Common(scenario, disk'), Local(scenario, p, r, disk'),
           \A q \in Process \ {p} : Local(scenario, q, proc[q], disk')
    PROVE  EvidenceInv'
<1>1. proc' = [proc EXCEPT ![p] = r] /\ proc = [q \in Process |-> proc[q]]
  BY DEF Becomes, EvidenceInv
<1>2. proc'[p] = r /\ \A q \in Process \ {p} : proc'[q] = proc[q]
  BY <1>1
<1>3. proc' = [q \in Process |-> proc'[q]]
  BY <1>1
<1>4. \A q \in Process : Local(scenario', q, proc'[q], disk')
  BY <1>2
<1> QED BY <1>3, <1>4 DEF EvidenceInv

(* One that leaves the disk alone. *)
LEMMA QuietStepInv ==
    ASSUME EvidenceInv, NEW p \in Process, NEW r, Becomes(p, r),
           UNCHANGED <<scenario, disk>>, Counted(scenario, left'),
           Local(scenario, p, r, disk)
    PROVE  EvidenceInv'
<1>1. Common(scenario, disk') /\ Local(scenario, p, r, disk')
  BY DEF EvidenceInv
<1>2. \A q \in Process \ {p} : Local(scenario, q, proc[q], disk')
  BY DEF EvidenceInv
<1> QED BY <1>1, <1>2, StepInv

(* Only one process has the lease. *)
LEMMA OneOwner ==
    ASSUME EvidenceInv, NEW p \in Process, Owns(proc[p])
    PROVE  /\ disk.lock = p /\ disk.lock \notin {"free", "stale"}
           /\ \A q \in Process \ {p} : ~ Owns(proc[q])
BY EvidenceAssumption DEF EvidenceInv, Local

(* A process is started. *)
LEMMA StartInv ==
    ASSUME EvidenceInv, NEW p \in Process, Start(p), UNCHANGED <<scenario, left>>
    PROVE  EvidenceInv'
<1> DEFINE u == To(Idle, IF p \in Runner THEN "lease" ELSE "discovery")
<1>1. Becomes(p, u) /\ UNCHANGED disk
  BY DEF Start
<1>2. IsProcess(u) /\ u.at = IF p \in Runner THEN "lease" ELSE "discovery"
  BY IdleIs, ToIs DEF Place, Reads
<1> HIDE DEF u
<1>3. Local(scenario, p, u, disk)
  BY <1>2 DEF Local, Owns, Follows, Appends, Reached, Runs, Writes, Reads
<1> QED BY <1>1, <1>3, QuietStepInv DEF EvidenceInv

(* The lease is taken of nobody. *)
LEMMA AcquireWriterLeaseInv ==
    ASSUME EvidenceInv, NEW p \in Process, AcquireWriterLease(p), UNCHANGED <<scenario, left>>
    PROVE  EvidenceInv'
<1>1. Local(scenario, p, proc[p], disk) /\ Common(scenario, disk) /\ Counted(scenario, left')
  BY DEF EvidenceInv
<1>2. CASE disk.lock # "free"
  <2>1. Becomes(p, Idle) /\ UNCHANGED disk
    BY <1>2 DEF AcquireWriterLease
  <2>2. Local(scenario, p, Idle, disk)
    BY IdleIs, QuietIsLocal
  <2> QED BY <1>1, <2>1, <2>2, QuietStepInv
<1>3. CASE disk.lock = "free"
  <2> DEFINE u == Publishing(proc[p], Manifest, Identity, "config")
  <2> DEFINE e == [disk EXCEPT !.lock = p]
  <2>1. disk' = e /\ Becomes(p, u)
    BY <1>3 DEF AcquireWriterLease
  <2>2. /\ IsDisk(e) /\ e.lock = p /\ e.file = disk.file /\ e.log = disk.log
        /\ e.synced = disk.synced
    BY <1>1 DEF Common, IsDisk
  <2>3. Manifest \in Artifact /\ "config" \in After
    BY Names DEF After
  <2>4. /\ IsProcess(u) /\ u.at = "existing"
        /\ u.job = [name |-> Manifest, content |-> Identity, next |-> "config"]
    BY <1>1, <2>3, PublishingIs DEF Local
  <2> HIDE DEF u, e
  <2>5. scenario.kills = 0 => e.synced = Len(e.log)
    BY <1>1, <1>3, <2>2 DEF Common
  <2>6. RightJob(u, e)
    BY <2>4 DEF RightJob
  <2>7. Local(scenario, p, u, e)
    BY <2>2, <2>4, <2>5, <2>6 DEF Local, Owns, Follows, Appends, Reached, Runs, Writes, Reads
  <2>8. Common(scenario, e)
    BY <1>1, <2>2, <2>5 DEF Common, Summarised, Concluded
  <2>9. ASSUME NEW q \in Process \ {p}
        PROVE  Local(scenario, q, proc[q], e)
    <3>1. Local(scenario, q, proc[q], disk)
      BY DEF EvidenceInv
    <3>2. ~ Owns(proc[q])
      BY <1>3, <3>1, EvidenceAssumption DEF Local
    <3>3. Keeps(disk, e)
      BY <2>2 DEF Keeps
    <3> QED BY <2>2, <3>1, <3>2, <3>3, OthersKeep
  <2> QED BY <1>1, <2>1, <2>7, <2>8, <2>9, StepInv
<1> QED BY <1>2, <1>3

(* The recorder is opened at the end of the log. *)
LEMMA OpenLogInv ==
    ASSUME EvidenceInv, NEW p \in Process, OpenLog(p), UNCHANGED <<scenario, left>>
    PROVE  EvidenceInv'
<1>1. Local(scenario, p, proc[p], disk) /\ Common(scenario, disk) /\ Counted(scenario, left')
  BY DEF EvidenceInv
<1>2. proc[p].at = "open" /\ UNCHANGED disk
  BY DEF OpenLog, At
<1>3. IsProcess(proc[p]) /\ IsDisk(disk)
  BY <1>1 DEF Local, Common
<1>4. Owns(proc[p]) /\ ~Appends(proc[p]) /\ disk.lock = p
  BY <1>1, <1>2 DEF Local, Owns, Appends, Runs, Writes
<1> DEFINE m == IF disk.rows = <<>> THEN 0 ELSE Last(disk.rows).tick
<1> DEFINE u == [proc[p] EXCEPT !.at = "recover", !.head = Replayed, !.metric = m]
<1> DEFINE v == [proc[p] EXCEPT !.at = "release", !.end = "refused"]
<1>5. Becomes(p, u) \/ Becomes(p, v)
  BY DEF OpenLog
<1>6. m \in 0 .. Ticks
  <2>1. CASE disk.rows = <<>>
    BY <2>1, EvidenceAssumption
  <2>2. CASE disk.rows # <<>>
    <3>1. disk.rows \in Seq(Row)
      BY <1>3 DEF IsDisk
    <3>2. Last(disk.rows) \in Row
      BY <2>2, <3>1 DEF Last
    <3> QED BY <2>2, <3>2 DEF Row
  <2> QED BY <2>1, <2>2
<1>7. Replayed \in Seq(Content)
  BY <1>3, HistoryType DEF IsDisk, Replayed
<1> HIDE DEF m
<1>8. IsProcess(u) /\ u.at = "recover" /\ u.head = History(disk.log)
  BY <1>3, <1>6, <1>7 DEF IsProcess, Place, Runs, Replayed
<1>9. IsProcess(v) /\ v.at = "release" /\ v.end = "refused"
  BY <1>3 DEF IsProcess, Place, Runs, End
<1> HIDE DEF u, v
<1>10. Local(scenario, p, u, disk)
  BY <1>1, <1>4, <1>8 DEF Local, Owns, Follows, Appends, Reached, Runs, Writes, Reads
<1>11. Local(scenario, p, v, disk)
  BY <1>1, <1>4, <1>9 DEF Local, Owns, Follows, Appends, Reached, Runs, Writes, Reads
<1> QED BY <1>1, <1>2, <1>5, <1>10, <1>11, QuietStepInv

(* What is on the disk is taken up where it ends, or the run is given up. *)
LEMMA RecoverExistingRunInv ==
    ASSUME EvidenceInv, NEW p \in Process, RecoverExistingRun(p), UNCHANGED <<scenario, left>>
    PROVE  EvidenceInv'
<1> DEFINE r == proc[p]
<1>1. Local(scenario, p, r, disk) /\ Common(scenario, disk) /\ Counted(scenario, left')
  BY DEF EvidenceInv
<1>2. r.at = "recover" /\ UNCHANGED disk
  BY DEF RecoverExistingRun, At
<1>3. IsProcess(r) /\ Owns(r) /\ Follows(r) /\ disk.lock = p /\ r.head = Replayed
  BY <1>1, <1>2 DEF Local, Owns, Follows, Runs, Replayed
<1> DEFINE u == To(r, "append")
<1> DEFINE v == [r EXCEPT !.at = "append", !.saved = LastCheckpoint,
                             !.blind = scenario.open /\ LastCheckpoint > 0]
<1>4. \/ Becomes(p, u)
      \/ Publishable(Replayed) /\ Becomes(p, WriteSummary(r, Replayed))
      \/ Resumable(Replayed) /\ Becomes(p, v)
      \/ Becomes(p, Failed(p, r))
  <2> HIDE DEF u, v
  <2>1. ~ (Publishable(Replayed) /\ Resumable(Replayed))
    BY DEF Publishable, Resumable, Verified
  <2> QED BY <2>1 DEF RecoverExistingRun, u, v
<1>5. CASE Becomes(p, u)
  <2>1. IsProcess(u) /\ u.at = "append" /\ u.head = r.head
    BY <1>3, ToIs DEF Place, Runs
  <2> HIDE DEF u
  <2>2. Local(scenario, p, u, disk)
    BY <1>3, <2>1 DEF Local, Owns, Follows, Appends, Reached, Runs, Writes, Reads, Replayed
  <2> QED BY <1>1, <1>2, <1>5, <2>2, QuietStepInv
<1>6. CASE Publishable(Replayed) /\ Becomes(p, WriteSummary(r, Replayed))
  <2>1. Verified(r.head) /\ Becomes(p, WriteSummary(r, r.head))
    BY <1>3, <1>6 DEF Publishable
  <2> HIDE DEF r
  <2>2. Local(scenario, p, WriteSummary(r, r.head), disk)
    BY <1>1, <1>2, <2>1, WriteSummaryIsLocal
  <2> QED BY <1>1, <1>2, <2>1, <2>2, QuietStepInv
<1>7. CASE Resumable(Replayed) /\ Becomes(p, v)
  <2> DEFINE there == {t \in 0 .. Ticks : disk.file[Checkpoint(t)] # Missing}
  <2>1. there \subseteq 0 .. Ticks /\ there # {} /\ Ticks \in Nat
    BY <1>7, EvidenceAssumption DEF Resumable, CheckpointMatches
  <2> HIDE DEF there
  <2>2. Max(there) \in there
    BY <2>1, GreatestNat
  <2>3. LastCheckpoint \in 0 .. Ticks
    BY <2>1, <2>2 DEF LastCheckpoint, there
  <2>4. IsProcess(v) /\ v.at = "append" /\ v.head = r.head
    <3> HIDE DEF r
    <3>1. LastCheckpoint \in 0 .. NoTick
      BY <2>1, <2>3 DEF NoTick
    <3>2. "append" \in Place
      BY DEF Place, Runs
    <3> QED BY <1>3, <3>1, <3>2 DEF IsProcess
  <2> HIDE DEF v
  <2>5. Local(scenario, p, v, disk)
    BY <1>3, <2>4 DEF Local, Owns, Follows, Appends, Reached, Runs, Writes, Reads, Replayed
  <2> QED BY <1>1, <1>2, <1>7, <2>5, QuietStepInv
<1>8. CASE Becomes(p, Failed(p, r))
  <2>1. Local(scenario, p, Failed(p, r), disk)
    BY <1>1, <1>3, FailedIsLocal
  <2> QED BY <1>1, <1>2, <1>8, <2>1, QuietStepInv
<1> QED BY <1>4, <1>5, <1>6, <1>7, <1>8

(* The event that is appended continues the history of the log. *)
LEMMA AppendedDisk ==
    ASSUME EvidenceInv, NEW p \in Process, At(p, "append"), ~Complete(proc[p].head),
           NEW a \in Content
    PROVE  LET r == [proc[p] EXCEPT !.head = Append(@, a)]
               e == [disk EXCEPT !.log = Append(@, [previous |-> proc[p].head, answer |-> a])]
           IN /\ IsProcess(r) /\ r.at = "append" /\ r.head = History(e.log)
              /\ r.saved = proc[p].saved /\ r.head # <<>>
              /\ Layout[Len(r.head)] \in KindOfEvent
              /\ Common(scenario, e) /\ e.lock = p
              /\ \A q \in Process \ {p} : Local(scenario, q, proc[q], e)
<1> DEFINE r == [proc[p] EXCEPT !.head = Append(@, a)]
<1> DEFINE event == [previous |-> proc[p].head, answer |-> a]
<1> DEFINE e == [disk EXCEPT !.log = Append(@, event)]
<1>1. Local(scenario, p, proc[p], disk) /\ Common(scenario, disk)
  BY DEF EvidenceInv
<1>2. /\ IsProcess(proc[p]) /\ Owns(proc[p]) /\ disk.lock = p /\ proc[p].at = "append"
      /\ proc[p].head = History(disk.log) /\ IsDisk(disk)
  BY <1>1 DEF Local, Owns, Follows, Runs, At, Common
<1>3. disk.log \in Seq(Event) /\ Len(disk.log) \in Nat /\ Len(disk.log) <= Length
  BY <1>2 DEF IsDisk
<1>4. event \in Event /\ event.answer = a
  BY <1>2 DEF Event, IsProcess
<1> HIDE DEF event
<1>5. History(Append(disk.log, event)) = Append(History(disk.log), a)
  BY <1>3, <1>4, HistoryGrows
<1>6. History(disk.log) \in Seq(Content) /\ Len(History(disk.log)) = Len(disk.log)
  BY <1>3, HistoryType
<1>7. Len(disk.log) < Length /\ Length \in Nat
  BY <1>2, <1>3, <1>6, LayoutType DEF Complete
<1>8. /\ IsProcess(r) /\ r.at = "append" /\ r.head = Append(History(disk.log), a)
      /\ r.saved = proc[p].saved
  <2>1. Append(proc[p].head, a) \in Seq(Content) /\ Append(proc[p].head, a) = Append(History(disk.log), a)
    BY <1>2, <1>6
  <2> QED BY <1>2, <2>1 DEF IsProcess
<1>9. Len(r.head) = Len(disk.log) + 1 /\ r.head # <<>>
  <2> HIDE DEF r
  <2>1. Len(Append(History(disk.log), a)) = Len(History(disk.log)) + 1
    BY <1>6
  <2>2. Len(r.head) = Len(disk.log) + 1
    BY <1>6, <1>8, <2>1
  <2>3. Len(r.head) # Len(<<>>)
    BY <1>3, <2>2
  <2> QED BY <2>2, <2>3
<1>10. Layout[Len(r.head)] \in KindOfEvent
  BY <1>3, <1>7, <1>9, LayoutType DEF Length
<1>11. /\ e.log = Append(disk.log, event) /\ e.lock = p /\ e.file = disk.file
       /\ e.synced = disk.synced
  BY <1>2 DEF IsDisk
<1>12. IsDisk(e)
  <2>1. Append(disk.log, event) \in Seq(Event) /\ Len(Append(disk.log, event)) = Len(disk.log) + 1
    BY <1>3, <1>4
  <2>2. Len(disk.log) + 1 <= Length /\ disk.synced \in 0 .. Len(disk.log) + 1
    BY <1>2, <1>3, <1>7 DEF IsDisk
  <2>3. e \in [lock : {"free", "stale"} \cup Process, file : {e.file}, stray : {e.stray},
               log : Seq(Event), torn : {e.torn}, synced : {e.synced},
               rows : Seq(Row), tornRow : {e.tornRow}]
    BY <1>2, <2>1 DEF IsDisk
  <2>4. e.file = [name \in Artifact |-> e.file[name]]
    BY <1>2, <1>11 DEF IsDisk
  <2> HIDE DEF e
  <2> QED BY <1>11, <2>1, <2>2, <2>3, <2>4 DEF IsDisk
<1> HIDE DEF e, r
<1>13. ~Complete(History(disk.log))
  BY <1>2
<1>14. p \notin {"free", "stale"}
  BY EvidenceAssumption
<1>15. Common(scenario, e)
  <2>1. disk.file[Summary] # Missing => ~ (scenario.kills = 0 \/ scenario.losses = 0)
    BY <1>1, <1>13 DEF Common
  <2> QED BY <1>1, <1>11, <1>12, <1>14, <2>1 DEF Common, Summarised, Concluded
<1>16. ASSUME NEW q \in Process \ {p}
       PROVE  Local(scenario, q, proc[q], e)
  <2>1. Local(scenario, q, proc[q], disk)
    BY DEF EvidenceInv
  <2>2. ~ Owns(proc[q])
    BY <1>2, OneOwner
  <2>3. proc[q].at # "completed"
    BY <1>13, <2>1 DEF Local, Follows, Reached
  <2>4. Keeps(disk, e)
    BY <1>11 DEF Keeps
  <2> QED BY <2>1, <2>2, <2>3, <2>4, OthersKeep
<1>17. r.head = History(e.log)
  BY <1>5, <1>8, <1>11
<1> QED BY <1>8, <1>9, <1>10, <1>11, <1>15, <1>16, <1>17 DEF r, e, event

(* An event may be followed by its row or its checkpoint. *)
LEMMA AppendEventInv ==
    ASSUME EvidenceInv, NEW p \in Process, AppendEvent(p), UNCHANGED <<scenario, left>>
    PROVE  EvidenceInv'
<1>1. At(p, "append") /\ ~Complete(proc[p].head) /\ Counted(scenario, left')
  BY DEF AppendEvent, EvidenceInv
<1> DEFINE r(a) == [proc[p] EXCEPT !.head = Append(@, a)]
<1> DEFINE e(a) == [disk EXCEPT !.log = Append(@, [previous |-> proc[p].head, answer |-> a])]
<1> DEFINE event(a) == Layout[Len(r(a).head)]
<1> DEFINE u(a) == CASE event(a).type = "metrics.recorded" -> To(r(a), "metrics")
                  [] event(a).type = "tick.completed" /\ event(a).tick # Ticks
                        /\ event(a).tick % CheckpointEvery = 0 ->
                        EmitCheckpoint(r(a), event(a).tick, "append")
                  [] event(a).type = "run.completed" -> EmitCheckpoint(r(a), Ticks, "flush")
                  [] OTHER -> r(a)
<1>2. PICK a \in Content : disk' = e(a) /\ Becomes(p, u(a))
  <2>1. Recordable(proc[p], Layout[Len(proc[p].head) + 1].type) \subseteq Content
    BY AnswersAreContent
  <2>2. PICK a \in Recordable(proc[p], Layout[Len(proc[p].head) + 1].type) :
             disk' = e(a) /\ Becomes(p, u(a))
    BY DEF AppendEvent
  <2>3. a \in Content
    BY <2>1
  <2> HIDE DEF u, e
  <2> QED BY <2>2, <2>3
<1>3. /\ IsProcess(r(a)) /\ r(a).at = "append" /\ r(a).head = History(e(a).log)
      /\ r(a).head # <<>>
      /\ event(a) \in KindOfEvent
      /\ Common(scenario, e(a)) /\ e(a).lock = p
      /\ \A q \in Process \ {p} : Local(scenario, q, proc[q], e(a))
  BY <1>1, AppendedDisk
<1> DEFINE rr == r(a)
<1> DEFINE ee == e(a)
<1> DEFINE ev == event(a)
<1> DEFINE uu == u(a)
<1>4. ev.tick \in 0 .. Ticks /\ Ticks \in 0 .. Ticks
  BY <1>3, EvidenceAssumption DEF KindOfEvent
<1>5. \/ uu = To(rr, "metrics")
      \/ uu = EmitCheckpoint(rr, ev.tick, "append")
      \/ uu = EmitCheckpoint(rr, Ticks, "flush")
      \/ uu = rr
  <2> HIDE DEF r, event
  <2> QED OBVIOUS
<1>6. /\ IsProcess(rr) /\ rr.at = "append" /\ rr.head = History(ee.log) /\ ee.lock = p
      /\ Common(scenario, ee) /\ rr.head # <<>>
      /\ \A q \in Process \ {p} : Local(scenario, q, proc[q], ee)
      /\ disk' = ee /\ Becomes(p, uu)
  BY <1>2, <1>3
<1> HIDE DEF rr, ee, ev, uu, r, e, event, u
<1>7. Local(scenario, p, EmitCheckpoint(rr, ev.tick, "append"), ee)
  BY <1>4, <1>6, EmitCheckpointIsLocal
<1>8. Local(scenario, p, EmitCheckpoint(rr, Ticks, "flush"), ee)
  BY <1>4, <1>6, EmitCheckpointIsLocal
<1>9. Local(scenario, p, rr, ee)
  BY <1>6 DEF Local, Owns, Follows, Appends, Reached, Runs, Writes, Reads
<1>10. Local(scenario, p, To(rr, "metrics"), ee)
  <2> DEFINE w == To(rr, "metrics")
  <2>1. IsProcess(w) /\ w.at = "metrics" /\ w.head = rr.head
    BY <1>6, ToIs DEF Place, Runs
  <2> HIDE DEF w
  <2>2. Local(scenario, p, w, ee)
    BY <1>6, <2>1 DEF Local, Owns, Follows, Appends, Reached, Runs, Writes, Reads
  <2> QED BY <2>2 DEF w
<1>11. Local(scenario, p, uu, ee)
  BY <1>5, <1>7, <1>8, <1>9, <1>10
<1> QED BY <1>1, <1>6, <1>11, StepInv

(* The tick of a history is a tick. *)
LEMMA TickOfType ==
    ASSUME EvidenceInv, NEW p \in Process, proc[p].head = History(disk.log), proc[p].head # <<>>
    PROVE  TickOf(proc[p].head) \in 0 .. Ticks
<1>1. disk.log \in Seq(Event) /\ Len(disk.log) <= Length /\ IsProcess(proc[p])
  BY DEF EvidenceInv, Common, IsDisk, Local
<1>2. Len(proc[p].head) = Len(disk.log) /\ proc[p].head \in Seq(Content)
  BY <1>1, HistoryType
<1> DEFINE n == Len(proc[p].head)
<1>3. n \in 1 .. Length
  BY <1>1, <1>2, LayoutType
<1>4. Layout[n] \in KindOfEvent
  <2> HIDE DEF n
  <2> QED BY <1>3, LayoutType DEF Length
<1> QED BY <1>4 DEF TickOf, KindOfEvent

(* Rows, and what is left of temporary files, disturb nobody. *)
LEMMA RowsDisturbNobody ==
    ASSUME EvidenceInv, NEW e, IsDisk(e), e.lock = disk.lock, e.file = disk.file,
           e.log = disk.log, e.synced = disk.synced
    PROVE  /\ Common(scenario, e)
           /\ \A q \in Process : Local(scenario, q, proc[q], e)
<1>1. Common(scenario, disk)
  BY DEF EvidenceInv
<1>2. Common(scenario, e)
  BY <1>1 DEF Common, Summarised, Concluded
<1>3. ASSUME NEW q \in Process
      PROVE  Local(scenario, q, proc[q], e)
  <2>1. Local(scenario, q, proc[q], disk) /\ Keeps(disk, e)
    BY DEF EvidenceInv, Keeps
  <2> QED BY <2>1, OthersKeep
<1> QED BY <1>2, <1>3

(* A row is appended, and disturbs nobody. *)
LEMMA AppendMetricsInv ==
    ASSUME EvidenceInv, NEW p \in Process, AppendMetrics(p), UNCHANGED <<scenario, left>>
    PROVE  EvidenceInv'
<1> DEFINE r == proc[p]
<1> DEFINE tick == TickOf(r.head)
<1> DEFINE row == [tick |-> tick, of |-> r.head]
<1> DEFINE u == [r EXCEPT !.at = "append", !.metric = tick]
<1>1. Local(scenario, p, r, disk) /\ Common(scenario, disk) /\ Counted(scenario, left')
  BY DEF EvidenceInv
<1>2. r.at = "metrics"
  BY DEF AppendMetrics, At
<1>3. IsProcess(r) /\ Owns(r) /\ disk.lock = p /\ r.head = History(disk.log) /\ r.head # <<>>
  BY <1>1, <1>2 DEF Local, Owns, Follows, Reached, Runs
<1>4. \/ Becomes(p, Failed(p, r)) /\ UNCHANGED disk
      \/ disk' = AppendRow(row) /\ Becomes(p, u)
  BY DEF AppendMetrics
<1>5. CASE Becomes(p, Failed(p, r)) /\ UNCHANGED disk
  <2>1. Local(scenario, p, Failed(p, r), disk)
    BY <1>1, <1>3, FailedIsLocal
  <2> QED BY <1>1, <1>5, <2>1, QuietStepInv
<1>6. CASE disk' = AppendRow(row) /\ Becomes(p, u)
  <2> DEFINE e == [disk EXCEPT !.rows = Append(@, row)]
  <2>1. tick \in 0 .. Ticks
    BY <1>3, TickOfType
  <2>2. row \in Row
    BY <1>3, <2>1 DEF Row, IsProcess
  <2>3. IsProcess(u) /\ u.at = "append" /\ u.head = r.head
    <3> HIDE DEF tick, r
    <3>1. "append" \in Place
      BY DEF Place, Runs
    <3> QED BY <1>3, <2>1, <3>1 DEF IsProcess
  <2> HIDE DEF row, u
  <2>4. /\ IsDisk(e) /\ e.lock = disk.lock /\ e.file = disk.file
        /\ e.log = disk.log /\ e.synced = disk.synced
    <3>1. IsDisk(disk) /\ Append(disk.rows, row) \in Seq(Row)
      BY <1>1, <2>2 DEF Common, IsDisk
    <3>2. /\ e.lock = disk.lock /\ e.file = disk.file /\ e.log = disk.log /\ e.synced = disk.synced
          /\ e \in [lock : {"free", "stale"} \cup Process, file : {e.file}, stray : {e.stray},
                    log : Seq(Event), torn : {e.torn}, synced : {e.synced},
                    rows : Seq(Row), tornRow : {e.tornRow}]
      BY <3>1 DEF IsDisk
    <3> HIDE DEF e
    <3> QED BY <3>1, <3>2 DEF IsDisk
  <2>5. disk' = e
    BY <1>6 DEF AppendRow
  <2> HIDE DEF e
  <2>6. Common(scenario, e) /\ \A q \in Process : Local(scenario, q, proc[q], e)
    BY <2>4, RowsDisturbNobody
  <2>7. Local(scenario, p, u, e)
    BY <1>3, <2>3, <2>4 DEF Local, Owns, Follows, Appends, Reached, Runs, Writes, Reads
  <2> QED BY <1>1, <1>6, <2>5, <2>6, <2>7, StepInv
<1> QED BY <1>4, <1>5, <1>6

(* A signal ends a run at a boundary. *)
LEMMA PauseInv ==
    ASSUME EvidenceInv, NEW p \in Process, Pause(p)
    PROVE  EvidenceInv'
<1> DEFINE r == [proc[p] EXCEPT !.end = "paused"]
<1> DEFINE t == TickOf(proc[p].head)
<1>1. Local(scenario, p, proc[p], disk) /\ Common(scenario, disk) /\ Counted(scenario, left)
  BY DEF EvidenceInv
<1>2. /\ proc[p].at = "append" /\ left.signals > 0 /\ AtBoundary(proc[p].head)
      /\ left' = [left EXCEPT !.signals = @ - 1]
      /\ Becomes(p, EmitCheckpoint(r, t, "flush")) /\ UNCHANGED <<scenario, disk>>
  BY DEF Pause, PauseAtBoundary, At
<1>3. /\ IsProcess(proc[p]) /\ Owns(proc[p]) /\ disk.lock = p
      /\ proc[p].head = History(disk.log)
  BY <1>1, <1>2 DEF Local, Owns, Follows, Runs
<1>4. proc[p].head # <<>>
  BY <1>2, <1>3 DEF AtBoundary, IsProcess
<1>5. t \in 0 .. Ticks
  BY <1>3, <1>4, TickOfType
<1>6. IsProcess(r) /\ r.head = History(disk.log)
  BY <1>3 DEF IsProcess, End
<1> HIDE DEF r, t
<1>7. Local(scenario, p, EmitCheckpoint(r, t, "flush"), disk)
  BY <1>3, <1>5, <1>6, EmitCheckpointIsLocal
<1>8. Counted(scenario, left')
  <2>1. scenario.signals \in Nat
    BY EvidenceAssumption DEF EvidenceInv
  <2> QED BY <1>1, <1>2, <2>1 DEF Counted
<1> QED BY <1>2, <1>7, <1>8, QuietStepInv

-----------------------------------------------------------------------------
(* The steps of a publication. *)

(* A process that goes on with what it is publishing. *)
LEMMA GoesOnPublishing ==
    ASSUME NEW s, NEW p, NEW d, NEW r, Local(s, p, r, d), r.at \in Writes,
           NEW place \in {"temporary", "link"}
    PROVE  Local(s, p, To(r, place), d)
<1> DEFINE u == To(r, place)
<1>1. /\ IsProcess(u) /\ u.at = place /\ u.head = r.head /\ u.job = r.job
      /\ u.end = r.end
  BY ToIs DEF Local, Place, Writes
<1> HIDE DEF u
<1>2. RightJob(r, d)
  BY DEF Local, Reached
<1>3. RightJob(u, d)
  BY <1>1, <1>2 DEF RightJob
<1>4. Local(s, p, u, d)
  BY <1>1, <1>3 DEF Local, Owns, Follows, Appends, Reached, Runs, Writes, Reads
<1> QED BY <1>4 DEF u

(* The first look at a name decides whether there is anything to write, *)
LEMMA LookForExistingInv ==
    ASSUME EvidenceInv, NEW p \in Process, LookForExisting(p), UNCHANGED <<scenario, left>>
    PROVE  EvidenceInv'
<1> DEFINE r == proc[p]
<1> DEFINE found == disk.file[r.job.name]
<1>1. Local(scenario, p, r, disk) /\ Counted(scenario, left')
  BY DEF EvidenceInv
<1>2. r.at = "existing" /\ UNCHANGED disk /\ r.at \in Writes
  BY DEF LookForExisting, At, Writes
<1>3. \/ Becomes(p, To(r, "temporary"))
      \/ found = <<r.job.content>> /\ Becomes(p, Published(r))
      \/ Becomes(p, Failed(p, r))
  <2>1. <<r.job.content>> # Missing
    BY Contents
  <2> HIDE DEF found
  <2> QED BY <2>1 DEF LookForExisting, found
<1>4. CASE Becomes(p, To(r, "temporary"))
  <2>1. Local(scenario, p, To(r, "temporary"), disk)
    BY <1>1, <1>2, GoesOnPublishing
  <2> QED BY <1>1, <1>2, <1>4, <2>1, QuietStepInv
<1>5. CASE found = <<r.job.content>> /\ Becomes(p, Published(r))
  <2>1. Local(scenario, p, Published(r), disk)
    BY <1>1, <1>2, <1>5, PublishedIsLocal
  <2> QED BY <1>1, <1>2, <1>5, <2>1, QuietStepInv
<1>6. CASE Becomes(p, Failed(p, r))
  <2>1. p \in Runner => Owns(r)
    BY <1>1, <1>2 DEF Local, Owns
  <2>2. Local(scenario, p, Failed(p, r), disk)
    BY <1>1, <2>1, FailedIsLocal
  <2> QED BY <1>1, <1>2, <1>6, <2>2, QuietStepInv
<1> QED BY <1>3, <1>4, <1>5, <1>6

(* a temporary file is written, *)
LEMMA WriteTemporaryInv ==
    ASSUME EvidenceInv, NEW p \in Process, WriteTemporary(p), UNCHANGED <<scenario, left>>
    PROVE  EvidenceInv'
<1>1. Local(scenario, p, proc[p], disk) /\ Counted(scenario, left')
  BY DEF EvidenceInv
<1>2. proc[p].at \in Writes /\ Becomes(p, To(proc[p], "link")) /\ UNCHANGED disk
  BY DEF WriteTemporary, At, Writes
<1>3. Local(scenario, p, To(proc[p], "link"), disk)
  BY <1>1, <1>2, GoesOnPublishing
<1> QED BY <1>1, <1>2, <1>3, QuietStepInv

(* and goes when the name is there. *)
LEMMA UnlinkTemporaryInv ==
    ASSUME EvidenceInv, NEW p \in Process, UnlinkTemporary(p), UNCHANGED <<scenario, left>>
    PROVE  EvidenceInv'
<1>1. Local(scenario, p, proc[p], disk) /\ Counted(scenario, left')
  BY DEF EvidenceInv
<1>2. proc[p].at = "unlink" /\ Becomes(p, Published(proc[p])) /\ UNCHANGED disk
  BY DEF UnlinkTemporary, At
<1>3. disk.file[proc[p].job.name] = <<proc[p].job.content>> /\ proc[p].at \in Writes
  BY <1>1, <1>2 DEF Local, Reached, Writes
<1>4. Local(scenario, p, Published(proc[p]), disk)
  BY <1>1, <1>3, PublishedIsLocal
<1> QED BY <1>1, <1>2, <1>4, QuietStepInv

(* A name that was not there has now what is published, and no other changes. *)
LEMMA LinkedDisk ==
    ASSUME NEW s, NEW p, NEW d, NEW r, Local(s, p, r, d), r.at \in Writes, Common(s, d),
           d.file[r.job.name] = Missing
    PROVE  LET e == [d EXCEPT !.file[r.job.name] = <<r.job.content>>]
           IN /\ Common(s, e) /\ Keeps(d, e) /\ e.lock = d.lock /\ e.log = d.log
              /\ e.synced = d.synced /\ e.file[r.job.name] = <<r.job.content>>
<1> DEFINE name == r.job.name
<1> DEFINE content == r.job.content
<1> DEFINE e == [d EXCEPT !.file[name] = <<content>>]
<1>1. /\ name \in Artifact /\ IsDisk(d) /\ RightJob(r, d) /\ r.job.next \in After
  BY DEF Local, Reached, IsProcess, Common
<1>2. /\ e.file = [d.file EXCEPT ![name] = <<content>>]
      /\ e.lock = d.lock /\ e.log = d.log /\ e.synced = d.synced
      /\ IsDisk(e)
  BY <1>1 DEF IsDisk
<1>3. /\ e.file[name] = <<content>>
      /\ \A other \in Artifact \ {name} : e.file[other] = d.file[other]
  BY <1>1, <1>2 DEF IsDisk
<1>4. d.file[name] = Missing
  OBVIOUS
<1>5. Keeps(d, e)
  <2> HIDE DEF name, e, content
  <2> QED BY <1>3, <1>4 DEF Keeps
<1> HIDE DEF e
<1>6. Summary \in Artifact /\ Attestation \in Artifact /\ Summary # Attestation
  BY Names
<1>7. Common(s, e)
  <2>1. CASE r.job.next \in {"config", "open", "append", "flush"}
    <3>1. name \notin {Summary, Attestation}
      BY <1>1, <2>1, Names DEF RightJob
    <3>2. e.file[Summary] = d.file[Summary] /\ e.file[Attestation] = d.file[Attestation]
      BY <1>3, <1>6, <3>1
    <3> QED BY <1>2, <3>2 DEF Common, Summarised, Concluded
  <2>2. CASE r.job.next = "attestation"
    <3>1. name = Summary /\ content = SummaryOf(r.head) /\ Complete(r.head) /\ Accepted(r.head)
      BY <1>1, <2>2 DEF RightJob, Verified
    <3>2. r.head = History(d.log) /\ r.head \in Seq(Content)
      BY <2>2 DEF Local, Follows, IsProcess
    <3>3. s.kills = 0 => d.synced = Len(d.log)
      BY <2>2 DEF Local, Owns, Appends, Writes
    <3>4. Summarised(e, r.head) /\ e.file[Attestation] = d.file[Attestation]
      BY <1>3, <1>6, <3>1 DEF Summarised
    <3>5. d.file[Attestation] = Missing
      <4> SUFFICES ASSUME NEW h, Concluded(d, h) PROVE FALSE
        BY DEF Common
      <4>1. d.file[Summary] # Missing
        BY Contents DEF Concluded, Summarised
      <4> QED BY <1>4, <3>1, <4>1
    <3> QED BY <1>2, <3>1, <3>2, <3>3, <3>4, <3>5 DEF Common
  <2>3. CASE r.job.next \in {"settle", "attested"}
    <3>1. /\ name = Attestation /\ content = AttestationOf(SummaryOf(r.head))
          /\ Summarised(d, r.head)
      BY <1>1, <2>3 DEF RightJob
    <3>2. e.file[Summary] = d.file[Summary] /\ e.file[Attestation] = <<AttestationOf(SummaryOf(r.head))>>
      BY <1>3, <1>6, <3>1
    <3>3. Concluded(e, r.head)
      BY <3>1, <3>2 DEF Concluded, Summarised
    <3>4. PICK h \in Seq(Content) : Complete(h) /\ Summarised(d, h)
      BY <3>1, Contents DEF Common, Summarised
    <3>5. h = r.head
      <4>1. SummaryOf(h) = SummaryOf(r.head)
        BY <3>1, <3>4, Contents DEF Summarised
      <4> QED BY <4>1, SummaryTells
    <3>6. \A g : Summarised(e, g) <=> Summarised(d, g)
      BY <3>2 DEF Summarised
    <3> QED BY <1>2, <3>2, <3>3, <3>4, <3>5, <3>6 DEF Common
  <2> QED BY <1>1, <2>1, <2>2, <2>3 DEF After, RightJob
<1> QED BY <1>2, <1>3, <1>5, <1>7 DEF e, name, content

(* One that has linked what it publishes is in order. *)
LEMMA LinkedIsLocal ==
    ASSUME NEW s, NEW p, NEW d, NEW r, Local(s, p, r, d), r.at \in Writes,
           d.file[r.job.name] = <<r.job.content>>
    PROVE  Local(s, p, To(r, "unlink"), d)
<1> DEFINE u == To(r, "unlink")
<1>1. /\ IsProcess(u) /\ u.at = "unlink" /\ u.head = r.head /\ u.job = r.job
      /\ u.end = r.end
  BY ToIs DEF Local, Place, Writes
<1> HIDE DEF u
<1>2. RightJob(r, d)
  BY DEF Local, Reached
<1>3. RightJob(u, d)
  BY <1>1, <1>2 DEF RightJob
<1>4. d.file[u.job.name] = <<u.job.content>>
  BY <1>1
<1>5. Local(s, p, u, d)
  BY <1>1, <1>3, <1>4 DEF Local, Owns, Follows, Appends, Reached, Runs, Writes, Reads
<1> QED BY <1>5 DEF u

(* A name is linked, or what is there is the same, or the process fails. *)
LEMMA LinkInv ==
    ASSUME EvidenceInv, NEW p \in Process, Link(p), UNCHANGED <<scenario, left>>
    PROVE  EvidenceInv'
<1> DEFINE r == proc[p]
<1> DEFINE found == disk.file[r.job.name]
<1> DEFINE e == [disk EXCEPT !.file[r.job.name] = <<r.job.content>>]
<1>1. Local(scenario, p, r, disk) /\ Counted(scenario, left') /\ Common(scenario, disk)
  BY DEF EvidenceInv
<1>2. r.at \in Writes
  BY DEF Link, At, Writes
<1>3. \/ found = Missing /\ disk' = e /\ Becomes(p, To(r, "unlink"))
      \/ found = <<r.job.content>> /\ Becomes(p, To(r, "unlink")) /\ UNCHANGED disk
      \/ Becomes(p, Failed(p, r)) /\ UNCHANGED disk
  <2>1. <<r.job.content>> # Missing
    BY Contents
  <2> HIDE DEF found
  <2> QED BY <2>1 DEF Link, found
<1>4. CASE found = Missing /\ disk' = e /\ Becomes(p, To(r, "unlink"))
  <2>1. /\ Common(scenario, e) /\ Keeps(disk, e) /\ e.lock = disk.lock /\ e.log = disk.log
        /\ e.synced = disk.synced /\ e.file[r.job.name] = <<r.job.content>>
    <3> HIDE DEF r
    <3>1. disk.file[r.job.name] = Missing
      BY <1>4
    <3> QED BY <1>1, <1>2, <3>1, LinkedDisk
  <2> HIDE DEF e
  <2>2. \A q \in Process : Local(scenario, q, proc[q], e)
    BY <2>1, OthersKeep DEF EvidenceInv
  <2>3. Local(scenario, p, To(r, "unlink"), e)
    BY <1>2, <2>1, <2>2, LinkedIsLocal
  <2> QED BY <1>1, <1>4, <2>1, <2>2, <2>3, StepInv
<1>5. CASE found = <<r.job.content>> /\ Becomes(p, To(r, "unlink")) /\ UNCHANGED disk
  <2>1. Local(scenario, p, To(r, "unlink"), disk)
    BY <1>1, <1>2, <1>5, LinkedIsLocal
  <2> QED BY <1>1, <1>5, <2>1, QuietStepInv
<1>6. CASE Becomes(p, Failed(p, r)) /\ UNCHANGED disk
  <2>1. p \in Runner => Owns(r)
    BY <1>1, <1>2 DEF Local, Owns
  <2>2. Local(scenario, p, Failed(p, r), disk)
    BY <1>1, <2>1, FailedIsLocal
  <2> QED BY <1>1, <1>6, <2>2, QuietStepInv
<1> QED BY <1>3, <1>4, <1>5, <1>6

-----------------------------------------------------------------------------
(* The end of a run. *)

(* A flush makes durable what is there. *)
LEMMA FlushedDisk ==
    ASSUME EvidenceInv
    PROVE  /\ Common(scenario, Flushed) /\ Flushed.lock = disk.lock /\ Flushed.log = disk.log
           /\ Flushed.file = disk.file /\ Flushed.synced = Len(disk.log)
           /\ \A q \in Process : Local(scenario, q, proc[q], Flushed)
<1>1. Common(scenario, disk) /\ IsDisk(disk) /\ Len(disk.log) \in Nat
  BY DEF EvidenceInv, Common, IsDisk
<1>2. /\ Flushed.lock = disk.lock /\ Flushed.log = disk.log
      /\ Flushed.file = disk.file /\ Flushed.synced = Len(disk.log)
      /\ IsDisk(Flushed)
  BY <1>1 DEF Flushed, IsDisk
<1>3. Common(scenario, Flushed)
  BY <1>1, <1>2 DEF Common, Summarised, Concluded
<1>4. ASSUME NEW q \in Process
      PROVE  Local(scenario, q, proc[q], Flushed)
  <2>1. Local(scenario, q, proc[q], disk) /\ Keeps(disk, Flushed)
    BY <1>2 DEF EvidenceInv, Keeps
  <2> QED BY <1>2, <2>1, OthersKeep
<1> QED BY <1>2, <1>3, <1>4

(* flush syncs the events. *)
LEMMA FlushInv ==
    ASSUME EvidenceInv, NEW p \in Process, Flush(p), UNCHANGED <<scenario, left>>
    PROVE  EvidenceInv'
<1> DEFINE r == proc[p]
<1> DEFINE place == IF r.end = "paused" THEN "release" ELSE "verify"
<1> DEFINE u == To(r, place)
<1>1. /\ Common(scenario, Flushed) /\ Flushed.lock = disk.lock /\ Flushed.log = disk.log
      /\ Flushed.file = disk.file /\ Flushed.synced = Len(disk.log)
      /\ \A q \in Process : Local(scenario, q, proc[q], Flushed)
  BY FlushedDisk
<1>2. r.at = "flush" /\ disk' = Flushed /\ Becomes(p, u) /\ Counted(scenario, left')
  BY DEF Flush, At, EvidenceInv
<1>3. Owns(r) /\ Follows(r) /\ IsProcess(r)
  BY <1>1, <1>2 DEF Owns, Follows, Runs, Local
<1>4. place \in Place
  BY DEF Place, Runs
<1>5. IsProcess(u) /\ u.at = place /\ u.head = r.head /\ u.end = r.end
  BY <1>3, <1>4, ToIs
<1> HIDE DEF u
<1>6. Local(scenario, p, u, Flushed)
  BY <1>1, <1>3, <1>5 DEF Local, Owns, Follows, Appends, Reached, Runs, Writes, Reads
<1> QED BY <1>1, <1>2, <1>6, StepInv

(* What the owner of the lease has verified, it summarises. *)
LEMMA VerifyInv ==
    ASSUME EvidenceInv, NEW p \in Process, Verify(p), UNCHANGED <<scenario, left>>
    PROVE  EvidenceInv'
<1> DEFINE r == proc[p]
<1>1. Local(scenario, p, r, disk) /\ Counted(scenario, left')
  BY DEF EvidenceInv
<1>2. r.at = "verify" /\ UNCHANGED disk
  BY DEF Verify, At
<1>3. \/ Verified(Replayed) /\ r.head = Replayed /\ Becomes(p, WriteSummary(r, Replayed))
      \/ Becomes(p, Failed(p, r))
  BY DEF Verify
<1>4. CASE Verified(Replayed) /\ r.head = Replayed /\ Becomes(p, WriteSummary(r, Replayed))
  <2>1. Verified(r.head) /\ Becomes(p, WriteSummary(r, r.head))
    BY <1>4
  <2> HIDE DEF r
  <2>2. Local(scenario, p, WriteSummary(r, r.head), disk)
    BY <1>1, <1>2, <2>1, WriteSummaryIsLocal
  <2> QED BY <1>1, <1>2, <2>1, <2>2, QuietStepInv
<1>5. CASE Becomes(p, Failed(p, r))
  <2>1. Owns(r)
    BY <1>2 DEF Owns, Runs
  <2>2. Local(scenario, p, Failed(p, r), disk)
    BY <1>1, <2>1, FailedIsLocal
  <2> QED BY <1>1, <1>2, <1>5, <2>2, QuietStepInv
<1> QED BY <1>3, <1>4, <1>5

(* The last flush of a run. *)
LEMMA SettleInv ==
    ASSUME EvidenceInv, NEW p \in Process, Settle(p), UNCHANGED <<scenario, left>>
    PROVE  EvidenceInv'
<1> DEFINE r == proc[p]
<1> DEFINE u == To(r, "release")
<1>1. /\ Common(scenario, Flushed) /\ Flushed.lock = disk.lock /\ Flushed.log = disk.log
      /\ Flushed.file = disk.file /\ Flushed.synced = Len(disk.log)
      /\ \A q \in Process : Local(scenario, q, proc[q], Flushed)
  BY FlushedDisk
<1>2. r.at \in {"settle", "abandon"} /\ disk' = Flushed /\ Becomes(p, u) /\ Counted(scenario, left')
  BY DEF Settle, EvidenceInv
<1>3. Local(scenario, p, r, Flushed)
  BY <1>1
<1>4. IsProcess(u) /\ u.at = "release" /\ u.head = r.head /\ u.end = r.end
  BY <1>3, ToIs DEF Local, Place, Runs
<1> HIDE DEF u
<1>5. Local(scenario, p, u, Flushed)
  BY <1>1, <1>2, <1>3, <1>4 DEF Local, Owns, Follows, Appends, Reached, Runs, Writes, Reads
<1> QED BY <1>1, <1>2, <1>5, StepInv

(* Who releases the lease has nothing left that is not synced. *)
LEMMA ReleaseInv ==
    ASSUME EvidenceInv, NEW p \in Process, Release(p), UNCHANGED <<scenario, left>>
    PROVE  EvidenceInv'
<1> DEFINE r == proc[p]
<1> DEFINE e == [disk EXCEPT !.lock = "free"]
<1> DEFINE c == [Idle EXCEPT !.at = "completed", !.head = r.head]
<1>1. Local(scenario, p, r, disk) /\ Counted(scenario, left') /\ Common(scenario, disk)
  BY DEF EvidenceInv
<1>2. r.at = "release" /\ disk' = e
  BY DEF Release, At
<1>3. /\ IsProcess(r) /\ Owns(r) /\ ~Appends(r) /\ r.end \in End \ {"none"} /\ IsDisk(disk)
  BY <1>1, <1>2 DEF Local, Owns, Appends, Runs, Writes, Reached, IsProcess, Common
<1>4. \/ Becomes(p, Idle)
      \/ r.end = "completed" /\ Becomes(p, c)
      \/ r.end \in {"failed", "refused"} /\ Becomes(p, To(Idle, r.end))
  BY <1>2, <1>3 DEF Release, End
<1>5. /\ IsDisk(e) /\ e.lock = "free" /\ e.file = disk.file /\ e.log = disk.log
      /\ e.synced = disk.synced
  BY <1>3 DEF IsDisk
<1> HIDE DEF e
<1>6. scenario.kills = 0 => e.synced = Len(e.log)
  BY <1>1, <1>3, <1>5 DEF Local
<1>7. Common(scenario, e)
  BY <1>1, <1>5, <1>6 DEF Common, Summarised, Concluded
<1>8. ASSUME NEW q \in Process \ {p}
      PROVE  Local(scenario, q, proc[q], e)
  <2>1. Local(scenario, q, proc[q], disk) /\ ~Owns(proc[q])
    BY <1>3, OneOwner DEF EvidenceInv
  <2>2. Keeps(disk, e)
    BY <1>5 DEF Keeps
  <2> QED BY <1>5, <2>1, <2>2, OthersKeep
<1>9. CASE Becomes(p, Idle)
  <2>1. Local(scenario, p, Idle, e)
    BY IdleIs, QuietIsLocal
  <2> QED BY <1>1, <1>2, <1>7, <1>8, <1>9, <2>1, StepInv
<1>10. CASE r.end = "completed" /\ Becomes(p, c)
  <2>1. IsProcess(c) /\ c.at = "completed" /\ c.head = r.head
    BY <1>3, IdleIs DEF IsProcess, Place, Over
  <2>2. Reached(r, disk) /\ r.head = History(disk.log)
    BY <1>1, <1>2, <1>10 DEF Local, Follows
  <2> HIDE DEF c
  <2>3. Concluded(e, c.head) /\ Complete(c.head) /\ e.synced = Len(e.log)
    BY <1>2, <1>5, <1>10, <2>1, <2>2 DEF Reached, Concluded, Summarised
  <2>4. c.head = History(e.log)
    BY <1>5, <2>1, <2>2
  <2>5. Local(scenario, p, c, e)
    BY <2>1, <2>3, <2>4 DEF Local, Owns, Follows, Appends, Reached, Runs, Writes, Reads
  <2> QED BY <1>1, <1>2, <1>7, <1>8, <1>10, <2>5, StepInv
<1>11. CASE r.end \in {"failed", "refused"} /\ Becomes(p, To(Idle, r.end))
  <2> DEFINE f == To(Idle, r.end)
  <2>1. IsProcess(f) /\ f.at = r.end
    BY <1>11, IdleIs, ToIs DEF Place, Over
  <2> HIDE DEF f
  <2>2. Local(scenario, p, f, e)
    BY <1>11, <2>1, QuietIsLocal
  <2> QED BY <1>1, <1>2, <1>7, <1>8, <1>11, <2>2, StepInv DEF f
<1> QED BY <1>4, <1>9, <1>10, <1>11

-----------------------------------------------------------------------------
(* attestRunEvidence. *)

(* A process that reads goes on or is idle. *)
LEMMA ReaderIsLocal ==
    ASSUME NEW s, NEW p, NEW d, NEW r, IsProcess(r), p \notin Runner, r.at \in Reads,
           r.at = "compare" => Accepted(r.head),
           r.at \in {"stable", "attest", "check"} => Summarised(d, r.head)
    PROVE  Local(s, p, r, d)
BY DEF Local, Owns, Follows, Appends, Reached, Runs, Writes, Reads

(* The attester looks for the run, *)
LEMMA OpenExistingInv ==
    ASSUME EvidenceInv, NEW p \in Process, OpenExisting(p), UNCHANGED <<scenario, left>>
    PROVE  EvidenceInv'
<1> DEFINE u == To(proc[p], "snapshot")
<1>1. Local(scenario, p, proc[p], disk) /\ Counted(scenario, left')
  BY DEF EvidenceInv
<1>2. proc[p].at = "discovery" /\ UNCHANGED disk /\ (Becomes(p, u) \/ Becomes(p, Idle))
  BY DEF OpenExisting, At
<1>3. p \notin Runner /\ IsProcess(u) /\ u.at = "snapshot"
  BY <1>1, <1>2, ToIs DEF Local, Reads, Place
<1> HIDE DEF u
<1>4. Local(scenario, p, u, disk) /\ Local(scenario, p, Idle, disk)
  BY <1>3, IdleIs, QuietIsLocal, ReaderIsLocal DEF Reads
<1> QED BY <1>1, <1>2, <1>4, QuietStepInv

(* opens its files, *)
LEMMA OpenSnapshotInv ==
    ASSUME EvidenceInv, NEW p \in Process, OpenSnapshot(p), UNCHANGED <<scenario, left>>
    PROVE  EvidenceInv'
<1> DEFINE u == [proc[p] EXCEPT !.at = "replay", !.seen = Sizes]
<1>1. Local(scenario, p, proc[p], disk) /\ Counted(scenario, left')
  BY DEF EvidenceInv
<1>2. proc[p].at = "snapshot" /\ UNCHANGED disk /\ (Becomes(p, u) \/ Becomes(p, Idle))
  BY DEF OpenSnapshot, At
<1>3. p \notin Runner /\ IsProcess(u) /\ u.at = "replay"
  BY <1>1, <1>2 DEF Local, Reads, Place, IsProcess
<1> HIDE DEF u
<1>4. Local(scenario, p, u, disk) /\ Local(scenario, p, Idle, disk)
  BY <1>3, IdleIs, QuietIsLocal, ReaderIsLocal DEF Reads
<1> QED BY <1>1, <1>2, <1>4, QuietStepInv

(* replays the events, *)
LEMMA ReplaySnapshotInv ==
    ASSUME EvidenceInv, NEW p \in Process, ReplaySnapshot(p), UNCHANGED <<scenario, left>>
    PROVE  EvidenceInv'
<1> DEFINE u == [proc[p] EXCEPT !.at = "compare", !.head = Replayed]
<1>1. Local(scenario, p, proc[p], disk) /\ Counted(scenario, left')
  BY DEF EvidenceInv
<1>2. /\ proc[p].at = "replay" /\ UNCHANGED disk
      /\ (Accepted(Replayed) /\ Becomes(p, u)) \/ Becomes(p, Idle)
  BY DEF ReplaySnapshot, At, Verified
<1>3. Replayed \in Seq(Content)
  BY HistoryType DEF Replayed, EvidenceInv, Common, IsDisk
<1>4. p \notin Runner /\ IsProcess(u) /\ u.at = "compare" /\ u.head = Replayed
  BY <1>1, <1>2, <1>3 DEF Local, Reads, Place, IsProcess
<1> HIDE DEF u
<1>5. Local(scenario, p, Idle, disk)
  BY IdleIs, QuietIsLocal
<1>6. Accepted(Replayed) => Local(scenario, p, u, disk)
  BY <1>4, ReaderIsLocal DEF Reads
<1> QED BY <1>1, <1>2, <1>5, <1>6, QuietStepInv

(* compares them with the summary, *)
LEMMA CompareSnapshotInv ==
    ASSUME EvidenceInv, NEW p \in Process, CompareSnapshot(p), UNCHANGED <<scenario, left>>
    PROVE  EvidenceInv'
<1> DEFINE u == To(proc[p], "stable")
<1>1. Local(scenario, p, proc[p], disk) /\ Counted(scenario, left')
  BY DEF EvidenceInv
<1>2. /\ proc[p].at = "compare" /\ UNCHANGED disk
      /\ (Summarised(disk, proc[p].head) /\ Becomes(p, u)) \/ Becomes(p, Idle)
  <2>1. proc[p].at = "compare"
    BY DEF CompareSnapshot, At
  <2>2. Accepted(proc[p].head)
    BY <1>1, <2>1 DEF Local, Reached
  <2> QED BY <2>1, <2>2 DEF CompareSnapshot, Summarised, StoredSummary
<1>3. p \notin Runner /\ IsProcess(u) /\ u.at = "stable" /\ u.head = proc[p].head
  BY <1>1, <1>2, ToIs DEF Local, Reads, Place
<1> HIDE DEF u
<1>4. Local(scenario, p, Idle, disk)
  BY IdleIs, QuietIsLocal
<1>5. Summarised(disk, proc[p].head) => Local(scenario, p, u, disk)
  BY <1>3, ReaderIsLocal DEF Reads
<1> QED BY <1>1, <1>2, <1>4, <1>5, QuietStepInv

(* looks whether the files have grown, *)
LEMMA AssertStableInv ==
    ASSUME EvidenceInv, NEW p \in Process, AssertStable(p), UNCHANGED <<scenario, left>>
    PROVE  EvidenceInv'
<1>1. Local(scenario, p, proc[p], disk) /\ Counted(scenario, left')
  BY DEF EvidenceInv
<1>2. PICK next \in {"attest", "check"} :
         Becomes(p, To(proc[p], next)) \/ Becomes(p, Idle)
  BY DEF AssertStable
<1>3. proc[p].at = "stable" /\ UNCHANGED disk
  BY DEF AssertStable, At
<1> DEFINE u == To(proc[p], next)
<1>4. p \notin Runner /\ Summarised(disk, proc[p].head)
  BY <1>1, <1>3 DEF Local, Reads, Reached
<1>5. IsProcess(u) /\ u.at = next /\ u.head = proc[p].head
  BY <1>1, ToIs DEF Local, Reads, Place
<1> HIDE DEF u
<1>6. Local(scenario, p, u, disk) /\ Local(scenario, p, Idle, disk)
  BY <1>4, <1>5, IdleIs, QuietIsLocal, ReaderIsLocal DEF Reads
<1> QED BY <1>1, <1>2, <1>3, <1>6, QuietStepInv DEF u

(* What an attester is told of is there. *)
LEMMA AttestedIsLocal ==
    ASSUME EvidenceInv, NEW p \in Process, Concluded(disk, proc[p].head)
    PROVE  Local(scenario, p, Attested(p), disk)
<1> DEFINE u == [Idle EXCEPT !.at = "attested", !.head = proc[p].head]
<1>1. IsProcess(proc[p])
  BY DEF EvidenceInv, Local
<1>2. IsProcess(u) /\ u.at = "attested" /\ u.head = proc[p].head
  BY <1>1, IdleIs DEF IsProcess, Place, Over
<1>3. Attested(p) = u
  BY DEF Attested
<1> HIDE DEF u
<1>4. Local(scenario, p, u, disk)
  BY <1>2 DEF Local, Owns, Follows, Appends, Reached, Runs, Writes, Reads
<1> QED BY <1>3, <1>4

(* and attests what it has seen, *)
LEMMA AttestRunEvidenceInv ==
    ASSUME EvidenceInv, NEW p \in Process, AttestRunEvidence(p), UNCHANGED <<scenario, left>>
    PROVE  EvidenceInv'
<1> DEFINE r == proc[p]
<1> DEFINE content == AttestationOf(SummaryOf(r.head))
<1> DEFINE u == Publishing(r, Attestation, content, "attested")
<1>1. Local(scenario, p, r, disk) /\ Counted(scenario, left')
  BY DEF EvidenceInv
<1>2. r.at = "attest" /\ UNCHANGED disk
  BY DEF AttestRunEvidence, At
<1>3. \/ Becomes(p, u)
      \/ StoredAttestation = <<content>> /\ Becomes(p, Attested(p))
      \/ Becomes(p, Idle)
  <2>1. <<content>> # Missing
    BY Contents
  <2> HIDE DEF u
  <2> QED BY <2>1 DEF AttestRunEvidence, u
<1>4. p \notin Runner /\ Summarised(disk, r.head) /\ IsProcess(r)
  BY <1>1, <1>2 DEF Local, Reads, Reached
<1>5. CASE Becomes(p, u)
  <2>1. Attestation \in Artifact /\ "attested" \in After
    BY Names DEF After
  <2>2. /\ IsProcess(u) /\ u.at = "existing" /\ u.head = r.head
        /\ u.job = [name |-> Attestation, content |-> content, next |-> "attested"]
    BY <1>4, <2>1, PublishingIs
  <2> HIDE DEF u
  <2>3. RightJob(u, disk)
    BY <1>4, <2>2 DEF RightJob
  <2>4. Local(scenario, p, u, disk)
    BY <1>4, <2>2, <2>3 DEF Local, Owns, Follows, Appends, Reached, Runs, Writes, Reads
  <2> QED BY <1>1, <1>2, <1>5, <2>4, QuietStepInv
<1>6. CASE StoredAttestation = <<content>> /\ Becomes(p, Attested(p))
  <2>1. Concluded(disk, r.head)
    BY <1>4, <1>6 DEF Concluded, StoredAttestation
  <2>2. Local(scenario, p, Attested(p), disk)
    BY <2>1, AttestedIsLocal
  <2> QED BY <1>1, <1>2, <1>6, <2>2, QuietStepInv
<1>7. CASE Becomes(p, Idle)
  <2>1. Local(scenario, p, Idle, disk)
    BY IdleIs, QuietIsLocal
  <2> QED BY <1>1, <1>2, <1>7, <2>1, QuietStepInv
<1> QED BY <1>3, <1>5, <1>6, <1>7

(* or finds it attested. *)
LEMMA VerifyAttestationInv ==
    ASSUME EvidenceInv, NEW p \in Process, VerifyAttestation(p), UNCHANGED <<scenario, left>>
    PROVE  EvidenceInv'
<1>1. Local(scenario, p, proc[p], disk) /\ Counted(scenario, left')
  BY DEF EvidenceInv
<1>2. proc[p].at = "check" /\ UNCHANGED disk
  BY DEF VerifyAttestation, At
<1>3. \/ /\ StoredAttestation = <<AttestationOf(SummaryOf(proc[p].head))>>
         /\ Becomes(p, Attested(p))
      \/ Becomes(p, Idle)
  BY DEF VerifyAttestation
<1>4. Summarised(disk, proc[p].head)
  BY <1>1, <1>2 DEF Local, Reached
<1>5. ASSUME StoredAttestation = <<AttestationOf(SummaryOf(proc[p].head))>>
      PROVE  Local(scenario, p, Attested(p), disk)
  <2>1. Concluded(disk, proc[p].head)
    BY <1>4, <1>5 DEF Concluded, StoredAttestation
  <2> QED BY <2>1, AttestedIsLocal
<1>6. Local(scenario, p, Idle, disk)
  BY IdleIs, QuietIsLocal
<1> QED BY <1>1, <1>2, <1>3, <1>5, <1>6, QuietStepInv

-----------------------------------------------------------------------------
(* What may go wrong. *)

(* The end of some processes leaves the events, and the lease to nobody. *)
LEMMA StruckDisk ==
    ASSUME EvidenceInv, NEW d, Common(scenario, d), NEW ended, ended \subseteq Process, NEW cut,
           scenario.kills = 0 => d.synced = Len(d.log)
    PROVE  LET e == Struck(ended, cut, d)
           IN /\ Common(scenario, e) /\ e.log = d.log /\ e.file = d.file /\ e.synced = d.synced
              /\ e.lock = IF d.lock \in ended THEN "stale" ELSE d.lock
<1> DEFINE e == Struck(ended, cut, d)
<1>1. IsDisk(d)
  BY DEF Common
<1>2. /\ e.log = d.log /\ e.file = d.file /\ e.synced = d.synced /\ e.rows = d.rows
      /\ e.lock = IF d.lock \in ended THEN "stale" ELSE d.lock
  BY <1>1 DEF Struck, IsDisk
<1>3. e \in [lock : {"free", "stale"} \cup Process, file : {e.file}, stray : {e.stray},
             log : Seq(Event), torn : {e.torn}, synced : {e.synced},
             rows : Seq(Row), tornRow : {e.tornRow}]
  <2>1. d.lock \in {"free", "stale"} \cup Process
    BY <1>1 DEF IsDisk
  <2> QED BY <1>1, <2>1 DEF Struck, IsDisk
<1> HIDE DEF e
<1>4. IsDisk(e)
  BY <1>1, <1>2, <1>3 DEF IsDisk
<1>5. Common(scenario, e)
  BY <1>2, <1>4 DEF Common, Summarised, Concluded
<1> QED BY <1>2, <1>5 DEF e

(* A killed process leaves what it has written. *)
LEMMA KillInv ==
    ASSUME EvidenceInv, NEW p \in Process, Kill(p)
    PROVE  EvidenceInv'
<1>1. PICK cut \in BOOLEAN : disk' = Struck({p}, cut, disk)
  BY DEF Kill
<1>2. /\ left.kills > 0 /\ left' = [left EXCEPT !.kills = @ - 1]
      /\ Becomes(p, Idle) /\ scenario' = scenario
  BY DEF Kill
<1>3. Common(scenario, disk) /\ Counted(scenario, left)
  BY DEF EvidenceInv
<1>4. scenario.kills \in Nat
  BY EvidenceAssumption DEF EvidenceInv
<1>5. scenario.kills # 0 /\ Counted(scenario, left')
  BY <1>2, <1>3, <1>4 DEF Counted
<1> DEFINE e == Struck({p}, cut, disk)
<1>6. /\ Common(scenario, e) /\ e.log = disk.log /\ e.file = disk.file /\ e.synced = disk.synced
      /\ e.lock = IF disk.lock \in {p} THEN "stale" ELSE disk.lock
  BY <1>3, <1>5, StruckDisk
<1> HIDE DEF e
<1>7. ASSUME NEW q \in Process \ {p}
      PROVE  Local(scenario, q, proc[q], e)
  <2>1. Local(scenario, q, proc[q], disk) /\ Keeps(disk, e)
    BY <1>6 DEF EvidenceInv, Keeps
  <2>2. Owns(proc[q]) => e.lock = disk.lock
    BY <1>6, <2>1 DEF Local
  <2> QED BY <1>6, <2>1, <2>2, OthersKeep
<1>8. Local(scenario, p, Idle, e)
  BY IdleIs, QuietIsLocal
<1> QED BY <1>1, <1>2, <1>5, <1>6, <1>7, <1>8, StepInv DEF e

(* Whoever goes on after a loss of power does nothing, and the events that    *)
(* were under a summary are there unless a process was killed before.         *)
LEMMA LosePowerInv ==
    ASSUME EvidenceInv, LosePower
    PROVE  EvidenceInv'
<1>1. PICK cut \in BOOLEAN, n \in disk.synced .. Len(disk.log) :
         LET kept == [disk EXCEPT !.log = SubSeq(@, 1, n), !.synced = n,
                                  !.torn = @ \/ (cut /\ n < Len(disk.log))]
         IN disk' = Struck({p \in Process : Live(p)}, cut, kept)
  BY DEF LosePower
<1>2. /\ left.losses > 0 /\ left' = [left EXCEPT !.losses = @ - 1]
      /\ proc' = [p \in Process |-> Ended(p, proc[p])] /\ scenario' = scenario
  BY DEF LosePower
<1>3. Common(scenario, disk) /\ Counted(scenario, left) /\ IsDisk(disk)
  BY DEF EvidenceInv, Common
<1>4. scenario.losses \in Nat
  BY EvidenceAssumption DEF EvidenceInv
<1>5. scenario.losses # 0 /\ Counted(scenario, left')
  BY <1>2, <1>3, <1>4 DEF Counted
<1> DEFINE kept == [disk EXCEPT !.log = SubSeq(@, 1, n), !.synced = n,
                                !.torn = @ \/ (cut /\ n < Len(disk.log))]
<1>6. /\ disk.log \in Seq(Event) /\ Len(disk.log) \in Nat /\ n \in Nat /\ n <= Len(disk.log)
      /\ disk.synced \in Nat /\ disk.synced <= n /\ Len(disk.log) <= Length
  BY <1>3 DEF IsDisk
<1>7. SubSeq(disk.log, 1, n) \in Seq(Event) /\ Len(SubSeq(disk.log, 1, n)) = n
  BY <1>6, SubSeqProperties
<1>8. kept.log = SubSeq(disk.log, 1, n) /\ kept.synced = n /\ kept.lock = disk.lock
      /\ kept.file = disk.file /\ kept.rows = disk.rows
  BY <1>3 DEF IsDisk
<1>9. kept \in [lock : {"free", "stale"} \cup Process, file : {kept.file}, stray : {kept.stray},
                log : Seq(Event), torn : {kept.torn}, synced : {kept.synced},
                rows : Seq(Row), tornRow : {kept.tornRow}]
  BY <1>3, <1>7 DEF IsDisk
<1>10. disk' = Struck({p \in Process : Live(p)}, cut, kept)
  BY <1>1
<1> HIDE DEF kept
<1>11. IsDisk(kept)
  <2>1. n \in 0 .. Len(kept.log) /\ Len(kept.log) <= Length
    BY <1>6, <1>7, <1>8, LayoutType
  <2> QED BY <1>3, <1>8, <1>9, <2>1 DEF IsDisk
<1>12. disk.synced = Len(disk.log) => kept.log = disk.log
  <2>1. SubSeq(disk.log, 1, Len(disk.log)) = disk.log
    BY <1>6
  <2>2. disk.synced = Len(disk.log) => n = Len(disk.log)
    BY <1>6
  <2> QED BY <1>8, <2>1, <2>2
<1>13. Common(scenario, kept)
  <2>1. disk.file[Summary] # Missing /\ scenario.kills = 0 => kept.log = disk.log
    BY <1>3, <1>12 DEF Common
  <2> QED BY <1>3, <1>5, <1>7, <1>8, <1>11, <2>1 DEF Common, Summarised, Concluded
<1> DEFINE ended == {p \in Process : Live(p)}
<1> DEFINE e == Struck(ended, cut, kept)
<1>14. Common(scenario, e) /\ e.log = kept.log /\ e.file = kept.file /\ e.synced = kept.synced
  <2>1. ended \subseteq Process
    OBVIOUS
  <2>2. kept.synced = Len(kept.log)
    BY <1>7, <1>8
  <2> HIDE DEF ended
  <2> QED BY <1>13, <2>1, <2>2, StruckDisk
<1> HIDE DEF e
<1>15. ASSUME NEW q \in Process
       PROVE  Local(scenario, q, proc'[q], e)
  <2>1. proc'[q] = Ended(q, proc[q])
    BY <1>2
  <2>2. CASE Live(q)
    <3>1. proc'[q] = Idle
      BY <2>1, <2>2 DEF Ended
    <3> QED BY <3>1, IdleIs, QuietIsLocal
  <2>3. CASE ~ Live(q)
    <3>1. proc'[q] = proc[q] /\ proc[q].at \in Over
      BY <2>1, <2>3 DEF Ended, Live
    <3>2. Local(scenario, q, proc[q], disk)
      BY DEF EvidenceInv
    <3>3. ~ Owns(proc[q])
      BY <3>1 DEF Owns, Runs, Writes, Over
    <3>4. Keeps(disk, e)
      BY <1>8, <1>14 DEF Keeps
    <3>5. proc[q].at = "completed" => e.log = disk.log /\ e.synced = Len(e.log)
      BY <1>7, <1>8, <1>12, <1>14, <3>2 DEF Local, Reached
    <3>6. Local(scenario, q, proc[q], e)
      BY <3>2, <3>3, <3>4, <3>5, OthersKeep
    <3> QED BY <3>1, <3>6
  <2> QED BY <2>2, <2>3
<1>16. proc' = [p \in Process |-> proc'[p]]
  BY <1>2
<1>17. disk' = e
  BY <1>10 DEF e
<1> QED BY <1>2, <1>5, <1>14, <1>15, <1>16, <1>17 DEF EvidenceInv

(* A lock is removed that nobody holds. *)
LEMMA RemoveStaleLockInv ==
    ASSUME EvidenceInv, RemoveStaleLock
    PROVE  EvidenceInv'
<1> DEFINE e == [disk EXCEPT !.lock = "free"]
<1>1. disk' = e /\ disk.lock = "stale" /\ UNCHANGED <<scenario, proc, left>>
  BY DEF RemoveStaleLock
<1>2. Common(scenario, disk) /\ IsDisk(disk)
  BY DEF EvidenceInv, Common
<1>3. /\ IsDisk(e) /\ e.file = disk.file /\ e.log = disk.log /\ e.synced = disk.synced
      /\ e.lock = "free"
  BY <1>2 DEF IsDisk
<1> HIDE DEF e
<1>4. Common(scenario, e)
  BY <1>1, <1>2, <1>3 DEF Common, Summarised, Concluded
<1>5. ASSUME NEW q \in Process
      PROVE  Local(scenario, q, proc[q], e)
  <2>1. Local(scenario, q, proc[q], disk) /\ Keeps(disk, e)
    BY <1>3 DEF EvidenceInv, Keeps
  <2>2. ~ Owns(proc[q])
    BY <1>1, <2>1, EvidenceAssumption DEF Local
  <2> QED BY <1>3, <2>1, <2>2, OthersKeep
<1> QED BY <1>1, <1>4, <1>5 DEF EvidenceInv

-----------------------------------------------------------------------------
(* The invariant. *)

(* Before the first run there is nothing. *)
LEMMA InitInv == Init => EvidenceInv
<1> SUFFICES ASSUME Init PROVE EvidenceInv
  OBVIOUS
<1>1. proc = [p \in Process |-> Idle] /\ disk = EmptyDisk /\ scenario \in Scenarios
  BY DEF Init
<1>2. \A p \in Process : Local(scenario, p, proc[p], disk)
  <2>1. \A p \in Process : proc[p] = Idle
    BY <1>1
  <2>2. \A p \in Process : Local(scenario, p, Idle, disk)
    BY IdleIs, QuietIsLocal
  <2> QED BY <2>1, <2>2
<1>3. proc = [p \in Process |-> proc[p]]
  BY <1>1
<1>4. Common(scenario, disk)
  <2>1. /\ EmptyDisk.lock = "free" /\ EmptyDisk.log = <<>> /\ EmptyDisk.synced = 0
        /\ EmptyDisk.rows = <<>> /\ EmptyDisk.file = [name \in Artifact |-> Missing]
    BY DEF EmptyDisk
  <2>2. EmptyDisk.file[Summary] = Missing /\ EmptyDisk.file[Attestation] = Missing
    BY <2>1, Names
  <2>3. IsDisk(EmptyDisk)
    BY <2>1, LayoutType DEF EmptyDisk, IsDisk
  <2> QED BY <1>1, <2>1, <2>2, <2>3 DEF Common
<1>5. Counted(scenario, left)
  <2>1. scenario.kills \in Nat /\ scenario.losses \in Nat /\ scenario.signals \in Nat
    BY <1>1, EvidenceAssumption
  <2> QED BY <2>1 DEF Init, Counted
<1> QED BY <1>1, <1>2, <1>3, <1>4, <1>5 DEF EvidenceInv

(* Every step keeps the invariant. *)
LEMMA NextInv == EvidenceInv /\ [Next]_vars => EvidenceInv'
<1> SUFFICES ASSUME EvidenceInv, [Next]_vars PROVE EvidenceInv'
  OBVIOUS
<1>1. CASE UNCHANGED vars
  BY <1>1 DEF vars, EvidenceInv
<1>2. ASSUME NEW p \in Process, Work(p)
      PROVE  EvidenceInv'
  BY <1>2, StartInv, AcquireWriterLeaseInv, OpenLogInv, RecoverExistingRunInv,
     AppendEventInv, AppendMetricsInv, LookForExistingInv, WriteTemporaryInv, LinkInv,
     UnlinkTemporaryInv, FlushInv, VerifyInv, SettleInv, ReleaseInv,
     OpenExistingInv, OpenSnapshotInv, ReplaySnapshotInv, CompareSnapshotInv,
     AssertStableInv, AttestRunEvidenceInv, VerifyAttestationInv DEF Work
<1> QED BY <1>1, <1>2, PauseInv, KillInv, LosePowerInv, RemoveStaleLockInv DEF Next

(* Every process is where the disk allows it to be: whoever has the lease is   *)
(* alone and at the end of the log, what is published is of the whole log, and *)
(* what is there is never replaced (src/lab/genesis.ts, src/lab/artifacts.ts). *)
THEOREM EvidenceInvariant == Spec => []EvidenceInv
<1>1. Init => EvidenceInv
  BY InitInv
<1>2. EvidenceInv /\ [Next]_vars => EvidenceInv'
  BY NextInv
<1> QED BY <1>1, <1>2, PTL DEF Spec

(* Whoever is told of a completed or attested run finds it published, and a    *)
(* completed run is durable, whatever was killed and lost before               *)
(* (src/lab/genesis.ts:106 and :192, src/lab/evidence-attestation.ts:88).      *)
THEOREM ReturnedRunsArePublished == Spec => []ReturnedIsPublished
<1>1. EvidenceInv => ReturnedIsPublished
  <2> SUFFICES ASSUME EvidenceInv, NEW p \in Process
               PROVE  /\ proc[p].at \in {"completed", "attested"} =>
                            /\ StoredSummary = <<SummaryOf(proc[p].head)>>
                            /\ StoredAttestation = <<AttestationOf(StoredSummary[1])>>
                            /\ Accepted(proc[p].head)
                      /\ proc[p].at = "completed" =>
                            /\ proc[p].head = Replayed /\ Complete(proc[p].head)
                            /\ disk.synced = Len(disk.log)
    BY DEF ReturnedIsPublished
  <2>1. Local(scenario, p, proc[p], disk)
    BY DEF EvidenceInv
  <2>2. proc[p].at \in {"completed", "attested"} => Concluded(disk, proc[p].head)
    BY <2>1 DEF Local, Reached
  <2>3. Concluded(disk, proc[p].head) =>
          /\ StoredSummary = <<SummaryOf(proc[p].head)>>
          /\ StoredAttestation = <<AttestationOf(StoredSummary[1])>>
          /\ Accepted(proc[p].head)
    BY Contents DEF Concluded, Summarised, StoredSummary, StoredAttestation
  <2>4. proc[p].at = "completed" =>
          /\ proc[p].head = Replayed /\ Complete(proc[p].head)
          /\ disk.synced = Len(disk.log)
    BY <2>1 DEF Local, Reached, Follows, Replayed
  <2> QED BY <2>2, <2>3, <2>4
<1> QED BY <1>1, EvidenceInvariant, PTL

-----------------------------------------------------------------------------
(* What is on the disk implements EvidenceRecord. *)

(* What the record shows of the disk. *)
EventsShown == IF OneKindOfHarm THEN disk.log ELSE <<>>
SummaryShown ==
    IF OneKindOfHarm /\ StoredSummary # Missing THEN <<StoredSummary[1].eventHash>> ELSE <<>>
AttestationShown ==
    IF OneKindOfHarm /\ StoredAttestation # Missing
    THEN <<StoredAttestation[1].summary.eventHash>> ELSE <<>>

Shown == <<EventsShown, SummaryShown, AttestationShown>>

(* A step of the record, over what is shown. *)
RecordNext == EvidenceRecorded!Next

(* Of what changes neither events nor artifacts nothing is shown. *)
LEMMA Unseen ==
    ASSUME scenario' = scenario, disk'.log = disk.log, disk'.file = disk.file
    PROVE  UNCHANGED Shown
BY DEF Shown, EventsShown, SummaryShown, AttestationShown, OneKindOfHarm,
       StoredSummary, StoredAttestation

(* Nor of a scenario with both kinds of harm. *)
LEMMA NothingShown ==
    ASSUME scenario' = scenario, ~OneKindOfHarm
    PROVE  UNCHANGED Shown
BY DEF Shown, EventsShown, SummaryShown, AttestationShown, OneKindOfHarm

(* What the disk holds is shown, and an attestation is of the summary. *)
LEMMA ShownIs ==
    ASSUME EvidenceInv, OneKindOfHarm
    PROVE  /\ EventsShown = disk.log
           /\ SummaryShown = IF disk.file[Summary] = Missing THEN <<>> ELSE <<History(disk.log)>>
           /\ AttestationShown = IF disk.file[Attestation] = Missing THEN <<>>
                                 ELSE <<History(disk.log)>>
           /\ disk.file[Attestation] # Missing => disk.file[Summary] # Missing
           /\ disk.file[Summary] # Missing => Complete(History(disk.log))
<1> DEFINE h == History(disk.log)
<1>1. Common(scenario, disk)
  BY DEF EvidenceInv
<1>2. disk.file[Summary] # Missing => Complete(h) /\ disk.file[Summary] = <<SummaryOf(h)>>
  BY <1>1 DEF Common, OneKindOfHarm, Summarised
<1>3. ASSUME disk.file[Attestation] # Missing
      PROVE  disk.file[Summary] # Missing /\ disk.file[Attestation] = <<AttestationOf(SummaryOf(h))>>
  <2>1. PICK g \in Seq(Content) : Concluded(disk, g)
    BY <1>1, <1>3 DEF Common
  <2>2. disk.file[Summary] # Missing
    BY <2>1, Contents DEF Concluded, Summarised
  <2>3. SummaryOf(g) = SummaryOf(h)
    BY <1>2, <2>1, <2>2, Contents DEF Concluded, Summarised
  <2> QED BY <2>1, <2>2, <2>3 DEF Concluded
<1> HIDE DEF h
<1>4. disk.file[Summary] # Missing => StoredSummary[1].eventHash = h
  BY <1>2, Contents, SummaryTells DEF StoredSummary
<1>5. disk.file[Attestation] # Missing => StoredAttestation[1].summary.eventHash = h
  <2> SUFFICES ASSUME disk.file[Attestation] # Missing
               PROVE  StoredAttestation[1].summary.eventHash = h
    OBVIOUS
  <2>1. StoredAttestation[1] = AttestationOf(SummaryOf(h))
    BY <1>3, Contents DEF StoredAttestation
  <2>2. StoredAttestation[1].summary = SummaryOf(h)
    BY <2>1, SummaryTells
  <2> QED BY <2>2, SummaryTells
<1>6. EventsShown = disk.log
  BY DEF EventsShown
<1>7. SummaryShown = IF disk.file[Summary] = Missing THEN <<>> ELSE <<h>>
  BY <1>4 DEF SummaryShown, StoredSummary
<1>8. AttestationShown = IF disk.file[Attestation] = Missing THEN <<>> ELSE <<h>>
  BY <1>5 DEF AttestationShown, StoredAttestation
<1> QED BY <1>2, <1>3, <1>6, <1>7, <1>8 DEF h

(* The actions of the record, over what is shown. *)
LEMMA RecordActions ==
    /\ (/\ Len(EventsShown) < Length
        /\ \E a \in Content :
              EventsShown' = Append(EventsShown, [previous |-> History(EventsShown), answer |-> a])
        /\ UNCHANGED <<SummaryShown, AttestationShown>>) => RecordNext
    /\ (/\ SummaryShown = <<>> /\ AttestationShown = <<>>
        /\ \E n \in 0 .. Len(EventsShown) : EventsShown' = SubSeq(EventsShown, 1, n)
        /\ UNCHANGED <<SummaryShown, AttestationShown>>) => RecordNext
    /\ (/\ Len(EventsShown) = Length /\ SummaryShown = <<>>
        /\ Accepted(History(EventsShown))
        /\ SummaryShown' = <<History(EventsShown)>>
        /\ UNCHANGED <<EventsShown, AttestationShown>>) => RecordNext
    /\ (/\ SummaryShown # <<>> /\ AttestationShown = <<>>
        /\ AttestationShown' = SummaryShown
        /\ UNCHANGED <<EventsShown, SummaryShown>>) => RecordNext
<1>1. Accepted(History(EventsShown)) => \A i \in 1 .. Len(EventsShown) : EventsShown[i].answer \in Answer
  <2>1. DOMAIN History(EventsShown) = 1 .. Len(EventsShown)
    BY DEF History
  <2>2. \A i \in 1 .. Len(EventsShown) : History(EventsShown)[i] = EventsShown[i].answer
    BY DEF History
  <2> QED BY <2>1, <2>2 DEF Accepted
<1> QED BY <1>1 DEF RecordNext, EvidenceRecorded!Next, EvidenceRecorded!Record, EvidenceRecorded!Lose,
       EvidenceRecorded!Conclude, EvidenceRecorded!Attest, EvidenceRecorded!History, History,
       EventsShown, SummaryShown, AttestationShown

(* Of artifacts alone summary and attestation are shown. *)
LEMMA SameFilesShown ==
    ASSUME scenario' = scenario, disk'.file = disk.file
    PROVE  UNCHANGED <<SummaryShown, AttestationShown>>
BY DEF SummaryShown, AttestationShown, OneKindOfHarm, StoredSummary, StoredAttestation

(* An event that is appended is recorded. *)
LEMMA AppendEventShown ==
    ASSUME EvidenceInv, OneKindOfHarm, NEW p \in Process, AppendEvent(p), scenario' = scenario
    PROVE  RecordNext
<1>1. /\ proc[p].at = "append" /\ ~Complete(proc[p].head)
      /\ Local(scenario, p, proc[p], disk) /\ IsDisk(disk)
  BY DEF AppendEvent, At, EvidenceInv, Common
<1>2. PICK a \in Content :
         disk' = [disk EXCEPT !.log = Append(@, [previous |-> proc[p].head, answer |-> a])]
  <2>1. Recordable(proc[p], Layout[Len(proc[p].head) + 1].type) \subseteq Content
    BY AnswersAreContent
  <2> QED BY <2>1 DEF AppendEvent
<1>3. proc[p].head = History(disk.log)
  BY <1>1 DEF Local, Follows
<1>4. disk.log \in Seq(Event) /\ Len(disk.log) \in Nat /\ Len(disk.log) <= Length
  BY <1>1 DEF IsDisk
<1>5. Len(disk.log) < Length
  <2>1. Len(disk.log) # Length
    BY <1>1, <1>3, <1>4, HistoryType DEF Complete
  <2> QED BY <1>4, <2>1, LayoutType
<1>6. /\ disk'.log = Append(disk.log, [previous |-> History(disk.log), answer |-> a])
      /\ disk'.file = disk.file
  BY <1>1, <1>2, <1>3 DEF IsDisk
<1>7. UNCHANGED <<SummaryShown, AttestationShown>>
  BY <1>6, SameFilesShown
<1>8. EventsShown = disk.log /\ EventsShown' = disk'.log
  BY DEF EventsShown, OneKindOfHarm
<1> QED BY <1>5, <1>6, <1>7, <1>8, RecordActions

(* A summary that is linked concludes the record, an attestation attests it. *)
LEMMA LinkShown ==
    ASSUME EvidenceInv, OneKindOfHarm, NEW p \in Process, Link(p), scenario' = scenario
    PROVE  RecordNext \/ UNCHANGED Shown
<1> DEFINE r == proc[p]
<1> DEFINE name == r.job.name
<1> DEFINE content == r.job.content
<1> DEFINE h == History(disk.log)
<1>1. /\ Local(scenario, p, r, disk) /\ IsDisk(disk) /\ r.at \in Writes
  BY DEF Link, At, EvidenceInv, Common, Writes
<1>2. IsProcess(r) /\ RightJob(r, disk) /\ name \in Artifact
  BY <1>1 DEF Local, Reached, IsProcess
<1>3. CASE disk.file[name] # Missing
  <2>1. UNCHANGED disk
    BY <1>3 DEF Link
  <2> QED BY <2>1, Unseen
<1>4. CASE disk.file[name] = Missing
  <2>1. disk' = [disk EXCEPT !.file[name] = <<content>>]
    BY <1>4, Contents DEF Link
  <2>2. disk'.file = [disk.file EXCEPT ![name] = <<content>>] /\ disk'.log = disk.log
    BY <1>1, <2>1 DEF IsDisk
  <2>3. /\ disk'.file[name] = <<content>>
        /\ \A other \in Artifact \ {name} : disk'.file[other] = disk.file[other]
    BY <1>1, <1>2, <2>2 DEF IsDisk
  <2>4. /\ Summary \in Artifact /\ Attestation \in Artifact /\ Summary # Attestation
        /\ {Manifest, Config} \cap {Summary, Attestation} = {}
    BY Names
  <2>5. EventsShown = disk.log /\ UNCHANGED EventsShown
    BY <2>2 DEF EventsShown, OneKindOfHarm
  <2>6. /\ SummaryShown = IF disk.file[Summary] = Missing THEN <<>> ELSE <<h>>
        /\ AttestationShown = IF disk.file[Attestation] = Missing THEN <<>> ELSE <<h>>
        /\ disk.file[Attestation] # Missing => disk.file[Summary] # Missing
    BY ShownIs
  <2> HIDE DEF r, name, content, h
  <2>7. CASE name \notin {Summary, Attestation}
    <3>1. disk'.file[Summary] = disk.file[Summary] /\ disk'.file[Attestation] = disk.file[Attestation]
      BY <2>3, <2>4, <2>7
    <3>2. UNCHANGED <<SummaryShown, AttestationShown>>
      BY <3>1 DEF SummaryShown, AttestationShown, OneKindOfHarm, StoredSummary, StoredAttestation
    <3> QED BY <2>5, <3>2 DEF Shown
  <2>8. CASE name = Summary
    <3>1. r.job.next = "attestation"
      BY <1>2, <2>4, <2>8, Names DEF RightJob, name
    <3>2. content = SummaryOf(r.head) /\ Complete(r.head) /\ Accepted(r.head) /\ r.head = h
      BY <1>1, <1>2, <3>1 DEF RightJob, Verified, Local, Follows, content, h
    <3>3. Len(disk.log) = Length
      BY <1>1, <3>2, HistoryType DEF Complete, IsDisk, h
    <3>4. disk'.file[Summary] = <<SummaryOf(h)>> /\ disk'.file[Attestation] = disk.file[Attestation]
      BY <2>3, <2>4, <2>8, <3>2
    <3>5. StoredSummary' = <<SummaryOf(h)>> /\ UNCHANGED StoredAttestation
      BY <3>4 DEF StoredSummary, StoredAttestation
    <3>6. SummaryShown' = <<h>>
      <4>1. StoredSummary' # Missing /\ StoredSummary'[1] = SummaryOf(h)
        BY <3>5, Contents
      <4>2. StoredSummary'[1].eventHash = h
        BY <4>1, SummaryTells
      <4> QED BY <4>1, <4>2 DEF SummaryShown, OneKindOfHarm
    <3>7. UNCHANGED AttestationShown
      BY <3>5 DEF AttestationShown, OneKindOfHarm
    <3>8. SummaryShown = <<>>
      BY <1>4, <2>6, <2>8
    <3> QED BY <2>5, <3>2, <3>3, <3>6, <3>7, <3>8, RecordActions DEF h
  <2>9. CASE name = Attestation
    <3>1. r.job.next \in {"settle", "attested"}
      BY <1>2, <2>4, <2>9, Names DEF RightJob, name
    <3>2. content = AttestationOf(SummaryOf(r.head)) /\ disk.file[Summary] = <<SummaryOf(r.head)>>
      BY <1>2, <3>1 DEF RightJob, Summarised, content
    <3>3. SummaryShown = <<r.head>>
      <4>1. StoredSummary # Missing /\ StoredSummary[1] = SummaryOf(r.head)
        BY <3>2, Contents DEF StoredSummary
      <4>2. StoredSummary[1].eventHash = r.head
        BY <4>1, SummaryTells
      <4> QED BY <4>1, <4>2 DEF SummaryShown
    <3>4. disk'.file[Summary] = disk.file[Summary] /\ disk'.file[Attestation] = <<content>>
      BY <2>3, <2>4, <2>9
    <3>5. StoredAttestation' = <<content>> /\ UNCHANGED StoredSummary
      BY <3>4 DEF StoredSummary, StoredAttestation
    <3>6. AttestationShown' = <<r.head>>
      <4>1. StoredAttestation' # Missing /\ StoredAttestation'[1] = AttestationOf(SummaryOf(r.head))
        BY <3>2, <3>5, Contents
      <4>2. StoredAttestation'[1].summary = SummaryOf(r.head)
        BY <4>1, SummaryTells
      <4>3. StoredAttestation'[1].summary.eventHash = r.head
        BY <4>2, SummaryTells
      <4> QED BY <4>1, <4>3 DEF AttestationShown, OneKindOfHarm
    <3>7. UNCHANGED SummaryShown
      BY <3>5 DEF SummaryShown, OneKindOfHarm
    <3>8. AttestationShown = <<>>
      BY <1>4, <2>6, <2>9
    <3>9. SummaryShown # <<>>
      BY <3>3, Contents DEF Missing
    <3> QED BY <2>5, <3>3, <3>6, <3>7, <3>8, <3>9, RecordActions
  <2> QED BY <2>7, <2>8, <2>9
<1> QED BY <1>3, <1>4

(* What a loss of power takes is under no summary. *)
LEMMA LosePowerShown ==
    ASSUME EvidenceInv, OneKindOfHarm, LosePower
    PROVE  RecordNext \/ UNCHANGED Shown
<1>1. /\ Common(scenario, disk) /\ IsDisk(disk) /\ scenario' = scenario /\ left.losses > 0
      /\ Counted(scenario, left)
  BY DEF EvidenceInv, Common, LosePower
<1>2. PICK cut \in BOOLEAN, n \in disk.synced .. Len(disk.log) :
         LET kept == [disk EXCEPT !.log = SubSeq(@, 1, n), !.synced = n,
                                  !.torn = @ \/ (cut /\ n < Len(disk.log))]
         IN disk' = Struck({p \in Process : Live(p)}, cut, kept)
  BY DEF LosePower
<1> DEFINE kept == [disk EXCEPT !.log = SubSeq(@, 1, n), !.synced = n,
                                !.torn = @ \/ (cut /\ n < Len(disk.log))]
<1>3. /\ disk.log \in Seq(Event) /\ Len(disk.log) \in Nat /\ n \in 0 .. Len(disk.log)
      /\ disk.synced \in Nat /\ disk.synced <= n
  BY <1>1 DEF IsDisk
<1>4. kept.log = SubSeq(disk.log, 1, n) /\ kept.file = disk.file
  BY <1>1 DEF IsDisk
<1>5. disk'.log = SubSeq(disk.log, 1, n) /\ disk'.file = disk.file
  <2>1. \A ended : /\ Struck(ended, cut, kept).log = kept.log
                   /\ Struck(ended, cut, kept).file = kept.file
    BY <1>1 DEF IsDisk, Struck
  <2>2. disk' = Struck({p \in Process : Live(p)}, cut, kept)
    BY <1>2
  <2> HIDE DEF kept
  <2> QED BY <1>4, <2>1, <2>2
<1>6. CASE disk.file[Summary] # Missing
  <2>1. scenario.losses # 0
    BY <1>1, EvidenceAssumption DEF Counted, EvidenceInv
  <2>2. scenario.kills = 0
    BY <2>1 DEF OneKindOfHarm
  <2>3. disk.synced = Len(disk.log)
    BY <1>1, <1>6, <2>2 DEF Common
  <2>4. n = Len(disk.log)
    BY <1>3, <2>3
  <2>5. disk'.log = disk.log
    BY <1>3, <1>5, <2>4
  <2> QED BY <1>1, <1>5, <2>5, Unseen
<1>7. CASE disk.file[Summary] = Missing
  <2>1. SummaryShown = <<>> /\ AttestationShown = <<>> /\ EventsShown = disk.log
    BY <1>7, ShownIs
  <2>2. EventsShown' = disk'.log
    BY <1>1 DEF EventsShown, OneKindOfHarm
  <2>3. UNCHANGED <<SummaryShown, AttestationShown>>
    BY <1>1, <1>5, SameFilesShown
  <2> QED BY <1>3, <1>5, <2>1, <2>2, <2>3, RecordActions
<1> QED BY <1>6, <1>7

(* No other step of a process touches events or artifacts. *)
LEMMA WorkShown ==
    ASSUME EvidenceInv, OneKindOfHarm, NEW p \in Process, Work(p)
    PROVE  RecordNext \/ UNCHANGED Shown
<1>1. IsDisk(disk) /\ scenario' = scenario
  BY DEF EvidenceInv, Common, Work
<1>2. CASE AcquireWriterLease(p)
  <2>1. disk'.log = disk.log /\ disk'.file = disk.file
    BY <1>1, <1>2 DEF AcquireWriterLease, IsDisk
  <2> QED BY <1>1, <2>1, Unseen
<1>3. CASE AppendMetrics(p)
  <2>1. disk'.log = disk.log /\ disk'.file = disk.file
    BY <1>1, <1>3 DEF AppendMetrics, AppendRow, IsDisk
  <2> QED BY <1>1, <2>1, Unseen
<1>4. CASE Flush(p) \/ Settle(p)
  <2>1. disk'.log = disk.log /\ disk'.file = disk.file
    BY <1>1, <1>4 DEF Flush, Settle, Flushed, IsDisk
  <2> QED BY <1>1, <2>1, Unseen
<1>5. CASE Release(p)
  <2>1. disk'.log = disk.log /\ disk'.file = disk.file
    BY <1>1, <1>5 DEF Release, IsDisk
  <2> QED BY <1>1, <2>1, Unseen
<1>6. CASE AppendEvent(p) \/ Link(p)
  BY <1>1, <1>6, AppendEventShown, LinkShown
<1>7. CASE UNCHANGED disk
  BY <1>1, <1>7, Unseen
<1>8. CASE \/ Start(p) \/ OpenLog(p) \/ RecoverExistingRun(p)
           \/ LookForExisting(p) \/ WriteTemporary(p) \/ UnlinkTemporary(p) \/ Verify(p)
           \/ OpenExisting(p) \/ OpenSnapshot(p) \/ ReplaySnapshot(p) \/ CompareSnapshot(p)
           \/ AssertStable(p) \/ AttestRunEvidence(p) \/ VerifyAttestation(p)
  <2>1. UNCHANGED disk
    BY <1>8 DEF Start, OpenLog, RecoverExistingRun, LookForExisting, WriteTemporary,
       UnlinkTemporary, Verify, OpenExisting, OpenSnapshot, ReplaySnapshot, CompareSnapshot,
       AssertStable, AttestRunEvidence, VerifyAttestation
  <2> QED BY <1>7, <2>1
<1> QED BY <1>2, <1>3, <1>4, <1>5, <1>6, <1>8 DEF Work

(* Every step is a step of the record, or nothing of it is seen. *)
LEMMA NextShown == EvidenceInv /\ [Next]_vars => [RecordNext]_Shown
<1> SUFFICES ASSUME EvidenceInv, [Next]_vars PROVE RecordNext \/ UNCHANGED Shown
  OBVIOUS
<1>1. scenario' = scenario
  BY DEF Next, Work, Pause, Kill, LosePower, RemoveStaleLock, vars
<1>2. CASE ~OneKindOfHarm
  BY <1>1, <1>2, NothingShown
<1>3. CASE OneKindOfHarm
  <2>1. IsDisk(disk)
    BY DEF EvidenceInv, Common
  <2>2. CASE UNCHANGED vars
    BY <2>2, Unseen DEF vars
  <2>3. ASSUME NEW p \in Process, Pause(p)
        PROVE  UNCHANGED Shown
    BY <1>1, <2>3, Unseen DEF Pause, PauseAtBoundary
  <2>4. ASSUME NEW p \in Process, Kill(p)
        PROVE  UNCHANGED Shown
    <3>1. disk'.log = disk.log /\ disk'.file = disk.file
      BY <2>1, <2>4 DEF Kill, Struck, IsDisk
    <3> QED BY <1>1, <3>1, Unseen
  <2>5. CASE RemoveStaleLock
    <3>1. disk'.log = disk.log /\ disk'.file = disk.file
      BY <2>1, <2>5 DEF RemoveStaleLock, IsDisk
    <3> QED BY <1>1, <3>1, Unseen
  <2> QED BY <1>3, <2>2, <2>3, <2>4, <2>5, WorkShown, LosePowerShown DEF Next
<1> QED BY <1>2, <1>3

(* However runs, kills or losses of power, and attesters follow one another,   *)
(* what is on the disk is an evidence record: one chain, one summary of the    *)
(* whole of it, one attestation of the summary, and nothing lost after that    *)
(* (src/lab/genesis.ts:116, src/lab/artifacts.ts, #writeImmutable).            *)
THEOREM DiskImplementsRecord == Spec => ImplementsEvidenceRecord
<1>1. Init => EvidenceRecorded!Init
  BY Names DEF Init, EmptyDisk, EvidenceRecorded!Init, StoredSummary, StoredAttestation
<1>2. EvidenceInv /\ [Next]_vars =>
        [EvidenceRecorded!Next]_<<IF OneKindOfHarm THEN disk.log ELSE <<>>,
                                  IF OneKindOfHarm /\ StoredSummary # Missing
                                  THEN <<StoredSummary[1].eventHash>> ELSE <<>>,
                                  IF OneKindOfHarm /\ StoredAttestation # Missing
                                  THEN <<StoredAttestation[1].summary.eventHash>> ELSE <<>>>>
  BY NextShown DEF RecordNext, Shown, EventsShown, SummaryShown, AttestationShown
<1> QED BY <1>1, <1>2, EvidenceInvariant, PTL
        DEF Spec, ImplementsEvidenceRecord, EvidenceRecorded!Spec

-----------------------------------------------------------------------------
(* What an evidence record promises, of whatever implements it.               *)

(* A published history is the whole history of the chain, and one that the    *)
(* verifier takes.                                                            *)
OfRecord(published) ==
    /\ Len(EventsShown) = Length /\ published = <<History(EventsShown)>>
    /\ Accepted(History(EventsShown))

(* Each event names the history before it.                                    *)
ChainOf(chain) ==
    \A i \in 1 .. Len(chain) : chain[i].previous = [j \in 1 .. i - 1 |-> chain[j].answer]

RecordType ==
    /\ EventsShown \in Seq(Event)
    /\ SummaryShown \in Seq(Seq(Content)) /\ AttestationShown \in Seq(Seq(Content))

(* A summary or an attestation that is there is of the whole chain.           *)
RecordSealed ==
    /\ SummaryShown # <<>> => OfRecord(SummaryShown)
    /\ AttestationShown # <<>> => OfRecord(AttestationShown) /\ AttestationShown = SummaryShown

(* What has been summarised or attested stays as it is.                       *)
RecordFinal ==
    /\ SummaryShown # <<>> => EventsShown' = EventsShown /\ SummaryShown' = SummaryShown
    /\ AttestationShown # <<>> => AttestationShown' = AttestationShown

RecordInv == RecordType /\ ChainOf(EventsShown) /\ RecordSealed

RecordAdds ==
    /\ Len(EventsShown) < Length
    /\ \E a \in Content :
          EventsShown' = Append(EventsShown, [previous |-> History(EventsShown), answer |-> a])
    /\ UNCHANGED <<SummaryShown, AttestationShown>>

RecordLoses ==
    /\ SummaryShown = <<>> /\ AttestationShown = <<>>
    /\ \E n \in 0 .. Len(EventsShown) : EventsShown' = SubSeq(EventsShown, 1, n)
    /\ UNCHANGED <<SummaryShown, AttestationShown>>

RecordConcludes ==
    /\ Len(EventsShown) = Length /\ SummaryShown = <<>>
    /\ Accepted(History(EventsShown))
    /\ SummaryShown' = <<History(EventsShown)>>
    /\ UNCHANGED <<EventsShown, AttestationShown>>

RecordAttests ==
    /\ SummaryShown # <<>> /\ AttestationShown = <<>>
    /\ AttestationShown' = SummaryShown
    /\ UNCHANGED <<EventsShown, SummaryShown>>

(* The record takes these steps and no other.                                 *)
LEMMA RecordSteps ==
    RecordNext => RecordAdds \/ RecordLoses \/ RecordConcludes \/ RecordAttests
<1>1. (\A i \in 1 .. Len(EventsShown) : EventsShown[i].answer \in Answer)
         => Accepted(History(EventsShown))
  BY DEF Accepted, History
<1> QED BY <1>1 DEF RecordNext, EvidenceRecorded!Next, EvidenceRecorded!Record, EvidenceRecorded!Lose,
       EvidenceRecorded!Conclude, EvidenceRecorded!Attest, EvidenceRecorded!History, History,
       EventsShown, SummaryShown, AttestationShown,
       RecordAdds, RecordLoses, RecordConcludes, RecordAttests

(* Nothing is recorded and nothing published at first. *)
LEMMA RecordInit == EvidenceRecorded!Init => RecordInv
<1>1. EvidenceRecorded!Init => EventsShown = <<>> /\ SummaryShown = <<>> /\ AttestationShown = <<>>
  BY DEF EvidenceRecorded!Init, EventsShown, SummaryShown, AttestationShown
<1>2. EventsShown = <<>> /\ SummaryShown = <<>> /\ AttestationShown = <<>> => RecordInv
  BY DEF RecordInv, RecordType, ChainOf, RecordSealed
<1> QED BY <1>1, <1>2

(* The event that is added names the chain it is added to. *)
LEMMA RecordAddsInv ==
    ASSUME RecordInv, RecordAdds
    PROVE  RecordInv'
<1> DEFINE e == EventsShown
           f == EventsShown'
<1>1. PICK a \in Content : f = Append(e, [previous |-> History(e), answer |-> a])
  BY DEF RecordAdds
<1>2. /\ Len(e) < Length
      /\ SummaryShown' = SummaryShown /\ AttestationShown' = AttestationShown
  BY DEF RecordAdds
<1>3. e \in Seq(Event) /\ History(e) \in Seq(Content)
  BY HistoryType DEF RecordInv, RecordType
<1>4. [previous |-> History(e), answer |-> a] \in Event
  BY <1>3 DEF Event
<1>5. f \in Seq(Event) /\ Len(f) = Len(e) + 1 /\ Len(e) \in Nat
  BY <1>1, <1>3, <1>4
<1>6. SummaryShown = <<>> /\ AttestationShown = <<>>
  BY <1>2, <1>5, LayoutType DEF RecordInv, RecordSealed, OfRecord
<1>7. RecordType' /\ RecordSealed'
  BY <1>2, <1>5, <1>6 DEF RecordInv, RecordType, RecordSealed
<1>8. ChainOf(f)
  <2> SUFFICES ASSUME NEW i \in 1 .. Len(f)
               PROVE  f[i].previous = [j \in 1 .. i - 1 |-> f[j].answer]
    BY DEF ChainOf
  <2>1. \A j \in 1 .. Len(e) : f[j] = e[j]
    BY <1>1, <1>3
  <2>2. CASE i \in 1 .. Len(e)
    <3>1. f[i].previous = [j \in 1 .. i - 1 |-> e[j].answer]
      BY <2>1, <2>2 DEF RecordInv, ChainOf
    <3>2. \A j \in 1 .. i - 1 : f[j].answer = e[j].answer
      BY <1>5, <2>1, <2>2
    <3> QED BY <3>1, <3>2
  <2>3. CASE i = Len(e) + 1
    <3>1. f[i] = [previous |-> History(e), answer |-> a]
      BY <1>1, <1>3, <1>5, <2>3
    <3>2. f[i].previous = [j \in 1 .. i - 1 |-> e[j].answer]
      BY <1>5, <2>3, <3>1 DEF History
    <3>3. \A j \in 1 .. i - 1 : f[j].answer = e[j].answer
      BY <1>5, <2>1, <2>3
    <3> QED BY <3>2, <3>3
  <2> QED BY <1>5, <2>2, <2>3
<1>9. ChainOf(EventsShown)'
  BY <1>8 DEF ChainOf
<1> QED BY <1>7, <1>9 DEF RecordInv

(* What is left of a chain that loses its end is a chain. *)
LEMMA RecordLosesInv ==
    ASSUME RecordInv, RecordLoses
    PROVE  RecordInv'
<1> DEFINE e == EventsShown
           f == EventsShown'
<1>1. PICK n \in 0 .. Len(e) : f = SubSeq(e, 1, n)
  BY DEF RecordLoses
<1>2. /\ SummaryShown = <<>> /\ AttestationShown = <<>>
      /\ SummaryShown' = SummaryShown /\ AttestationShown' = AttestationShown
  BY DEF RecordLoses
<1>3. e \in Seq(Event) /\ Len(e) \in Nat /\ n \in Nat /\ n <= Len(e)
  BY DEF RecordInv, RecordType
<1>4. f \in Seq(Event) /\ Len(f) = n
  BY <1>1, <1>3, SubSeqProperties
<1>5. \A j \in 1 .. n : f[j] = e[j]
  BY <1>1, <1>3
<1>6. RecordType' /\ RecordSealed'
  BY <1>2, <1>4 DEF RecordInv, RecordType, RecordSealed
<1>7. ChainOf(f)
  <2> SUFFICES ASSUME NEW i \in 1 .. n
               PROVE  f[i].previous = [j \in 1 .. i - 1 |-> f[j].answer]
    BY <1>4 DEF ChainOf
  <2>1. f[i].previous = [j \in 1 .. i - 1 |-> e[j].answer]
    BY <1>3, <1>5 DEF RecordInv, ChainOf
  <2>2. \A j \in 1 .. i - 1 : f[j].answer = e[j].answer
    BY <1>3, <1>5
  <2> QED BY <2>1, <2>2
<1>8. ChainOf(EventsShown)'
  BY <1>7 DEF ChainOf
<1> QED BY <1>6, <1>8 DEF RecordInv

(* The summary is of the whole chain, and the attestation is the summary.     *)
LEMMA RecordPublishesInv ==
    ASSUME RecordInv, RecordConcludes \/ RecordAttests
    PROVE  RecordInv'
<1>1. EventsShown' = EventsShown
  BY DEF RecordConcludes, RecordAttests
<1>2. ChainOf(EventsShown)' /\ History(EventsShown)' = History(EventsShown)
  BY <1>1 DEF RecordInv, ChainOf, History
<1>3. History(EventsShown) \in Seq(Content)
  BY HistoryType DEF RecordInv, RecordType
<1>4. CASE RecordConcludes
  <2>1. /\ Len(EventsShown) = Length /\ SummaryShown = <<>>
        /\ SummaryShown' = <<History(EventsShown)>> /\ AttestationShown' = AttestationShown
        /\ Accepted(History(EventsShown))
    BY <1>4 DEF RecordConcludes
  <2>2. AttestationShown = <<>>
    BY <2>1 DEF RecordInv, RecordSealed
  <2>3. RecordType'
    BY <1>1, <1>3, <2>1 DEF RecordInv, RecordType
  <2>4. RecordSealed'
    BY <1>1, <1>2, <2>1, <2>2 DEF RecordSealed, OfRecord
  <2> QED BY <1>2, <2>3, <2>4 DEF RecordInv
<1>5. CASE RecordAttests
  <2>1. /\ SummaryShown # <<>> /\ AttestationShown' = SummaryShown
        /\ SummaryShown' = SummaryShown
    BY <1>5 DEF RecordAttests
  <2>2. OfRecord(SummaryShown)
    BY <2>1 DEF RecordInv, RecordSealed
  <2>3. RecordType'
    BY <1>1, <2>1 DEF RecordInv, RecordType
  <2>4. RecordSealed'
    BY <1>1, <1>2, <2>1, <2>2 DEF RecordSealed, OfRecord
  <2> QED BY <1>2, <2>3, <2>4 DEF RecordInv
<1> QED BY <1>4, <1>5

(* Every step of a record keeps it, and what is published. *)
LEMMA RecordKept == RecordInv /\ (RecordNext \/ UNCHANGED Shown) => RecordInv'
<1> SUFFICES ASSUME RecordInv, RecordNext \/ UNCHANGED Shown PROVE RecordInv'
  OBVIOUS
<1>1. CASE UNCHANGED Shown
  BY <1>1 DEF Shown, RecordInv, RecordType, ChainOf, RecordSealed, OfRecord, History
<1> QED BY <1>1, RecordSteps, RecordAddsInv, RecordLosesInv, RecordPublishesInv

(* A step that finds a summary keeps the events and the summary, one that     *)
(* finds an attestation keeps it.                                             *)
LEMMA RecordStays == RecordInv /\ (RecordNext \/ UNCHANGED Shown) => RecordFinal
<1> SUFFICES ASSUME RecordInv, RecordNext PROVE RecordFinal
  BY DEF Shown, RecordFinal
<1>1. CASE RecordAdds
  <2>1. Len(EventsShown) # Length
    BY <1>1, LayoutType DEF RecordAdds, RecordInv, RecordType
  <2> QED BY <1>1, <2>1 DEF RecordInv, RecordSealed, OfRecord, RecordAdds, RecordFinal
<1>2. CASE RecordLoses
  BY <1>2 DEF RecordLoses, RecordFinal
<1>3. CASE RecordConcludes
  BY <1>3 DEF RecordInv, RecordSealed, RecordConcludes, RecordFinal
<1>4. CASE RecordAttests
  BY <1>4 DEF RecordAttests, RecordFinal
<1> QED BY <1>1, <1>2, <1>3, <1>4, RecordSteps

(* The record of a run (src/lab/event-recorder.ts, src/lab/genesis.ts): its   *)
(* events are one hash chain, its summary is of all of them and of none that   *)
(* the verifier does not take, and its attestation is of that summary; this   *)
(* is so of whatever EvidenceRecord describes, and the disk is such a record. *)
THEOREM RecordIsSealed == Spec => [](RecordType /\ ChainOf(EventsShown) /\ RecordSealed)
<1>1. EvidenceRecorded!Init => RecordInv
  BY RecordInit
<1>2. RecordInv /\ [EvidenceRecorded!Next]_Shown => RecordInv'
  BY RecordKept DEF RecordNext
<1>3. ImplementsEvidenceRecord => []RecordInv
  BY <1>1, <1>2, PTL DEF ImplementsEvidenceRecord, EvidenceRecorded!Spec, Shown,
     EventsShown, SummaryShown, AttestationShown
<1>4. RecordInv => RecordType /\ ChainOf(EventsShown) /\ RecordSealed
  BY DEF RecordInv
<1> QED BY <1>3, <1>4, DiskImplementsRecord, PTL

(* After a run is summarised no event is lost, added or replaced, and its     *)
(* summary and its attestation are written once                               *)
(* (src/lab/artifacts.ts, #writeImmutable).                                   *)
THEOREM PublishedIsFinal == Spec => [][RecordFinal]_Shown
<1>1. RecordInv /\ [EvidenceRecorded!Next]_Shown => [RecordFinal]_Shown
  BY RecordStays DEF RecordNext
<1>2. [](RecordType /\ ChainOf(EventsShown) /\ RecordSealed) => []RecordInv
  BY PTL DEF RecordInv
<1>3. ImplementsEvidenceRecord /\ []RecordInv => [][RecordFinal]_Shown
  BY <1>1, PTL DEF ImplementsEvidenceRecord, EvidenceRecorded!Spec, Shown,
     EventsShown, SummaryShown, AttestationShown
<1> QED BY <1>2, <1>3, RecordIsSealed, DiskImplementsRecord, PTL

-----------------------------------------------------------------------------
(* What is published stays, in every scenario.                                *)

ArtifactsStay == Keeps(disk, disk')

(* Only a link touches artifacts, and it finds the name free. *)
LEMMA WorkKeeps ==
    ASSUME EvidenceInv, NEW p \in Process, Work(p)
    PROVE  ArtifactsStay
<1>1. IsDisk(disk)
  BY DEF EvidenceInv, Common
<1>2. CASE disk'.file = disk.file
  BY <1>2 DEF ArtifactsStay, Keeps
<1>3. CASE AcquireWriterLease(p) \/ AppendEvent(p) \/ AppendMetrics(p)
           \/ Flush(p) \/ Settle(p) \/ Release(p)
  <2>1. disk'.file = disk.file
    BY <1>1, <1>3 DEF AcquireWriterLease, AppendEvent, AppendMetrics, AppendRow, Flush, Settle,
       Flushed, Release, IsDisk
  <2> QED BY <1>2, <2>1
<1>4. CASE Link(p)
  <2> DEFINE name == proc[p].job.name
  <2> DEFINE content == <<proc[p].job.content>>
  <2>1. CASE disk.file[name] # Missing
    <3>1. UNCHANGED disk
      BY <1>4, <2>1 DEF Link
    <3> QED BY <1>2, <3>1
  <2>2. CASE disk.file[name] = Missing
    <3>1. disk' = [disk EXCEPT !.file[name] = content]
      BY <1>4, <2>2, Contents DEF Link
    <3>2. disk'.file = [disk.file EXCEPT ![name] = content]
      BY <1>1, <3>1 DEF IsDisk
    <3> HIDE DEF name, content
    <3>3. \A other \in Artifact \ {name} : disk'.file[other] = disk.file[other]
      BY <1>1, <3>2 DEF IsDisk
    <3> QED BY <2>2, <3>3 DEF ArtifactsStay, Keeps
  <2> QED BY <2>1, <2>2
<1>5. CASE \/ Start(p) \/ OpenLog(p) \/ RecoverExistingRun(p)
           \/ LookForExisting(p) \/ WriteTemporary(p) \/ UnlinkTemporary(p) \/ Verify(p)
           \/ OpenExisting(p) \/ OpenSnapshot(p) \/ ReplaySnapshot(p) \/ CompareSnapshot(p)
           \/ AssertStable(p) \/ AttestRunEvidence(p) \/ VerifyAttestation(p)
  <2>1. UNCHANGED disk
    BY <1>5 DEF Start, OpenLog, RecoverExistingRun, LookForExisting, WriteTemporary,
       UnlinkTemporary, Verify, OpenExisting, OpenSnapshot, ReplaySnapshot, CompareSnapshot,
       AssertStable, AttestRunEvidence, VerifyAttestation
  <2> QED BY <1>2, <2>1
<1> QED BY <1>3, <1>4, <1>5 DEF Work

(* Neither does what goes wrong. *)
LEMMA NextKeeps == EvidenceInv /\ [Next]_vars => [ArtifactsStay]_vars
<1> SUFFICES ASSUME EvidenceInv, Next PROVE ArtifactsStay
  BY DEF vars
<1>1. IsDisk(disk)
  BY DEF EvidenceInv, Common
<1>2. ASSUME disk'.file = disk.file
      PROVE  ArtifactsStay
  BY <1>2 DEF ArtifactsStay, Keeps
<1>3. ASSUME NEW p \in Process, Pause(p)
      PROVE  disk'.file = disk.file
  BY <1>3 DEF Pause, PauseAtBoundary
<1>4. ASSUME NEW p \in Process, Kill(p)
      PROVE  disk'.file = disk.file
  BY <1>1, <1>4 DEF Kill, Struck, IsDisk
<1>5. RemoveStaleLock => disk'.file = disk.file
  BY <1>1 DEF RemoveStaleLock, IsDisk
<1>6. LosePower => disk'.file = disk.file
  <2> SUFFICES ASSUME LosePower PROVE disk'.file = disk.file
    OBVIOUS
  <2>1. PICK cut \in BOOLEAN, n \in disk.synced .. Len(disk.log) :
           LET kept == [disk EXCEPT !.log = SubSeq(@, 1, n), !.synced = n,
                                    !.torn = @ \/ (cut /\ n < Len(disk.log))]
           IN disk' = Struck({p \in Process : Live(p)}, cut, kept)
    BY DEF LosePower
  <2> DEFINE kept == [disk EXCEPT !.log = SubSeq(@, 1, n), !.synced = n,
                                  !.torn = @ \/ (cut /\ n < Len(disk.log))]
  <2>2. kept.file = disk.file /\ \A ended : Struck(ended, cut, kept).file = kept.file
    BY <1>1 DEF IsDisk, Struck
  <2> HIDE DEF kept
  <2>3. disk' = Struck({p \in Process : Live(p)}, cut, kept)
    BY <2>1 DEF kept
  <2> QED BY <2>2, <2>3
<1> QED BY <1>2, <1>3, <1>4, <1>5, <1>6, WorkKeeps DEF Next

(* Manifest, config, checkpoints, summary and attestation are written once:    *)
(* whatever is killed, lost or started twice, no step replaces or removes one  *)
(* (src/lab/artifacts.ts, #writeImmutable and atomicCanonicalWrite).           *)
THEOREM ArtifactsAreFinal == Spec => [][ArtifactsStay]_vars
<1>1. EvidenceInv /\ [Next]_vars => [ArtifactsStay]_vars
  BY NextKeeps
<1> QED BY <1>1, EvidenceInvariant, PTL DEF Spec

-----------------------------------------------------------------------------
(* The order of the events of a run.                                          *)

(* Ticks never go back, and no tick has two events of one kind; only the start *)
(* belongs to tick 0.                                                         *)
Ordered(layout) ==
    \A i, j \in 1 .. Len(layout) : i < j =>
        /\ layout[i].tick <= layout[j].tick
        /\ layout[i].type = layout[j].type => layout[i].tick < layout[j].tick

Within(layout, t) ==
    \A i \in 1 .. Len(layout) :
        /\ layout[i] \in KindOfEvent /\ layout[i].tick <= t /\ layout[i].type # "run.completed"
        /\ layout[i].tick = 0 <=> layout[i].type \in {"run.started", "agent.created"}

(* The events of a tick have its number, and each a kind of its own. *)
LEMMA EventsOfTick ==
    ASSUME NEW t \in 1 .. Ticks
    PROVE  /\ TickEvents(t) \in Seq(KindOfEvent)
           /\ \A i \in 1 .. Len(TickEvents(t)) :
                /\ TickEvents(t)[i].tick = t
                /\ TickEvents(t)[i].type \in {"task.evaluated", "metrics.recorded", "tick.completed"}
           /\ \A i, j \in 1 .. Len(TickEvents(t)) :
                i < j => TickEvents(t)[i].type # TickEvents(t)[j].type
<1>1. Ticks \in Nat /\ t \in Nat
  BY EvidenceAssumption
<1>2. \A a, b : Kind(a, b).type = a /\ Kind(a, b).tick = b
  BY DEF Kind
<1> DEFINE a == Kind("task.evaluated", t)
<1> DEFINE b == Kind("metrics.recorded", t)
<1> DEFINE c == Kind("tick.completed", t)
<1>3. /\ a.type = "task.evaluated" /\ b.type = "metrics.recorded" /\ c.type = "tick.completed"
      /\ a.tick = t /\ b.tick = t /\ c.tick = t
  BY <1>2
<1>4. a \in KindOfEvent /\ b \in KindOfEvent /\ c \in KindOfEvent
  <2>1. t \in 0 .. Ticks
    BY <1>1
  <2> QED BY <2>1 DEF Kind, KindOfEvent
<1> DEFINE g == TickEvents(t)
<1>5. \/ Len(g) = 3 /\ g[1] = a /\ g[2] = b /\ g[3] = c
      \/ Len(g) = 2 /\ g[1] = a /\ g[2] = c
  <2> HIDE DEF a, b, c
  <2> DEFINE whole == <<a>> \o <<b>> \o <<c>>
  <2> DEFINE bare == <<a>> \o <<>> \o <<c>>
  <2>1. /\ Len(whole) = 3 /\ whole[1] = a /\ whole[2] = b /\ whole[3] = c
        /\ Len(bare) = 2 /\ bare[1] = a /\ bare[2] = c
    BY <1>4
  <2>2. g = whole \/ g = bare
    BY DEF TickEvents, a, b, c
  <2> HIDE DEF whole, bare, g
  <2> QED BY <2>1, <2>2
<1> HIDE DEF a, b, c, g
<1>6. \A i \in 1 .. Len(g) : i = 1 \/ i = 2 \/ (i = 3 /\ Len(g) = 3)
  <2>1. CASE Len(g) = 3
    <3>1. \A i \in 1 .. 3 : i = 1 \/ i = 2 \/ i = 3
      OBVIOUS
    <3> QED BY <2>1, <3>1
  <2>2. CASE Len(g) = 2
    <3>1. \A i \in 1 .. 2 : i = 1 \/ i = 2
      OBVIOUS
    <3> QED BY <2>2, <3>1
  <2> QED BY <1>5, <2>1, <2>2
<1>7. \A i \in 1 .. Len(g) :
         g[i].tick = t /\ g[i].type \in {"task.evaluated", "metrics.recorded", "tick.completed"}
  BY <1>3, <1>5, <1>6
<1>8. \A i, j \in 1 .. Len(g) : i < j => g[i].type # g[j].type
  BY <1>3, <1>5, <1>6
<1> QED BY <1>7, <1>8, TickEventsType DEF g

(* A layout with one more tick. *)
LEMMA OrderedWithTick ==
    ASSUME NEW f \in Seq(KindOfEvent), NEW t \in Nat, t + 1 \in 1 .. Ticks,
           Ordered(f), Within(f, t)
    PROVE  Ordered(f \o TickEvents(t + 1)) /\ Within(f \o TickEvents(t + 1), t + 1)
<1> DEFINE g == TickEvents(t + 1)
<1>1. /\ g \in Seq(KindOfEvent)
      /\ \A i \in 1 .. Len(g) :
           g[i].tick = t + 1 /\ g[i].type \in {"task.evaluated", "metrics.recorded", "tick.completed"}
      /\ \A i, j \in 1 .. Len(g) : i < j => g[i].type # g[j].type
  BY EventsOfTick
<1> HIDE DEF g
<1> DEFINE s == f \o g
<1> DEFINE n == Len(f)
<1>2. /\ Len(s) = n + Len(g) /\ n \in Nat /\ Len(g) \in Nat
      /\ \A i \in 1 .. n : s[i] = f[i]
      /\ \A i \in 1 .. Len(g) : s[n + i] = g[i]
  BY <1>1
<1> HIDE DEF s
<1>3. ASSUME NEW i \in 1 .. Len(s), ~ i <= n
      PROVE  i - n \in 1 .. Len(g) /\ s[i] = g[i - n]
  <2>1. i - n \in 1 .. Len(g) /\ n + (i - n) = i
    BY <1>2, <1>3
  <2> QED BY <1>2, <2>1
<1> HIDE DEF n
<1>4. ASSUME NEW i \in 1 .. Len(s), i <= n
      PROVE  i \in 1 .. n /\ s[i] = f[i]
  BY <1>2, <1>4
<1>5. Within(s, t + 1)
  <2> SUFFICES ASSUME NEW i \in 1 .. Len(s)
               PROVE  /\ s[i] \in KindOfEvent /\ s[i].tick <= t + 1 /\ s[i].type # "run.completed"
                      /\ s[i].tick = 0 <=> s[i].type \in {"run.started", "agent.created"}
    BY DEF Within
  <2>1. CASE i <= n
    <3>1. i \in 1 .. Len(f) /\ s[i] = f[i]
      BY <1>4, <2>1 DEF n
    <3>2. /\ f[i] \in KindOfEvent /\ f[i].tick <= t /\ f[i].type # "run.completed"
          /\ f[i].tick = 0 <=> f[i].type \in {"run.started", "agent.created"}
      BY <3>1 DEF Within
    <3>3. f[i].tick \in Nat
      BY <3>2, EvidenceAssumption DEF KindOfEvent
    <3> QED BY <3>1, <3>2, <3>3
  <2>2. CASE ~ i <= n
    <3>1. i - n \in 1 .. Len(g) /\ s[i] = g[i - n]
      BY <1>3, <2>2
    <3> QED BY <1>1, <3>1
  <2> QED BY <2>1, <2>2
<1>6. Ordered(s)
  <2> SUFFICES ASSUME NEW i \in 1 .. Len(s), NEW j \in 1 .. Len(s), i < j
               PROVE  /\ s[i].tick <= s[j].tick
                      /\ s[i].type = s[j].type => s[i].tick < s[j].tick
    BY DEF Ordered
  <2>1. CASE j <= n
    <3>1. i <= n
      BY <1>2, <2>1
    <3>2. /\ i \in 1 .. Len(f) /\ s[i] = f[i]
          /\ j \in 1 .. Len(f) /\ s[j] = f[j]
      BY <1>4, <2>1, <3>1 DEF n
    <3> QED BY <3>2 DEF Ordered
  <2>2. CASE i <= n /\ ~ j <= n
    <3>1. i \in 1 .. Len(f) /\ s[i] = f[i] /\ j - n \in 1 .. Len(g) /\ s[j] = g[j - n]
      BY <1>3, <1>4, <2>2 DEF n
    <3>2. f[i] \in KindOfEvent /\ f[i].tick <= t
      BY <3>1 DEF Within
    <3>3. f[i].tick \in Nat
      BY <3>2, EvidenceAssumption DEF KindOfEvent
    <3>4. s[j].tick = t + 1
      BY <1>1, <3>1
    <3> QED BY <3>1, <3>2, <3>3, <3>4
  <2>3. CASE ~ i <= n
    <3>1. ~ j <= n
      BY <1>2, <2>3
    <3>2. /\ i - n \in 1 .. Len(g) /\ s[i] = g[i - n]
          /\ j - n \in 1 .. Len(g) /\ s[j] = g[j - n]
      BY <1>3, <2>3, <3>1
    <3>3. i - n < j - n
      BY <1>2
    <3> QED BY <1>1, <3>2, <3>3
  <2> QED BY <2>1, <2>2, <2>3
<1> QED BY <1>5, <1>6 DEF s, g

(* The events up to a tick are in order. *)
LEMMA UptoOrdered ==
    ASSUME NEW t \in 0 .. Ticks
    PROVE  Upto[t] \in Seq(KindOfEvent) /\ Ordered(Upto[t]) /\ Within(Upto[t], t)
<1> DEFINE good == {n \in Nat : n <= Ticks =>
                       Upto[n] \in Seq(KindOfEvent) /\ Ordered(Upto[n]) /\ Within(Upto[n], n)}
<1>1. Ticks \in Nat /\ \A a, b : Kind(a, b).type = a /\ Kind(a, b).tick = b
  BY EvidenceAssumption DEF Kind
<1>2. /\ FirstEvents \in Seq(KindOfEvent) /\ Len(FirstEvents) = 2
      /\ FirstEvents[1] \in KindOfEvent /\ FirstEvents[2] \in KindOfEvent
      /\ FirstEvents[1].type = "run.started" /\ FirstEvents[1].tick = 0
      /\ FirstEvents[2].type = "agent.created" /\ FirstEvents[2].tick = 0
  <2>1. Kind("run.started", 0) \in KindOfEvent /\ Kind("agent.created", 0) \in KindOfEvent
    BY <1>1 DEF Kind, KindOfEvent
  <2>2. /\ Len(FirstEvents) = 2
        /\ FirstEvents[1] = Kind("run.started", 0) /\ FirstEvents[2] = Kind("agent.created", 0)
    BY DEF FirstEvents
  <2>3. FirstEvents \in Seq(KindOfEvent)
    BY <2>1 DEF FirstEvents
  <2> QED BY <1>1, <2>1, <2>2, <2>3
<1>3. 0 \in good
  <2>1. \A i \in 1 .. 2 : i = 1 \/ i = 2
    OBVIOUS
  <2>2. Within(FirstEvents, 0)
    BY <1>2, <2>1 DEF Within
  <2>3. Ordered(FirstEvents)
    BY <1>2, <2>1 DEF Ordered
  <2> QED BY <1>2, <2>2, <2>3, UptoUnfolds
<1>4. ASSUME NEW n \in Nat, n \in good
      PROVE  n + 1 \in good
  <2> SUFFICES ASSUME n + 1 <= Ticks
               PROVE  /\ Upto[n + 1] \in Seq(KindOfEvent)
                      /\ Ordered(Upto[n + 1]) /\ Within(Upto[n + 1], n + 1)
    OBVIOUS
  <2>1. /\ Upto[n] \in Seq(KindOfEvent) /\ Ordered(Upto[n]) /\ Within(Upto[n], n)
        /\ n + 1 \in 1 .. Ticks /\ (n + 1) - 1 = n
    BY <1>1, <1>4
  <2>2. Upto[n + 1] = Upto[n] \o TickEvents(n + 1)
    BY <2>1, UptoUnfolds DEF MoreEvents
  <2>3. TickEvents(n + 1) \in Seq(KindOfEvent)
    BY <2>1, TickEventsType
  <2> QED BY <2>1, <2>2, <2>3, OrderedWithTick
<1> HIDE DEF good
<1>5. Nat \subseteq good
  BY <1>3, <1>4, NatSetInduction
<1> QED BY <1>1, <1>5 DEF good

(* The layout of a run: "run.completed" is its last event and only that. *)
LEMMA LayoutOrdered ==
    /\ Length \in Nat \ {0} /\ Layout[Length].type = "run.completed" /\ Layout[Length].tick = Ticks
    /\ \A i \in 1 .. Length :
         /\ Layout[i] \in KindOfEvent /\ Layout[i].tick \in 0 .. Ticks
         /\ Layout[i].type = "run.completed" => i = Length
         /\ i # Length => (Layout[i].tick = 0 <=> Layout[i].type \in {"run.started", "agent.created"})
    /\ \A i, j \in 1 .. Length : i < j =>
         /\ Layout[i].tick <= Layout[j].tick
         /\ Layout[i].type = Layout[j].type => Layout[i].tick < Layout[j].tick
<1> DEFINE f == Upto[Ticks]
<1> DEFINE last == Kind("run.completed", Ticks)
<1> DEFINE n == Len(f)
<1>1. Ticks \in 0 .. Ticks /\ Ticks \in Nat
  BY EvidenceAssumption
<1>2. f \in Seq(KindOfEvent) /\ Ordered(f) /\ Within(f, Ticks)
  BY <1>1, UptoOrdered
<1>3. last \in KindOfEvent /\ last.type = "run.completed" /\ last.tick = Ticks
  BY <1>1 DEF Kind, KindOfEvent
<1> HIDE DEF f, last
<1>4. /\ Layout = Append(f, last) /\ Length = n + 1 /\ n \in Nat
      /\ Layout[n + 1] = last /\ \A i \in 1 .. n : Layout[i] = f[i]
  <2>1. Layout = Append(f, last)
    BY DEF Layout, f, last
  <2>2. /\ Len(Append(f, last)) = n + 1 /\ n \in Nat /\ Append(f, last)[n + 1] = last
        /\ \A i \in 1 .. n : Append(f, last)[i] = f[i]
    BY <1>2, <1>3
  <2> QED BY <2>1, <2>2 DEF Length
<1>5. \A i \in 1 .. Length : i \in 1 .. n \/ i = Length
  BY <1>4
<1>6. \A i \in 1 .. n :
        /\ Layout[i] \in KindOfEvent /\ Layout[i].tick <= Ticks /\ Layout[i].type # "run.completed"
        /\ Layout[i].tick = 0 <=> Layout[i].type \in {"run.started", "agent.created"}
  BY <1>2, <1>4 DEF Within
<1>7. Layout[Length] = last
  BY <1>4
<1>8. \A e \in KindOfEvent : e.tick \in 0 .. Ticks
  BY DEF KindOfEvent
<1>9. \A i \in 1 .. Length :
         /\ Layout[i] \in KindOfEvent /\ Layout[i].tick \in 0 .. Ticks
         /\ Layout[i].type = "run.completed" => i = Length
         /\ i # Length => (Layout[i].tick = 0 <=> Layout[i].type \in {"run.started", "agent.created"})
  BY <1>3, <1>5, <1>6, <1>7, <1>8
<1>10. ASSUME NEW i \in 1 .. Length, NEW j \in 1 .. Length, i < j
       PROVE  /\ Layout[i].tick <= Layout[j].tick
              /\ Layout[i].type = Layout[j].type => Layout[i].tick < Layout[j].tick
  <2>1. i \in 1 .. n
    BY <1>4, <1>10
  <2>2. CASE j \in 1 .. n
    <3>1. Layout[i] = f[i] /\ Layout[j] = f[j] /\ i \in 1 .. Len(f) /\ j \in 1 .. Len(f)
      BY <1>4, <2>1, <2>2
    <3> QED BY <1>2, <1>10, <3>1 DEF Ordered
  <2>3. CASE j = Length
    BY <1>3, <1>6, <1>7, <2>1, <2>3
  <2> QED BY <1>5, <2>2, <2>3
<1> QED BY <1>3, <1>4, <1>7, <1>9, <1>10

(* A tick has one boundary. *)
LEMMA OneBoundary ==
    ASSUME NEW i \in 1 .. Length, NEW j \in 1 .. Length, Layout[i].tick = Layout[j].tick,
           Layout[i].type \in {"agent.created", "tick.completed"},
           Layout[j].type \in {"agent.created", "tick.completed"}
    PROVE  i = j
<1>1. i # Length /\ j # Length /\ Length \in Nat
  BY LayoutOrdered
<1>2. Layout[i].type = Layout[j].type
  BY <1>1, LayoutOrdered
<1>3. Layout[i].tick \in Nat
  BY LayoutOrdered, EvidenceAssumption
<1>4. ~ i < j
  BY <1>2, <1>3, LayoutOrdered
<1>5. ~ j < i
  BY <1>2, <1>3, LayoutOrdered
<1> QED BY <1>1, <1>4, <1>5

-----------------------------------------------------------------------------
(* The rows of a history.                                                     *)

RowStep(g, history, k) ==
    IF Layout[k].type = "metrics.recorded"
    THEN Append(g[k - 1], [tick |-> Layout[k].tick, of |-> SubSeq(history, 1, k)])
    ELSE g[k - 1]

(* The rows after each of the first events. *)
RowsLoop(g, history, n) ==
    g = [k \in 0 .. n |-> IF k = 0 THEN <<>> ELSE RowStep(g, history, k)]

(* There is such a function. *)
LEMMA RowsLoopExists ==
    ASSUME NEW history, NEW n \in Nat
    PROVE  \E g : RowsLoop(g, history, n)
<1> DEFINE defined == {m \in Nat : \E g : RowsLoop(g, history, m)}
<1>1. 0 \in defined
  <2> DEFINE g == [k \in 0 .. 0 |-> <<>>]
  <2>1. g = [k \in 0 .. 0 |-> IF k = 0 THEN <<>> ELSE RowStep(g, history, k)]
    OBVIOUS
  <2>2. RowsLoop(g, history, 0)
    BY <2>1 DEF RowsLoop
  <2> QED BY <2>2
<1>2. ASSUME NEW m \in Nat, m \in defined
      PROVE  m + 1 \in defined
  <2>1. PICK g : RowsLoop(g, history, m)
    BY <1>2
  <2> DEFINE f == [k \in 0 .. m + 1 |-> IF k = m + 1 THEN RowStep(g, history, k) ELSE g[k]]
  <2>2. ASSUME NEW k \in 0 .. m + 1
        PROVE  f[k] = IF k = 0 THEN <<>> ELSE RowStep(f, history, k)
    <3>1. CASE k = 0
      <4>1. g[0] = <<>>
        BY <2>1 DEF RowsLoop
      <4> QED BY <3>1, <4>1
    <3>2. CASE k # 0
      <4>1. k - 1 \in 0 .. m /\ k - 1 # m + 1 /\ k - 1 \in 0 .. m + 1
        BY <3>2
      <4>2. f[k - 1] = g[k - 1]
        BY <4>1
      <4>3. RowStep(f, history, k) = RowStep(g, history, k)
        BY <4>2 DEF RowStep
      <4>4. CASE k = m + 1
        BY <3>2, <4>3, <4>4
      <4>5. CASE k # m + 1
        <5>1. k \in 0 .. m
          BY <4>5
        <5>2. g[k] = RowStep(g, history, k)
          BY <2>1, <3>2, <5>1 DEF RowsLoop
        <5> QED BY <3>2, <4>3, <4>5, <5>2
      <4> QED BY <4>4, <4>5
    <3> QED BY <3>1, <3>2
  <2>3. f = [k \in 0 .. m + 1 |-> f[k]]
    OBVIOUS
  <2> HIDE DEF f
  <2>4. RowsLoop(f, history, m + 1)
    BY <2>2, <2>3 DEF RowsLoop
  <2> QED BY <2>4
<1> HIDE DEF defined
<1>3. Nat \subseteq defined
  BY <1>1, <1>2, NatSetInduction
<1> QED BY <1>3 DEF defined

(* RowsOf is its last value. *)
LEMMA RowsOfIs ==
    ASSUME NEW history, Len(history) \in Nat
    PROVE  \E g : RowsLoop(g, history, Len(history)) /\ RowsOf(history) = g[Len(history)]
<1> DEFINE rows == CHOOSE g : RowsLoop(g, history, Len(history))
<1>1. RowsLoop(rows, history, Len(history))
  <2>1. \E g : RowsLoop(g, history, Len(history))
    BY RowsLoopExists
  <2> QED BY <2>1
<1>2. RowsOf(history) = rows[Len(history)]
  BY DEF RowsOf, RowsLoop, RowStep
<1> HIDE DEF rows
<1> QED BY <1>1, <1>2

BeginAlike(h, l, m) == \A k \in 1 .. m : SubSeq(h, 1, k) = SubSeq(l, 1, k)

(* Two histories that begin alike have the same rows there. *)
LEMMA RowsLoopAgree ==
    ASSUME NEW h, NEW l, NEW m \in Nat, NEW n \in Nat, m <= n,
           NEW f, NEW g, RowsLoop(f, h, m), RowsLoop(g, l, n),
           BeginAlike(h, l, m)
    PROVE  f[m] = g[m]
<1> DEFINE same == {k \in Nat : k <= m => f[k] = g[k]}
<1>1. 0 \in same
  BY DEF RowsLoop
<1>2. ASSUME NEW k \in Nat, k \in same
      PROVE  k + 1 \in same
  <2> SUFFICES ASSUME k + 1 <= m PROVE f[k + 1] = g[k + 1]
    OBVIOUS
  <2>1. /\ k + 1 \in 0 .. m /\ k + 1 \in 0 .. n /\ k + 1 \in 1 .. m /\ k + 1 # 0
        /\ (k + 1) - 1 = k /\ f[k] = g[k]
    BY <1>2
  <2>2. f[k + 1] = RowStep(f, h, k + 1) /\ g[k + 1] = RowStep(g, l, k + 1)
    BY <2>1 DEF RowsLoop
  <2>3. SubSeq(h, 1, k + 1) = SubSeq(l, 1, k + 1)
    BY <2>1 DEF BeginAlike
  <2>4. RowStep(f, h, k + 1) = RowStep(g, l, k + 1)
    BY <2>1, <2>3 DEF RowStep
  <2> QED BY <2>2, <2>4
<1> HIDE DEF same
<1>3. Nat \subseteq same
  BY <1>1, <1>2, NatSetInduction
<1> QED BY <1>3 DEF same

(* The beginning of a sequence stays when it grows, and it is its own beginning. *)
LEMMA Beginning ==
    ASSUME NEW S, NEW s \in Seq(S), NEW x \in S
    PROVE  /\ \A k \in 0 .. Len(s) : SubSeq(Append(s, x), 1, k) = SubSeq(s, 1, k)
           /\ SubSeq(s, 1, Len(s)) = s
<1> DEFINE t == Append(s, x)
<1>1. t \in Seq(S) /\ Len(t) = Len(s) + 1 /\ Len(s) \in Nat /\ \A i \in 1 .. Len(s) : t[i] = s[i]
  OBVIOUS
<1> HIDE DEF t
<1>2. ASSUME NEW k \in 0 .. Len(s)
      PROVE  SubSeq(t, 1, k) = SubSeq(s, 1, k)
  <2>1. SubSeq(t, 1, k) \in Seq(S) /\ SubSeq(s, 1, k) \in Seq(S)
    BY <1>1
  <2>2. Len(SubSeq(t, 1, k)) = k /\ Len(SubSeq(s, 1, k)) = k
    BY <1>1
  <2>3. \A i \in 1 .. k : SubSeq(t, 1, k)[i] = t[i] /\ SubSeq(s, 1, k)[i] = s[i]
    BY <1>1
  <2>4. \A i \in 1 .. k : t[i] = s[i]
    BY <1>1
  <2> QED BY <2>1, <2>2, <2>3, <2>4, SeqEqual
<1>3. SubSeq(s, 1, Len(s)) = s
  OBVIOUS
<1> QED BY <1>2, <1>3 DEF t

(* What an event adds to the rows. *)
LEMMA RowsGrow ==
    ASSUME NEW h \in Seq(Content), NEW a \in Content
    PROVE  LET l == Append(h, a)
           IN RowsOf(l) = IF Layout[Len(l)].type = "metrics.recorded"
                          THEN Append(RowsOf(h), [tick |-> TickOf(l), of |-> l])
                          ELSE RowsOf(h)
<1> DEFINE l == Append(h, a)
<1> DEFINE m == Len(h)
<1> DEFINE n == Len(l)
<1>1. m \in Nat /\ n = m + 1 /\ l \in Seq(Content)
  OBVIOUS
<1>2. BeginAlike(h, l, m)
  BY Beginning DEF BeginAlike
<1>3. SubSeq(l, 1, n) = l
  BY <1>1, Beginning
<1>4. PICK f : RowsLoop(f, h, m) /\ RowsOf(h) = f[m]
  BY <1>1, RowsOfIs
<1> HIDE DEF l
<1>5. PICK g : RowsLoop(g, l, n) /\ RowsOf(l) = g[n]
  BY <1>1, RowsOfIs
<1>6. m <= n /\ n \in Nat
  BY <1>1
<1> HIDE DEF m, n
<1>7. f[m] = g[m]
  BY <1>1, <1>2, <1>4, <1>5, <1>6, RowsLoopAgree
<1>8. g[n] = RowStep(g, l, n)
  <2>1. n \in 0 .. n /\ n # 0
    BY <1>1
  <2> QED BY <1>5, <2>1 DEF RowsLoop
<1>9. n - 1 = m
  BY <1>1
<1> QED BY <1>3, <1>4, <1>5, <1>7, <1>8, <1>9 DEF RowStep, TickOf, l, n

(* The last row is of a tick that has been measured; before the first event *)
(* there is none.                                                           *)
LEMMA LastRow ==
    ASSUME NEW h \in Seq(Content), Len(h) <= Length
    PROVE  /\ RowsOf(<<>>) = <<>>
           /\ RowsOf(h) \in Seq(Row)
           /\ RowsOf(h) # <<>> =>
                \E i \in 1 .. Len(h) : /\ Layout[i].type = "metrics.recorded"
                                       /\ Last(RowsOf(h)).tick = Layout[i].tick
<1> DEFINE m == Len(h)
<1>1. m \in Nat /\ m <= Length /\ Length \in Nat
  BY LayoutOrdered
<1>2. PICK f : RowsLoop(f, h, m) /\ RowsOf(h) = f[m]
  BY <1>1, RowsOfIs
<1>3. RowsOf(<<>>) = <<>>
  <2>1. Len(<<>>) = 0
    OBVIOUS
  <2>2. PICK g : RowsLoop(g, <<>>, 0) /\ RowsOf(<<>>) = g[0]
    BY <2>1, RowsOfIs
  <2> QED BY <2>2 DEF RowsLoop
<1>4. \A k \in 1 .. m : SubSeq(h, 1, k) \in Seq(Content)
  OBVIOUS
<1> HIDE DEF m
<1> DEFINE Told(k) ==
             /\ f[k] \in Seq(Row)
             /\ f[k] # <<>> => \E i \in 1 .. k : /\ Layout[i].type = "metrics.recorded"
                                                 /\ Last(f[k]).tick = Layout[i].tick
<1> DEFINE good == {k \in Nat : k <= m => Told(k)}
<1>5. 0 \in good
  <2>1. f[0] = <<>>
    BY <1>1, <1>2 DEF RowsLoop
  <2>2. Told(0)
    BY <2>1
  <2> QED BY <2>2
<1>6. ASSUME NEW k \in Nat, k \in good
      PROVE  k + 1 \in good
  <2> SUFFICES ASSUME k + 1 <= m PROVE Told(k + 1)
    OBVIOUS
  <2>1. Told(k) /\ k + 1 \in 1 .. m /\ k + 1 \in 0 .. m /\ k + 1 # 0 /\ (k + 1) - 1 = k
    BY <1>1, <1>6
  <2>2. f[k + 1] = RowStep(f, h, k + 1)
    BY <1>2, <2>1 DEF RowsLoop
  <2>3. CASE Layout[k + 1].type # "metrics.recorded"
    <3>1. f[k + 1] = f[k]
      BY <2>1, <2>2, <2>3 DEF RowStep
    <3> QED BY <2>1, <3>1
  <2>4. CASE Layout[k + 1].type = "metrics.recorded"
    <3> DEFINE row == [tick |-> Layout[k + 1].tick, of |-> SubSeq(h, 1, k + 1)]
    <3>1. f[k + 1] = Append(f[k], row)
      BY <2>1, <2>2, <2>4 DEF RowStep
    <3>2. Layout[k + 1].tick \in 0 .. Ticks /\ SubSeq(h, 1, k + 1) \in Seq(Content)
      <4>1. k + 1 \in 1 .. Length
        BY <1>1, <2>1
      <4>2. Layout[k + 1].tick \in 0 .. Ticks
        BY <4>1, LayoutOrdered
      <4>3. SubSeq(h, 1, k + 1) \in Seq(Content)
        BY <1>4, <2>1
      <4> QED BY <4>2, <4>3
    <3>3. row \in Row /\ row.tick = Layout[k + 1].tick
      BY <3>2 DEF Row
    <3> HIDE DEF row
    <3>4. Append(f[k], row) \in Seq(Row) /\ Last(Append(f[k], row)) = row
      BY <2>1, <3>3 DEF Last
    <3> QED BY <2>1, <2>4, <3>1, <3>3, <3>4
  <2> QED BY <2>3, <2>4
<1> HIDE DEF good
<1>7. Nat \subseteq good
  BY <1>5, <1>6, NatSetInduction
<1>8. Told(m)
  <2> HIDE DEF Told
  <2> QED BY <1>1, <1>7 DEF good
<1> QED BY <1>2, <1>3, <1>8 DEF m

-----------------------------------------------------------------------------
(* A run that nobody harms is refused for an event that the verifier does not  *)
(* take and for nothing else.  The invariant says what its directory holds at  *)
(* each place of its code; where it has the lease only it can disturb that.    *)

(* What a run has been through: its policy, and whether one was ever paused.   *)
Story == [policy |-> scenario.policy, paused |-> left.signals < scenario.signals]

(* The events behind which a checkpoint is taken. *)
Ends == {"agent.created", "tick.completed", "run.completed"}

(* A directory that nobody was killed over: what is in it is whole, and each   *)
(* checkpoint is of the events up to the end of its tick.                      *)
Sound(d) ==
    /\ d.lock # "stale" /\ ~d.torn /\ ~d.tornRow /\ ~d.stray
    /\ Chained(d.log)
    /\ \A name \in {Manifest, Config} : d.file[name] \in {Missing, <<Identity>>}
    /\ \A t \in 0 .. Ticks : d.file[Checkpoint(t)] # Missing =>
          \E n \in 1 .. Len(d.log) :
              /\ Layout[n].tick = t /\ Layout[n].type \in Ends
              /\ d.file[Checkpoint(t)] = <<SubSeq(History(d.log), 1, n)>>

(* What a run leaves that ends without harm: nothing, a complete history, or   *)
(* one that a pause ended at a boundary, with its checkpoint.                  *)
AtRest(s, d) ==
    LET history == History(d.log)
    IN /\ d.rows = RowsOf(history)
       /\ \/ history = <<>>
          \/ Complete(history)
          \/ /\ s.policy = "neutral" /\ s.paused /\ AtBoundary(history)
             /\ d.file[Checkpoint(TickOf(history))] # Missing

Around(r, places, nexts) == r.at \in places \/ (r.at \in Writes /\ r.job.next \in nexts)

(* #lastMetricTick and #lastCheckpointTick are what the directory says. *)
MetricRemembered(r, d) == r.metric = IF d.rows = <<>> THEN 0 ELSE Last(d.rows).tick

SavedRemembered(r, d) ==
    /\ r.saved # NoTick /\ r.at \notin Writes => d.file[Checkpoint(r.saved)] # Missing
    /\ d.file[Checkpoint(Ticks)] # Missing => r.saved = Ticks

CheckpointDue(r, d) ==
    /\ r.saved \in 0 .. Ticks /\ r.job.name = Checkpoint(r.saved) /\ r.job.content = r.head
    /\ r.head # <<>> /\ TickOf(r.head) = r.saved /\ Layout[Len(r.head)].type \in Ends
    /\ d.file[Checkpoint(r.saved)] \in {Missing, <<r.head>>}

MetricsDue(r, d) ==
    /\ Layout[Len(r.head)].type = "metrics.recorded"
    /\ RowsOf(r.head) = Append(d.rows, [tick |-> TickOf(r.head), of |-> r.head])
    /\ d.rows # <<>> => Last(d.rows).tick < TickOf(r.head)

Ending(s, r) ==
    \/ r.end = "none" /\ Complete(r.head)
    \/ /\ r.end = "paused" /\ s.policy = "neutral" /\ s.paused
       /\ AtBoundary(r.head) /\ r.saved = TickOf(r.head)

(* The log holds an event that the verifier does not take.                     *)
Refusable(d) == ~Accepted(History(d.log))

Goes(s, r, d) ==
    /\ r.at # "refused"
    /\ r.at = "failed" => Refusable(d)
    /\ r.at = "abandon" => Refusable(d) /\ AtRest(s, d)
    /\ Around(r, {"lease", "open", "recover"}, {"config", "open"}) =>
          r.saved = NoTick /\ r.end = "none"
    /\ Around(r, {"open", "recover"}, {"config", "open"}) => AtRest(s, d)
    /\ r.at \in Writes /\ r.job.next \in {"config", "open"} => r.job.content = Identity
    /\ Around(r, {"recover", "append", "metrics"}, {"append"}) =>
          r.end = "none" /\ MetricRemembered(r, d)
    /\ Around(r, {"append", "metrics", "flush"}, {"append", "flush"}) => SavedRemembered(r, d)
    /\ Around(r, {}, {"append", "flush"}) => CheckpointDue(r, d)
    /\ Around(r, {"append", "flush", "verify", "settle"}, {"append", "flush", "attestation", "settle"}) =>
          d.rows = RowsOf(r.head)
    /\ r.at = "metrics" => MetricsDue(r, d)
    /\ Around(r, {"flush"}, {"flush"}) => Ending(s, r)
    /\ r.at = "verify" => Complete(r.head)
    /\ r.at = "release" =>
          /\ r.end \in {"paused", "completed"} \/ (r.end = "failed" /\ Refusable(d))
          /\ AtRest(s, d)

(* An attester has no part in that. *)
Watches(r) == ~ Owns(r) /\ r.at # "lease"

Harmless ==
    /\ Sound(disk)
    /\ disk.lock = "free" => AtRest(Story, disk)
    /\ \A p \in Runner : Goes(Story, proc[p], disk)
    /\ \A p \in Process \ Runner : Watches(proc[p])

HarmlessInv == Unharmed => Harmless

-----------------------------------------------------------------------------
(* What holds of a sound directory.                                           *)

(* The event that is appended continues the chain. *)
LEMMA ChainGrows ==
    ASSUME NEW log \in Seq(Event), Chained(log), NEW e \in Event, e.previous = History(log)
    PROVE  Chained(Append(log, e))
<1> DEFINE longer == Append(log, e)
<1>1. /\ Len(longer) = Len(log) + 1 /\ Len(log) \in Nat
      /\ \A i \in 1 .. Len(log) : longer[i] = log[i]
      /\ longer[Len(log) + 1] = e
  OBVIOUS
<1>2. /\ \A k \in 0 .. Len(log) : SubSeq(longer, 1, k) = SubSeq(log, 1, k)
      /\ SubSeq(log, 1, Len(log)) = log
  BY Beginning
<1> HIDE DEF longer
<1> SUFFICES ASSUME NEW i \in 1 .. Len(longer)
             PROVE  longer[i].previous = History(SubSeq(longer, 1, i - 1))
  BY DEF Chained, longer
<1>3. i - 1 \in 0 .. Len(log) /\ (i \in 1 .. Len(log) \/ (i - 1 = Len(log) /\ i = Len(log) + 1))
  <2>1. i \in 1 .. Len(log) + 1
    BY <1>1
  <2> QED BY <1>1, <2>1
<1>4. SubSeq(longer, 1, i - 1) = SubSeq(log, 1, i - 1)
  BY <1>2, <1>3
<1>5. CASE i \in 1 .. Len(log)
  BY <1>1, <1>4, <1>5 DEF Chained
<1>6. CASE i - 1 = Len(log) /\ i = Len(log) + 1
  BY <1>1, <1>2, <1>4, <1>6
<1> QED BY <1>3, <1>5, <1>6

(* The names of checkpoints differ. *)
LEMMA CheckpointNames ==
    ASSUME NEW t, NEW u, Checkpoint(t) = Checkpoint(u)
    PROVE  t = u
<1>1. \A a, b : Named(a, b).tick = b
  BY DEF Named
<1> QED BY <1>1 DEF Checkpoint

(* The tick of a history. *)
LEMMA HistoryTick ==
    ASSUME NEW h \in Seq(Content), Len(h) <= Length, h # <<>>
    PROVE  /\ Len(h) \in 1 .. Length /\ TickOf(h) = Layout[Len(h)].tick /\ TickOf(h) \in 0 .. Ticks
           /\ Complete(h) <=> Layout[Len(h)].type = "run.completed"
           /\ AtBoundary(h) <=> Layout[Len(h)].type \in {"agent.created", "tick.completed"}
<1> DEFINE n == Len(h)
<1>1. n \in 1 .. Length
  BY LayoutOrdered
<1>2. Layout[n].tick \in 0 .. Ticks /\ (Layout[n].type = "run.completed" <=> n = Length)
  <2> HIDE DEF n
  <2> QED BY <1>1, LayoutOrdered
<1>3. n > 0
  BY <1>1
<1> QED BY <1>1, <1>2, <1>3 DEF TickOf, Complete, AtBoundary

(* At a boundary the checkpoint of its tick is of the history so far. *)
LEMMA CheckpointThere ==
    ASSUME NEW d, IsDisk(d), Sound(d), NEW h, h = History(d.log), h # <<>>, AtBoundary(h)
    PROVE  d.file[Checkpoint(TickOf(h))] \in {Missing, <<h>>}
<1> DEFINE t == TickOf(h)
<1>1. d.log \in Seq(Event) /\ Len(d.log) <= Length
  BY DEF IsDisk
<1>2. h \in Seq(Content) /\ Len(h) = Len(d.log) /\ Len(h) <= Length
  BY <1>1, HistoryType
<1>3. /\ Len(h) \in 1 .. Length /\ t = Layout[Len(h)].tick /\ t \in 0 .. Ticks
      /\ Layout[Len(h)].type \in {"agent.created", "tick.completed"}
  BY <1>2, HistoryTick
<1>4. SUFFICES ASSUME d.file[Checkpoint(t)] # Missing PROVE d.file[Checkpoint(t)] = <<h>>
  OBVIOUS
<1> HIDE DEF t
<1>5. PICK n \in 1 .. Len(d.log) :
         /\ Layout[n].tick = t /\ Layout[n].type \in Ends
         /\ d.file[Checkpoint(t)] = <<SubSeq(h, 1, n)>>
  BY <1>3, <1>4 DEF Sound
<1>6. n \in 1 .. Length /\ Length \in Nat
  BY <1>2, <1>3, <1>5, LayoutOrdered
<1>7. Layout[n].type # "run.completed"
  <2> SUFFICES ASSUME Layout[n].type = "run.completed" PROVE FALSE
    OBVIOUS
  <2>1. n = Length
    BY <1>6, LayoutOrdered
  <2>2. Len(h) = Length
    BY <1>2, <1>3, <1>5, <2>1
  <2> QED BY <1>3, <2>2, LayoutOrdered
<1>8. n = Len(h)
  BY <1>3, <1>5, <1>6, <1>7, OneBoundary DEF Ends
<1>9. SubSeq(h, 1, n) = h
  BY <1>2, <1>8
<1> QED BY <1>5, <1>9

(* No checkpoint is of a later tick than the history. *)
LEMMA CheckpointsBehind ==
    ASSUME NEW d, IsDisk(d), Sound(d), NEW h, h = History(d.log), NEW t \in 0 .. Ticks,
           d.file[Checkpoint(t)] # Missing
    PROVE  h # <<>> /\ t <= TickOf(h)
<1>1. d.log \in Seq(Event) /\ Len(d.log) <= Length
  BY DEF IsDisk
<1>2. h \in Seq(Content) /\ Len(h) = Len(d.log) /\ Len(h) <= Length
  BY <1>1, HistoryType
<1>3. PICK n \in 1 .. Len(d.log) : Layout[n].tick = t
  BY DEF Sound
<1>4. h # <<>>
  BY <1>2, <1>3
<1>5. Len(h) \in 1 .. Length /\ TickOf(h) = Layout[Len(h)].tick
  BY <1>2, <1>4, HistoryTick
<1>6. n \in 1 .. Length /\ (n = Len(h) \/ n < Len(h))
  <2>1. n \in 1 .. Len(h) /\ Length \in Nat
    BY <1>2, <1>3, LayoutOrdered
  <2> QED BY <1>5, <2>1
<1>7. CASE n = Len(h)
  BY <1>3, <1>5, <1>7
<1>8. CASE n < Len(h)
  <2> DEFINE m == Len(h)
  <2>1. n < m /\ m \in 1 .. Length /\ TickOf(h) = Layout[m].tick
    BY <1>5, <1>8
  <2> HIDE DEF m
  <2>2. Layout[n].tick <= Layout[m].tick
    BY <1>6, <2>1, LayoutOrdered
  <2> QED BY <1>3, <1>4, <2>1, <2>2
<1> QED BY <1>4, <1>6, <1>7, <1>8

-----------------------------------------------------------------------------
(* Whom a step does not disturb.                                              *)

(* One that has not the lease, whatever is added to the directory; *)
LEMMA NotOwnerGoes ==
    ASSUME NEW s, NEW t, NEW r, NEW d, NEW e, Goes(s, r, d), ~ Owns(r),
           Refusable(d) => Refusable(e)
    PROVE  Goes(t, r, e)
<1>1. /\ r.at \notin {"open", "recover", "append", "metrics", "flush", "verify", "settle",
                     "abandon", "release"}
      /\ r.at \in Writes => r.job.next \notin {"config", "open", "append", "flush", "attestation", "settle"}
  BY DEF Owns, Runs
<1> QED BY <1>1 DEF Goes, Around

(* a process with nothing to do, or that has just been told how its run ended; *)
LEMMA QuietGoes ==
    ASSUME NEW s, NEW r, NEW d,
           r.at \in {"idle", "completed"} \/ (r.at = "lease" /\ r.saved = NoTick /\ r.end = "none")
    PROVE  Goes(s, r, d)
BY DEF Goes, Around, Writes

(* one that gives up for an event that the verifier does not take;             *)
LEMMA FailedGoes ==
    ASSUME NEW s, NEW d, NEW r, IsProcess(r), NEW p \in Runner, Refusable(d), AtRest(s, d)
    PROVE  Goes(s, Failed(p, r), d)
<1> DEFINE u == Failed(p, r)
<1>1. u.at = "abandon"
  BY DEF Failed, IsProcess
<1> HIDE DEF u
<1>2. Goes(s, u, d)
  BY <1>1 DEF Goes, Around, Writes
<1> QED BY <1>2 DEF u

(* and nobody, where events, rows, checkpoints and configuration stay. *)
SameRun(d, e) ==
    /\ e.log = d.log /\ e.rows = d.rows
    /\ \A t \in 0 .. Ticks : e.file[Checkpoint(t)] = d.file[Checkpoint(t)]

(* A directory at rest stays so, *)
LEMMA SameRunRests ==
    ASSUME NEW s, NEW d, NEW e, IsDisk(d), AtRest(s, d), SameRun(d, e)
    PROVE  AtRest(s, e)
<1> DEFINE h == History(d.log)
<1>1. d.log \in Seq(Event) /\ Len(d.log) <= Length
  BY DEF IsDisk
<1>2. h \in Seq(Content) /\ Len(h) <= Length
  BY <1>1, HistoryType
<1>3. h = History(e.log) /\ e.rows = d.rows
  BY DEF SameRun
<1> HIDE DEF h
<1>4. CASE h = <<>> \/ Complete(h)
  BY <1>3, <1>4 DEF AtRest, h
<1>5. CASE h # <<>> /\ ~Complete(h)
  <2>1. TickOf(h) \in 0 .. Ticks
    BY <1>2, <1>5, HistoryTick
  <2>2. e.file[Checkpoint(TickOf(h))] = d.file[Checkpoint(TickOf(h))]
    BY <2>1 DEF SameRun
  <2> QED BY <1>3, <2>2 DEF AtRest, h
<1> QED BY <1>4, <1>5

(* a run finds what it needs, *)
LEMMA SameRunGoes ==
    ASSUME NEW s, NEW r, NEW d, NEW e, IsProcess(r), IsDisk(d), Goes(s, r, d), SameRun(d, e)
    PROVE  Goes(s, r, e)
<1>1. AtRest(s, d) => AtRest(s, e)
  BY SameRunRests
<1>2. e.rows = d.rows
  BY DEF SameRun
<1>3. MetricRemembered(r, d) => MetricRemembered(r, e)
  BY <1>2 DEF MetricRemembered
<1>4. MetricsDue(r, d) => MetricsDue(r, e)
  BY <1>2 DEF MetricsDue
<1>5. \A t \in 0 .. Ticks : e.file[Checkpoint(t)] = d.file[Checkpoint(t)]
  BY DEF SameRun
<1>6. CheckpointDue(r, d) => CheckpointDue(r, e)
  BY <1>5 DEF CheckpointDue
<1>7. SavedRemembered(r, d) => SavedRemembered(r, e)
  <2>1. Ticks \in 0 .. Ticks /\ (r.saved # NoTick => r.saved \in 0 .. Ticks)
    BY EvidenceAssumption DEF IsProcess, NoTick
  <2> QED BY <1>5, <2>1 DEF SavedRemembered
<1>8. Refusable(d) => Refusable(e)
  BY DEF SameRun, Refusable
<1> QED BY <1>1, <1>2, <1>3, <1>4, <1>6, <1>7, <1>8 DEF Goes

(* and a directory that was sound is. *)
LEMMA SameRunSound ==
    ASSUME NEW d, NEW e, Sound(d), SameRun(d, e),
           e.lock # "stale", e.torn = d.torn, e.tornRow = d.tornRow, e.stray = d.stray,
           e.file[Manifest] = d.file[Manifest], e.file[Config] = d.file[Config]
    PROVE  Sound(e)
<1>1. \A name \in {Manifest, Config} : e.file[name] = d.file[name]
  OBVIOUS
<1> QED BY <1>1 DEF Sound, SameRun

(* Where nothing is paused and the scenario stays, the story does. *)
LEMMA StoryStays ==
    ASSUME UNCHANGED <<scenario, left>>
    PROVE  Story' = Story
BY DEF Story

(* A step of one process. *)
LEMMA HarmlessStep ==
    ASSUME EvidenceInv, Harmless, NEW p \in Process, NEW r, Becomes(p, r),
           Sound(disk'), disk'.lock = "free" => AtRest(Story', disk'),
           p \in Runner => Goes(Story', r, disk'), p \notin Runner => Watches(r),
           \A q \in Runner \ {p} : Goes(Story', proc[q], disk')
    PROVE  Harmless'
<1>1. proc' = [proc EXCEPT ![p] = r] /\ proc = [q \in Process |-> proc[q]]
  BY DEF Becomes, EvidenceInv
<1>2. proc'[p] = r /\ \A q \in Process \ {p} : proc'[q] = proc[q]
  BY <1>1
<1>3. Runner \subseteq Process
  BY DEF Process
<1>4. \A q \in Runner : Goes(Story', proc'[q], disk')
  BY <1>2, <1>3
<1>5. \A q \in Process \ Runner : Watches(proc'[q])
  BY <1>2 DEF Harmless
<1> QED BY <1>4, <1>5 DEF Harmless

(* One that leaves the directory alone. *)
LEMMA HarmlessQuietStep ==
    ASSUME EvidenceInv, Harmless, NEW p \in Process, NEW r, Becomes(p, r),
           UNCHANGED <<scenario, left, disk>>,
           p \in Runner => Goes(Story, r, disk), p \notin Runner => Watches(r)
    PROVE  Harmless'
<1>0. Story' = Story
  BY StoryStays
<1>1. Sound(disk') /\ (disk'.lock = "free" => AtRest(Story', disk'))
  BY <1>0 DEF Harmless
<1>2. \A q \in Runner \ {p} : Goes(Story', proc[q], disk')
  BY <1>0 DEF Harmless
<1>3. p \in Runner => Goes(Story', r, disk')
  BY <1>0
<1> QED BY <1>1, <1>2, <1>3, HarmlessStep

(* One of the owner of the lease. *)
LEMMA HarmlessOwnerStep ==
    ASSUME EvidenceInv, Harmless, NEW p \in Process, Owns(proc[p]), NEW r, Becomes(p, r),
           UNCHANGED <<scenario, left>>, Sound(disk'),
           disk'.lock = "free" => AtRest(Story, disk'), Refusable(disk) => Refusable(disk'),
           Goes(Story, r, disk')
    PROVE  Harmless'
<1>0. Story' = Story
  BY StoryStays
<1>1. p \in Runner
  BY DEF Harmless, Watches
<1>2. ASSUME NEW q \in Runner \ {p}
      PROVE  Goes(Story', proc[q], disk')
  <2>1. q \in Process \ {p}
    BY DEF Process
  <2>2. ~ Owns(proc[q])
    BY <2>1, OneOwner
  <2>3. Goes(Story, proc[q], disk)
    BY DEF Harmless
  <2> QED BY <2>2, <2>3, NotOwnerGoes
<1> QED BY <1>0, <1>1, <1>2, HarmlessStep

-----------------------------------------------------------------------------
(* Without harm the steps of runGenesis go on.                                *)

(* A process is started, *)
LEMMA StartGoes ==
    ASSUME EvidenceInv, Harmless, NEW p \in Process, Start(p), UNCHANGED <<scenario, left>>
    PROVE  Harmless'
<1> DEFINE u == To(Idle, IF p \in Runner THEN "lease" ELSE "discovery")
<1>1. Becomes(p, u) /\ UNCHANGED disk
  BY DEF Start
<1>2. /\ u.at = IF p \in Runner THEN "lease" ELSE "discovery"
      /\ u.saved = NoTick /\ u.end = "none"
  BY DEF Idle, To
<1> HIDE DEF u
<1>3. p \in Runner => Goes(Story, u, disk)
  BY <1>2, QuietGoes
<1>4. p \notin Runner => Watches(u)
  BY <1>2 DEF Watches, Owns, Runs, Writes
<1> QED BY <1>1, <1>3, <1>4, HarmlessQuietStep

(* takes the lease of a directory at rest, or ends; *)
LEMMA AcquireGoes ==
    ASSUME EvidenceInv, Harmless, NEW p \in Process, AcquireWriterLease(p),
           UNCHANGED <<scenario, left>>
    PROVE  Harmless'
<1>1. proc[p].at = "lease" /\ p \in Runner /\ Goes(Story, proc[p], disk)
  BY DEF AcquireWriterLease, At, Harmless, Watches
<1>2. IsDisk(disk) /\ Sound(disk)
  BY DEF EvidenceInv, Common, Harmless
<1>3. CASE disk.lock # "free"
  <2>1. Becomes(p, Idle) /\ UNCHANGED disk
    BY <1>3 DEF AcquireWriterLease
  <2>2. Goes(Story, Idle, disk)
    BY IdleIs, QuietGoes
  <2> QED BY <1>1, <2>1, <2>2, HarmlessQuietStep
<1>4. CASE disk.lock = "free"
  <2> DEFINE u == Publishing(proc[p], Manifest, Identity, "config")
  <2> DEFINE e == [disk EXCEPT !.lock = p]
  <2>1. disk' = e /\ Becomes(p, u)
    BY <1>4 DEF AcquireWriterLease
  <2>2. proc[p].saved = NoTick /\ proc[p].end = "none" /\ IsProcess(proc[p])
    BY <1>1 DEF Goes, Around, EvidenceInv, Local
  <2>3. /\ u.at = "existing" /\ u.saved = NoTick /\ u.end = "none"
        /\ u.job = [name |-> Manifest, content |-> Identity, next |-> "config"]
    BY <2>2 DEF Publishing, IsProcess
  <2>4. /\ e.lock = p /\ e.file = disk.file /\ e.log = disk.log /\ e.rows = disk.rows
        /\ e.torn = disk.torn /\ e.tornRow = disk.tornRow /\ e.stray = disk.stray
    BY <1>2 DEF IsDisk
  <2> HIDE DEF u, e
  <2>5. SameRun(disk, e) /\ e.lock \notin {"free", "stale"}
    BY <2>4, EvidenceAssumption DEF SameRun
  <2>6. Sound(e)
    BY <1>2, <2>4, <2>5, SameRunSound
  <2>7. AtRest(Story, e)
    BY <1>2, <1>4, <2>5, SameRunRests DEF Harmless
  <2>8. Goes(Story, u, e)
    BY <2>3, <2>7 DEF Goes, Around, Writes
  <2>9. Refusable(disk) => Refusable(e)
    BY <2>4 DEF Refusable
  <2>10. ASSUME NEW q \in Runner \ {p}
        PROVE  Goes(Story, proc[q], e)
    <3>1. Local(scenario, q, proc[q], disk) /\ Goes(Story, proc[q], disk) /\ q \in Process
      BY DEF EvidenceInv, Harmless, Process
    <3>2. ~ Owns(proc[q])
      BY <1>4, <3>1, EvidenceAssumption DEF Local
    <3> QED BY <2>9, <3>1, <3>2, NotOwnerGoes
  <2> QED BY <1>1, <2>1, <2>5, <2>6, <2>8, <2>10, StoryStays, HarmlessStep
<1> QED BY <1>3, <1>4

(* A process with the lease, its directory and its place. *)
LEMMA OwnerIs ==
    ASSUME EvidenceInv, Harmless, NEW p \in Process, Owns(proc[p]) \/ proc[p].at = "lease"
    PROVE  /\ p \in Runner /\ Goes(Story, proc[p], disk) /\ Local(scenario, p, proc[p], disk)
           /\ IsProcess(proc[p]) /\ IsDisk(disk) /\ Sound(disk) /\ Common(scenario, disk)
           /\ disk.log \in Seq(Event) /\ Len(disk.log) <= Length
           /\ Replayed = History(disk.log) /\ Replayed \in Seq(Content)
           /\ Len(Replayed) = Len(disk.log) /\ Len(Replayed) <= Length
<1>1. p \in Runner
  BY DEF Harmless, Watches
<1>2. /\ Goes(Story, proc[p], disk) /\ Local(scenario, p, proc[p], disk)
      /\ IsProcess(proc[p]) /\ IsDisk(disk) /\ Sound(disk) /\ Common(scenario, disk)
  BY <1>1 DEF Harmless, EvidenceInv, Local, Common
<1>3. disk.log \in Seq(Event) /\ Len(disk.log) <= Length
  BY <1>2 DEF IsDisk
<1> QED BY <1>1, <1>2, <1>3, HistoryType DEF Replayed

(* One whose step leaves the directory alone. *)
LEMMA OwnerQuietStep ==
    ASSUME EvidenceInv, Harmless, NEW p \in Process, Owns(proc[p]), NEW r, Becomes(p, r),
           UNCHANGED <<scenario, left, disk>>, Goes(Story, r, disk)
    PROVE  Harmless'
BY HarmlessQuietStep DEF Harmless, Watches

(* finds log and rows whole; *)
LEMMA OpenLogGoes ==
    ASSUME EvidenceInv, Harmless, NEW p \in Process, OpenLog(p), UNCHANGED <<scenario, left>>
    PROVE  Harmless'
<1>1. proc[p].at = "open" /\ UNCHANGED disk
  BY DEF OpenLog, At
<1>2. Owns(proc[p])
  BY <1>1 DEF Owns, Runs
<1>3. Goes(Story, proc[p], disk) /\ IsProcess(proc[p]) /\ Sound(disk)
  BY <1>2, OwnerIs
<1> DEFINE m == IF disk.rows = <<>> THEN 0 ELSE Last(disk.rows).tick
<1> DEFINE u == [proc[p] EXCEPT !.at = "recover", !.head = Replayed, !.metric = m]
<1>4. Becomes(p, u)
  BY <1>3 DEF OpenLog, Readable, RowsReadable, Sound
<1>5. AtRest(Story, disk) /\ proc[p].saved = NoTick /\ proc[p].end = "none"
  BY <1>1, <1>3 DEF Goes, Around
<1> HIDE DEF m
<1>6. u.at = "recover" /\ u.saved = NoTick /\ u.end = "none" /\ u.metric = m
  BY <1>3, <1>5 DEF IsProcess
<1> HIDE DEF u
<1>7. MetricRemembered(u, disk)
  BY <1>6 DEF MetricRemembered, m
<1>8. Goes(Story, u, disk)
  BY <1>5, <1>6, <1>7 DEF Goes, Around, Writes
<1> QED BY <1>1, <1>2, <1>4, <1>8, OwnerQuietStep

(* The last checkpoint of a history that ends at one is of its tick. *)
LEMMA LastCheckpointIs ==
    ASSUME IsDisk(disk), Sound(disk), Replayed # <<>>, AtBoundary(Replayed),
           disk.file[Checkpoint(TickOf(Replayed))] # Missing
    PROVE  CheckpointMatches(Replayed) /\ LastCheckpoint = TickOf(Replayed)
           /\ LastCheckpoint \in 0 .. Ticks
<1> DEFINE h == Replayed
<1> DEFINE t == TickOf(h)
<1> DEFINE there == {u \in 0 .. Ticks : disk.file[Checkpoint(u)] # Missing}
<1>1. disk.log \in Seq(Event) /\ Len(disk.log) <= Length
  BY DEF IsDisk
<1>2. h = History(disk.log) /\ h \in Seq(Content) /\ Len(h) <= Length
  BY <1>1, HistoryType DEF Replayed
<1> HIDE DEF h
<1>3. t \in 0 .. Ticks /\ Ticks \in Nat
  BY <1>2, HistoryTick, EvidenceAssumption DEF h
<1>4. disk.file[Checkpoint(t)] = <<h>>
  BY <1>2, CheckpointThere DEF h
<1>5. \A u \in there : u <= t
  BY <1>2, CheckpointsBehind
<1>6. t \in there
  BY <1>3, <1>4, Contents
<1>7. there \subseteq 0 .. Ticks /\ there # {}
  BY <1>6
<1> HIDE DEF there, t
<1>8. Max(there) \in there /\ \A u \in there : Max(there) >= u
  BY <1>3, <1>7, GreatestNat
<1>9. Max(there) = t
  <2> DEFINE m == Max(there)
  <2>1. m \in there /\ m >= t
    BY <1>6, <1>8
  <2> HIDE DEF m
  <2>2. m <= t /\ m \in 0 .. Ticks
    BY <1>5, <1>7, <2>1
  <2>3. m = t
    BY <1>3, <2>1, <2>2
  <2> QED BY <2>3 DEF m
<1>10. LastCheckpoint = t
  BY <1>9 DEF LastCheckpoint, there
<1>11. ~disk.stray /\ \E u \in 0 .. Ticks : disk.file[Checkpoint(u)] # Missing
  BY <1>6 DEF Sound, there
<1> QED BY <1>3, <1>4, <1>10, <1>11 DEF CheckpointMatches, h, t

(* Nobody was killed: a summary is of the whole log, an attestation behind it. *)
LEMMA UnharmedIs ==
    ASSUME EvidenceInv, Unharmed
    PROVE  /\ scenario.kills = 0 /\ left.kills = 0 /\ left.losses = 0
           /\ left.signals > 0 => scenario.policy = "neutral"
           /\ disk.file[Summary] # Missing =>
                Complete(Replayed) /\ disk.file[Summary] = <<SummaryOf(Replayed)>>
           /\ disk.file[Attestation] # Missing =>
                /\ disk.file[Summary] # Missing
                /\ disk.file[Attestation] = <<AttestationOf(SummaryOf(Replayed))>>
<1>1. scenario.kills = 0 /\ scenario.losses = 0
  BY DEF Unharmed
<1>2. Common(scenario, disk)
  BY DEF EvidenceInv
<1>3. disk.file[Summary] # Missing =>
         Complete(Replayed) /\ disk.file[Summary] = <<SummaryOf(Replayed)>>
  BY <1>1, <1>2 DEF Common, Summarised, Replayed
<1>4. ASSUME disk.file[Attestation] # Missing
      PROVE  /\ disk.file[Summary] # Missing
             /\ disk.file[Attestation] = <<AttestationOf(SummaryOf(Replayed))>>
  <2>1. PICK g \in Seq(Content) : Concluded(disk, g)
    BY <1>2, <1>4 DEF Common
  <2>2. disk.file[Summary] # Missing
    BY <2>1, Contents DEF Concluded, Summarised
  <2>3. SummaryOf(g) = SummaryOf(Replayed)
    BY <1>3, <2>1, <2>2, Contents DEF Concluded, Summarised
  <2> QED BY <2>1, <2>2, <2>3 DEF Concluded
<1>5. left.kills = 0 /\ left.losses = 0 /\ left.signals \in 0 .. scenario.signals
  BY <1>1 DEF EvidenceInv, Counted
<1>6. left.signals > 0 => scenario.policy = "neutral"
  BY <1>5 DEF Unharmed
<1> QED BY <1>1, <1>3, <1>4, <1>5, <1>6

(* A process that is going to write the summary. *)
LEMMA WriteSummaryGoes ==
    ASSUME NEW s, NEW d, NEW r, IsProcess(r), NEW h, d.rows = RowsOf(r.head)
    PROVE  Goes(s, WriteSummary(r, h), d)
<1> DEFINE u == WriteSummary(r, h)
<1>1. /\ u.at = "existing" /\ u.head = r.head
      /\ u.job = [name |-> Summary, content |-> SummaryOf(h), next |-> "attestation"]
  BY DEF WriteSummary, Publishing, IsProcess
<1> HIDE DEF u
<1>2. Goes(s, u, d)
  BY <1>1 DEF Goes, Around, Writes
<1> QED BY <1>2 DEF u

(* takes up what is there, whatever was left; *)
LEMMA RecoverGoes ==
    ASSUME EvidenceInv, Harmless, Unharmed, NEW p \in Process, RecoverExistingRun(p),
           UNCHANGED <<scenario, left>>
    PROVE  Harmless'
<1> DEFINE r == proc[p]
<1> DEFINE h == Replayed
<1>1. r.at = "recover" /\ UNCHANGED disk
  BY DEF RecoverExistingRun, At
<1>2. Owns(r) /\ Follows(r)
  BY <1>1 DEF Owns, Follows, Runs
<1>3. /\ Goes(Story, r, disk) /\ IsProcess(r) /\ Sound(disk) /\ IsDisk(disk)
      /\ h = History(disk.log) /\ h \in Seq(Content) /\ Len(h) <= Length /\ r.head = h
  BY <1>2, OwnerIs DEF Local
<1>4. /\ disk.rows = RowsOf(h) /\ r.saved = NoTick /\ r.end = "none"
      /\ MetricRemembered(r, disk)
      /\ \/ h = <<>>
         \/ Complete(h)
         \/ /\ scenario.policy = "neutral" /\ AtBoundary(h)
            /\ disk.file[Checkpoint(TickOf(h))] # Missing
  BY <1>1, <1>3 DEF Goes, Around, AtRest, Story
<1>5. MetricsMatch(h)
  BY <1>3, <1>4 DEF MetricsMatch, RowsReadable, Sound
<1>6. /\ StoredSummary # Missing => Complete(h) /\ StoredSummary = <<SummaryOf(h)>>
      /\ StoredAttestation # Missing => StoredSummary # Missing
  BY UnharmedIs DEF StoredSummary, StoredAttestation
<1>7. Length \in Nat \ {0}
  BY LayoutOrdered
<1>8. CASE h = <<>>
  <2> DEFINE u == To(r, "append")
  <2>1. ~Complete(h)
    BY <1>7, <1>8 DEF Complete
  <2>2. Becomes(p, u)
    BY <1>3, <1>6, <1>8, <2>1 DEF RecoverExistingRun
  <2>3. /\ u.at = "append" /\ u.head = h /\ u.saved = NoTick /\ u.end = "none"
        /\ u.metric = r.metric
    BY <1>3, <1>4 DEF To, IsProcess
  <2> HIDE DEF u
  <2>4. disk.file[Checkpoint(Ticks)] = Missing
    <3>1. Ticks \in 0 .. Ticks
      BY EvidenceAssumption
    <3> QED BY <1>3, <1>8, <3>1, CheckpointsBehind
  <2>5. MetricRemembered(u, disk) /\ SavedRemembered(u, disk) /\ disk.rows = RowsOf(u.head)
    BY <1>4, <2>3, <2>4 DEF MetricRemembered, SavedRemembered
  <2>6. Goes(Story, u, disk)
    BY <2>3, <2>5 DEF Goes, Around, Writes
  <2> QED BY <1>1, <1>2, <2>2, <2>6, OwnerQuietStep
<1>9. CASE h # <<>> /\ Complete(h) /\ Accepted(h)
  <2>1. Publishable(h)
    BY <1>5, <1>6, <1>9 DEF Publishable, Verified
  <2>2. Becomes(p, WriteSummary(r, h))
    BY <1>3, <1>9, <2>1 DEF RecoverExistingRun, Resumable
  <2>3. Goes(Story, WriteSummary(r, h), disk)
    BY <1>3, <1>4, WriteSummaryGoes
  <2> QED BY <1>1, <1>2, <2>2, <2>3, OwnerQuietStep
<1>10. CASE h # <<>> /\ ~Complete(h) /\ Accepted(h)
  <2> DEFINE v == [r EXCEPT !.at = "append", !.saved = LastCheckpoint,
                            !.blind = scenario.open /\ LastCheckpoint > 0]
  <2>1. /\ CheckpointMatches(h) /\ LastCheckpoint = TickOf(h) /\ LastCheckpoint \in 0 .. Ticks
        /\ disk.file[Checkpoint(TickOf(h))] # Missing /\ AtBoundary(h)
        /\ scenario.policy = "neutral"
    BY <1>3, <1>4, <1>10, LastCheckpointIs
  <2>2. Resumable(h) /\ ~Publishable(h)
    BY <1>5, <1>6, <1>10, <2>1 DEF Resumable, Publishable, Verified
  <2>3. Becomes(p, v)
    BY <1>3, <1>10, <2>2 DEF RecoverExistingRun
  <2>4. /\ v.at = "append" /\ v.head = h /\ v.saved = TickOf(h) /\ v.end = "none"
        /\ v.metric = r.metric
    BY <1>3, <1>4, <2>1 DEF IsProcess
  <2> HIDE DEF v
  <2>5. disk.file[Checkpoint(Ticks)] # Missing => v.saved = Ticks
    <3>1. Ticks \in 0 .. Ticks
      BY EvidenceAssumption
    <3>2. disk.file[Checkpoint(Ticks)] # Missing => Ticks <= TickOf(h)
      BY <1>3, <3>1, CheckpointsBehind
    <3> QED BY <2>1, <2>4, <3>1, <3>2
  <2>6. MetricRemembered(v, disk) /\ SavedRemembered(v, disk) /\ disk.rows = RowsOf(v.head)
    BY <1>4, <2>1, <2>4, <2>5 DEF MetricRemembered, SavedRemembered
  <2>7. Goes(Story, v, disk)
    BY <2>4, <2>6 DEF Goes, Around, Writes
  <2> QED BY <1>1, <1>2, <2>3, <2>7, OwnerQuietStep
<1>11. CASE h # <<>> /\ ~Accepted(h)
  <2>1. ~Publishable(h) /\ ~Resumable(h)
    BY <1>11 DEF Publishable, Resumable, Verified
  <2>2. Becomes(p, Failed(p, r))
    BY <1>3, <1>11, <2>1 DEF RecoverExistingRun
  <2>3. AtRest(Story, disk) /\ Refusable(disk)
    BY <1>1, <1>3, <1>11 DEF Goes, Around, Refusable
  <2>4. Goes(Story, Failed(p, r), disk)
    BY <1>2, <1>3, <2>3, OwnerIs, FailedGoes
  <2> QED BY <1>1, <1>2, <2>2, <2>4, OwnerQuietStep
<1> QED BY <1>8, <1>9, <1>10, <1>11

(* A checkpoint that is due finds its name free, or has been written. *)
LEMMA EmitCheckpointGoes ==
    ASSUME NEW s, NEW d, NEW r, IsProcess(r), IsDisk(d), Sound(d),
           r.at \notin Writes, r.head = History(d.log), r.head # <<>>,
           Layout[Len(r.head)].type \in Ends,
           SavedRemembered(r, d), MetricRemembered(r, d), d.rows = RowsOf(r.head),
           NEW next \in {"append", "flush"},
           next = "append" => r.end = "none",
           next = "flush" => \/ r.end = "none" /\ Complete(r.head)
                             \/ /\ r.end = "paused" /\ s.policy = "neutral" /\ s.paused
                                /\ AtBoundary(r.head)
    PROVE  Goes(s, EmitCheckpoint(r, TickOf(r.head), next), d)
<1> DEFINE h == r.head
<1> DEFINE t == TickOf(h)
<1> DEFINE u == EmitCheckpoint(r, t, next)
<1>1. d.log \in Seq(Event) /\ Len(d.log) <= Length
  BY DEF IsDisk
<1>2. h \in Seq(Content) /\ Len(h) <= Length
  BY <1>1, HistoryType
<1>3. /\ Len(h) \in 1 .. Length /\ t = Layout[Len(h)].tick /\ t \in 0 .. Ticks
      /\ Complete(h) \/ AtBoundary(h)
      /\ Complete(h) => t = Ticks
  <2>1. /\ Len(h) \in 1 .. Length /\ t = Layout[Len(h)].tick /\ t \in 0 .. Ticks
        /\ Complete(h) <=> Layout[Len(h)].type = "run.completed"
        /\ AtBoundary(h) <=> Layout[Len(h)].type \in {"agent.created", "tick.completed"}
    BY <1>2, HistoryTick
  <2>2. Complete(h) => t = Ticks
    BY <2>1, LayoutOrdered DEF Complete
  <2> QED BY <2>1, <2>2 DEF Ends
<1>4. Ticks \in 0 .. Ticks /\ NoTick \notin 0 .. Ticks
  BY EvidenceAssumption DEF NoTick
<1>5. CASE r.saved = t
  <2>1. u = To(r, next)
    BY <1>5 DEF EmitCheckpoint
  <2>2. /\ u.at = next /\ u.head = h /\ u.saved = t /\ u.end = r.end /\ u.metric = r.metric
    BY <1>5, <2>1 DEF To, IsProcess
  <2> HIDE DEF u
  <2>3. d.file[Checkpoint(t)] # Missing
    BY <1>3, <1>4, <1>5 DEF SavedRemembered
  <2> HIDE DEF t
  <2>4. /\ SavedRemembered(u, d) /\ MetricRemembered(u, d) /\ d.rows = RowsOf(u.head)
    BY <1>5, <2>2, <2>3 DEF SavedRemembered, MetricRemembered
  <2>5. next = "flush" => Ending(s, u)
    BY <2>2 DEF Ending, t
  <2>6. Goes(s, u, d)
    BY <2>2, <2>4, <2>5 DEF Goes, Around, Writes
  <2> QED BY <2>6 DEF u, t
<1>6. CASE r.saved # t
  <2>1. u = Publishing([r EXCEPT !.saved = t], Checkpoint(t), h, next)
    BY <1>6 DEF EmitCheckpoint, IsProcess
  <2>2. /\ u.at = "existing" /\ u.head = h /\ u.saved = t /\ u.end = r.end
        /\ u.metric = r.metric
        /\ u.job = [name |-> Checkpoint(t), content |-> h, next |-> next]
    BY <2>1 DEF Publishing, IsProcess
  <2> HIDE DEF u
  <2>3. d.file[Checkpoint(t)] \in {Missing, <<h>>}
    <3>1. CASE AtBoundary(h)
      BY <3>1, CheckpointThere
    <3>2. CASE Complete(h)
      BY <1>3, <1>6, <3>2 DEF SavedRemembered
    <3> QED BY <1>3, <3>1, <3>2
  <2>4. d.file[Checkpoint(Ticks)] # Missing => t = Ticks
    <3>1. d.file[Checkpoint(Ticks)] # Missing => Ticks <= t
      BY <1>4, CheckpointsBehind
    <3> QED BY <1>3, <1>4, <3>1
  <2> HIDE DEF t
  <2>5. SavedRemembered(u, d) /\ MetricRemembered(u, d) /\ d.rows = RowsOf(u.head)
    BY <2>2, <2>4 DEF SavedRemembered, MetricRemembered, Writes
  <2>6. CheckpointDue(u, d)
    BY <1>3, <2>2, <2>3 DEF CheckpointDue, t
  <2>7. next = "flush" => Ending(s, u)
    BY <2>2 DEF Ending, t
  <2>8. Goes(s, u, d)
    BY <2>2, <2>5, <2>6, <2>7 DEF Goes, Around, Writes
  <2> QED BY <2>8 DEF u, t
<1> QED BY <1>5, <1>6

(* The directory with one event more. *)
LEMMA AppendedSound ==
    ASSUME NEW d, IsDisk(d), Sound(d), NEW a \in Content
    PROVE  LET e == [d EXCEPT !.log = Append(@, [previous |-> History(d.log), answer |-> a])]
           IN /\ Sound(e) /\ e.lock = d.lock /\ e.rows = d.rows /\ e.file = d.file
              /\ History(e.log) = Append(History(d.log), a)
<1> DEFINE h == History(d.log)
<1> DEFINE event == [previous |-> h, answer |-> a]
<1> DEFINE e == [d EXCEPT !.log = Append(@, event)]
<1>1. d.log \in Seq(Event)
  BY DEF IsDisk
<1>2. h \in Seq(Content) /\ Len(h) = Len(d.log)
  BY <1>1, HistoryType
<1>3. event \in Event /\ event.answer = a /\ event.previous = h
  BY <1>2 DEF Event
<1> HIDE DEF event
<1>4. /\ e.log = Append(d.log, event) /\ e.lock = d.lock /\ e.rows = d.rows /\ e.file = d.file
      /\ e.torn = d.torn /\ e.tornRow = d.tornRow /\ e.stray = d.stray
  BY DEF IsDisk
<1> HIDE DEF e, h
<1>5. History(e.log) = Append(h, a)
  BY <1>1, <1>3, <1>4, HistoryGrows DEF h
<1>6. Chained(e.log)
  BY <1>1, <1>3, <1>4, ChainGrows DEF Sound, h
<1>7. \A n \in 1 .. Len(d.log) : n \in 1 .. Len(e.log) /\ SubSeq(History(e.log), 1, n) = SubSeq(h, 1, n)
  <2>1. \A n \in 0 .. Len(h) : SubSeq(Append(h, a), 1, n) = SubSeq(h, 1, n)
    BY <1>2, Beginning
  <2>2. Len(e.log) = Len(d.log) + 1 /\ Len(d.log) \in Nat
    BY <1>1, <1>3, <1>4
  <2> QED BY <1>2, <1>5, <2>1, <2>2
<1>8. ASSUME NEW t \in 0 .. Ticks, e.file[Checkpoint(t)] # Missing
      PROVE  \E n \in 1 .. Len(e.log) :
                 /\ Layout[n].tick = t /\ Layout[n].type \in Ends
                 /\ e.file[Checkpoint(t)] = <<SubSeq(History(e.log), 1, n)>>
  <2>1. PICK n \in 1 .. Len(d.log) :
           /\ Layout[n].tick = t /\ Layout[n].type \in Ends
           /\ d.file[Checkpoint(t)] = <<SubSeq(h, 1, n)>>
    BY <1>4, <1>8 DEF Sound, h
  <2> QED BY <1>4, <1>7, <2>1
<1>9. Sound(e)
  BY <1>4, <1>6, <1>8 DEF Sound
<1> QED BY <1>4, <1>5, <1>9 DEF e, h, event

(* appends an event, and goes to its row or its checkpoint where it has one; *)
LEMMA AppendEventGoes ==
    ASSUME EvidenceInv, Harmless, NEW p \in Process, AppendEvent(p),
           UNCHANGED <<scenario, left>>
    PROVE  Harmless'
<1>1. At(p, "append") /\ ~Complete(proc[p].head)
  BY DEF AppendEvent
<1> DEFINE r(a) == [proc[p] EXCEPT !.head = Append(@, a)]
<1> DEFINE e(a) == [disk EXCEPT !.log = Append(@, [previous |-> proc[p].head, answer |-> a])]
<1> DEFINE event(a) == Layout[Len(r(a).head)]
<1> DEFINE u(a) == CASE event(a).type = "metrics.recorded" -> To(r(a), "metrics")
                  [] event(a).type = "tick.completed" /\ event(a).tick # Ticks
                        /\ event(a).tick % CheckpointEvery = 0 ->
                        EmitCheckpoint(r(a), event(a).tick, "append")
                  [] event(a).type = "run.completed" -> EmitCheckpoint(r(a), Ticks, "flush")
                  [] OTHER -> r(a)
<1>2. PICK a \in Content : disk' = e(a) /\ Becomes(p, u(a))
  <2>1. Recordable(proc[p], Layout[Len(proc[p].head) + 1].type) \subseteq Content
    BY AnswersAreContent
  <2>2. PICK a \in Recordable(proc[p], Layout[Len(proc[p].head) + 1].type) :
             disk' = e(a) /\ Becomes(p, u(a))
    BY DEF AppendEvent
  <2>3. a \in Content
    BY <2>1
  <2> HIDE DEF u, e
  <2> QED BY <2>2, <2>3
<1> DEFINE rr == r(a)
<1> DEFINE ee == e(a)
<1> DEFINE ev == event(a)
<1> DEFINE uu == u(a)
<1> DEFINE h == proc[p].head
<1>3. /\ IsProcess(rr) /\ rr.at = "append" /\ rr.head = History(ee.log) /\ rr.head # <<>>
      /\ ev \in KindOfEvent /\ Common(scenario, ee) /\ ee.lock = p
  BY <1>1, AppendedDisk
<1>4. Owns(proc[p]) /\ Follows(proc[p])
  BY <1>1 DEF Owns, Follows, Runs, At
<1>5. /\ Goes(Story, proc[p], disk) /\ IsProcess(proc[p]) /\ IsDisk(disk) /\ Sound(disk)
      /\ h = History(disk.log) /\ h \in Seq(Content) /\ Len(h) <= Length
  BY <1>4, OwnerIs DEF Local
<1>6. /\ Sound(ee) /\ ee.rows = disk.rows /\ ee.file = disk.file
      /\ History(ee.log) = Append(h, a)
  BY <1>5, AppendedSound
<1>7. /\ rr.end = "none" /\ rr.metric = proc[p].metric /\ rr.saved = proc[p].saved
      /\ MetricRemembered(proc[p], disk) /\ SavedRemembered(proc[p], disk)
      /\ disk.rows = RowsOf(h)
  BY <1>1, <1>5 DEF Goes, Around, At, IsProcess
<1>8. /\ disk' = ee /\ Becomes(p, uu) /\ IsDisk(ee) /\ ev = Layout[Len(rr.head)]
      /\ rr.head = Append(h, a)
  BY <1>2, <1>3, <1>6 DEF Common
<1>9. \/ ev.type = "metrics.recorded" /\ uu = To(rr, "metrics")
      \/ ev.type = "tick.completed" /\ uu = EmitCheckpoint(rr, ev.tick, "append")
      \/ ev.type = "run.completed" /\ uu = EmitCheckpoint(rr, Ticks, "flush")
      \/ ev.type # "metrics.recorded" /\ uu = rr
  <2> HIDE DEF r, event
  <2> QED OBVIOUS
<1> HIDE DEF uu, ee, ev, rr, r, e, event, u, h
<1>10. MetricRemembered(rr, ee) /\ SavedRemembered(rr, ee)
  <2>1. proc[p].at = "append"
    BY <1>1 DEF At
  <2> QED BY <1>3, <1>6, <1>7, <2>1 DEF MetricRemembered, SavedRemembered, Writes
<1> DEFINE l == rr.head
<1>11. /\ l \in Seq(Content) /\ Len(l) = Len(h) + 1 /\ Len(l) \in 1 .. Length /\ Len(h) \in Nat
       /\ TickOf(l) = ev.tick /\ (ev.type = "run.completed" <=> Complete(l))
  <2>1. Append(h, a) \in Seq(Content) /\ Len(Append(h, a)) = Len(h) + 1 /\ Len(h) \in Nat
    BY <1>5
  <2>2. ~Complete(h) /\ Length \in Nat
    BY <1>1, LayoutOrdered DEF h
  <2>3. Len(l) <= Length
    BY <1>5, <1>8, <2>1, <2>2 DEF Complete
  <2>4. Complete(l) <=> Layout[Len(l)].type = "run.completed"
    BY <1>3, <1>8, <2>1, <2>3, HistoryTick
  <2> QED BY <1>8, <2>1, <2>2, <2>3, <2>4 DEF TickOf
<1>12. RowsOf(l) = IF ev.type = "metrics.recorded"
                   THEN Append(ee.rows, [tick |-> TickOf(l), of |-> l]) ELSE ee.rows
  BY <1>5, <1>6, <1>7, <1>8, RowsGrow
<1>13. Goes(Story, uu, ee)
  <2>1. CASE ev.type = "metrics.recorded" /\ uu = To(rr, "metrics")
    <3>1. /\ uu.at = "metrics" /\ uu.head = l /\ uu.end = "none" /\ uu.metric = rr.metric
          /\ uu.saved = rr.saved
      BY <1>3, <1>7, <2>1 DEF To, IsProcess
    <3>2. ee.rows # <<>> => Last(ee.rows).tick < TickOf(l)
      <4> SUFFICES ASSUME ee.rows # <<>> PROVE Last(ee.rows).tick < TickOf(l)
        OBVIOUS
      <4>1. PICK i \in 1 .. Len(h) : /\ Layout[i].type = "metrics.recorded"
                                     /\ Last(ee.rows).tick = Layout[i].tick
        BY <1>5, <1>6, <1>7, LastRow
      <4> DEFINE n == Len(l)
      <4>2. Layout[n] = ev /\ n \in 1 .. Length /\ n = Len(h) + 1 /\ Len(h) \in Nat
        BY <1>8, <1>11
      <4> HIDE DEF n
      <4>3. i \in 1 .. Length /\ i < n
        BY <4>1, <4>2, LayoutOrdered
      <4>4. Layout[i].tick < Layout[n].tick
        BY <2>1, <4>1, <4>2, <4>3, LayoutOrdered
      <4> QED BY <1>11, <4>1, <4>2, <4>4
    <3>3. MetricsDue(uu, ee)
      BY <1>8, <1>12, <2>1, <3>1, <3>2 DEF MetricsDue
    <3>4. MetricRemembered(uu, ee) /\ SavedRemembered(uu, ee)
      BY <1>3, <1>10, <3>1 DEF MetricRemembered, SavedRemembered, Writes
    <3> QED BY <3>1, <3>3, <3>4 DEF Goes, Around, Writes
  <2>2. CASE ev.type = "tick.completed" /\ uu = EmitCheckpoint(rr, ev.tick, "append")
    <3>1. Goes(Story, EmitCheckpoint(rr, TickOf(rr.head), "append"), ee)
      <4>1. rr.at \notin Writes /\ Layout[Len(rr.head)].type \in Ends
        BY <1>3, <1>8, <2>2 DEF Writes, Ends
      <4>2. ee.rows = RowsOf(rr.head)
        BY <1>12, <2>2
      <4> QED BY <1>3, <1>6, <1>7, <1>8, <1>10, <4>1, <4>2, EmitCheckpointGoes
    <3> QED BY <1>11, <2>2, <3>1
  <2>3. CASE ev.type = "run.completed" /\ uu = EmitCheckpoint(rr, Ticks, "flush")
    <3>1. Goes(Story, EmitCheckpoint(rr, TickOf(rr.head), "flush"), ee)
      <4>1. rr.at \notin Writes /\ Layout[Len(rr.head)].type \in Ends
        BY <1>3, <1>8, <2>3 DEF Writes, Ends
      <4>2. ee.rows = RowsOf(rr.head)
        BY <1>12, <2>3
      <4>3. Complete(rr.head)
        BY <1>11, <2>3
      <4> QED BY <1>3, <1>6, <1>7, <1>8, <1>10, <4>1, <4>2, <4>3, EmitCheckpointGoes
    <3>2. TickOf(rr.head) = Ticks
      BY <1>11, <2>3, LayoutOrdered DEF Complete, TickOf
    <3> QED BY <2>3, <3>1, <3>2
  <2>4. CASE ev.type # "metrics.recorded" /\ uu = rr
    <3>1. ee.rows = RowsOf(rr.head)
      BY <1>12, <2>4
    <3> QED BY <1>3, <1>7, <1>10, <2>4, <3>1 DEF Goes, Around, Writes
  <2> QED BY <1>9, <2>1, <2>2, <2>3, <2>4
<1>14. ee.lock # "free"
  BY <1>3, EvidenceAssumption
<1>15. Refusable(disk) => Refusable(ee)
  <2>1. Append(h, a) \in Seq(Content) /\ \A i \in DOMAIN h : i \in DOMAIN Append(h, a) /\ Append(h, a)[i] = h[i]
    BY <1>5
  <2> QED BY <1>5, <1>6, <2>1 DEF Refusable, Accepted
<1> QED BY <1>4, <1>6, <1>8, <1>13, <1>14, <1>15, HarmlessOwnerStep

(* appends the row of a tick it has not measured; *)
LEMMA AppendMetricsGoes ==
    ASSUME EvidenceInv, Harmless, NEW p \in Process, AppendMetrics(p),
           UNCHANGED <<scenario, left>>
    PROVE  Harmless'
<1> DEFINE r == proc[p]
<1> DEFINE tick == TickOf(r.head)
<1> DEFINE row == [tick |-> tick, of |-> r.head]
<1> DEFINE v == [r EXCEPT !.at = "append", !.metric = tick]
<1> DEFINE e == [disk EXCEPT !.rows = Append(@, row)]
<1>1. r.at = "metrics"
  BY DEF AppendMetrics, At
<1>2. Owns(r) /\ Follows(r)
  BY <1>1 DEF Owns, Follows, Runs
<1>3. /\ Goes(Story, r, disk) /\ IsProcess(r) /\ IsDisk(disk) /\ Sound(disk)
      /\ r.head = History(disk.log) /\ r.head # <<>> /\ disk.lock = p
  BY <1>1, <1>2, OwnerIs DEF Local, Reached
<1>4. tick \in 0 .. Ticks /\ Ticks \in Nat
  BY <1>3, TickOfType, EvidenceAssumption
<1>5. r.end = "none" /\ MetricRemembered(r, disk) /\ SavedRemembered(r, disk) /\ MetricsDue(r, disk)
  BY <1>1, <1>3 DEF Goes, Around
<1>6. /\ RowsOf(r.head) = Append(disk.rows, row)
      /\ disk.rows # <<>> => Last(disk.rows).tick < tick
      /\ Layout[Len(r.head)].type = "metrics.recorded"
  BY <1>5 DEF MetricsDue
<1>7. ~ tick <= r.metric
  <2>1. CASE disk.rows # <<>>
    <3>1. disk.rows \in Seq(Row)
      BY <1>3 DEF IsDisk
    <3>2. Last(disk.rows) \in Row
      BY <2>1, <3>1 DEF Last
    <3>3. Last(disk.rows).tick \in Nat
      BY <1>4, <3>2 DEF Row
    <3> HIDE DEF tick, r
    <3> QED BY <1>4, <1>5, <1>6, <2>1, <3>3 DEF MetricRemembered
  <2>2. CASE disk.rows = <<>>
    <3>1. r.metric = 0
      BY <1>5, <2>2 DEF MetricRemembered
    <3> DEFINE n == Len(r.head)
    <3>2. n \in 1 .. Length /\ tick = Layout[n].tick /\ Layout[n].type = "metrics.recorded"
      <4>1. disk.log \in Seq(Event) /\ Len(disk.log) <= Length
        BY <1>3 DEF IsDisk
      <4>2. r.head \in Seq(Content) /\ Len(r.head) <= Length
        BY <1>3, <4>1, HistoryType
      <4> QED BY <1>3, <1>6, <4>2, HistoryTick
    <3> HIDE DEF n, tick, r
    <3>3. n # Length /\ tick # 0
      BY <3>2, LayoutOrdered
    <3> QED BY <1>4, <3>1, <3>3
  <2> QED BY <2>1, <2>2
<1>8. disk' = e /\ Becomes(p, v)
  <2> HIDE DEF tick
  <2> QED BY <1>7 DEF AppendMetrics, AppendRow, tick
<1>9. /\ e.lock = p /\ e.rows = Append(disk.rows, row) /\ e.file = disk.file /\ e.log = disk.log
      /\ e.torn = disk.torn /\ e.tornRow = disk.tornRow /\ e.stray = disk.stray
  BY <1>3 DEF IsDisk
<1>10. /\ v.at = "append" /\ v.metric = tick /\ v.head = r.head /\ v.end = "none"
       /\ v.saved = r.saved
  <2> HIDE DEF tick, r
  <2> QED BY <1>3, <1>5 DEF IsProcess
<1>11. row.tick = tick /\ row \in Row
  BY <1>3, <1>4 DEF Row, IsProcess
<1> HIDE DEF e, v, row, tick
<1>12. Sound(e)
  BY <1>3, <1>9 DEF Sound
<1>13. MetricRemembered(v, e)
  <2>1. disk.rows \in Seq(Row)
    BY <1>3 DEF IsDisk
  <2>2. Append(disk.rows, row) # <<>> /\ Last(Append(disk.rows, row)) = row
    BY <1>11, <2>1 DEF Last
  <2> QED BY <1>9, <1>10, <1>11, <2>2 DEF MetricRemembered
<1>14. SavedRemembered(v, e)
  BY <1>1, <1>5, <1>9, <1>10 DEF SavedRemembered, Writes
<1>15. e.rows = RowsOf(v.head)
  BY <1>6, <1>9, <1>10
<1>16. Goes(Story, v, e)
  BY <1>10, <1>13, <1>14, <1>15 DEF Goes, Around, Writes
<1>17. e.lock # "free"
  BY <1>9, EvidenceAssumption
<1>18. Refusable(disk) => Refusable(e)
  BY <1>9 DEF Refusable
<1> QED BY <1>2, <1>8, <1>12, <1>16, <1>17, <1>18, HarmlessOwnerStep

(* notices a signal at a boundary, with a policy that can go on from there. *)
LEMMA PauseGoes ==
    ASSUME EvidenceInv, Harmless, Unharmed, NEW p \in Process, Pause(p)
    PROVE  Harmless'
<1> DEFINE r == [proc[p] EXCEPT !.end = "paused"]
<1>1. /\ proc[p].at = "append" /\ left.signals > 0 /\ AtBoundary(proc[p].head)
      /\ Becomes(p, EmitCheckpoint(r, TickOf(proc[p].head), "flush"))
      /\ UNCHANGED <<scenario, disk>> /\ left' = [left EXCEPT !.signals = @ - 1]
  BY DEF Pause, PauseAtBoundary, At
<1>2. Owns(proc[p]) /\ Follows(proc[p])
  BY <1>1 DEF Owns, Follows, Runs
<1>3. /\ Goes(Story, proc[p], disk) /\ IsProcess(proc[p]) /\ IsDisk(disk) /\ Sound(disk)
      /\ proc[p].head = History(disk.log)
  BY <1>2, OwnerIs DEF Local
<1>4. /\ MetricRemembered(proc[p], disk) /\ SavedRemembered(proc[p], disk)
      /\ disk.rows = RowsOf(proc[p].head)
  BY <1>1, <1>3 DEF Goes, Around
<1>5. proc[p].head # <<>> /\ Layout[Len(proc[p].head)].type \in Ends
  BY <1>1, <1>3 DEF AtBoundary, IsProcess, Ends
<1>6. /\ IsProcess(r) /\ r.at = "append" /\ r.head = proc[p].head /\ r.end = "paused"
      /\ r.metric = proc[p].metric /\ r.saved = proc[p].saved
  BY <1>1, <1>3 DEF IsProcess, End
<1> HIDE DEF r
<1>7. /\ MetricRemembered(r, disk) /\ SavedRemembered(r, disk) /\ r.at \notin Writes
  BY <1>1, <1>4, <1>6 DEF MetricRemembered, SavedRemembered, Writes
<1>8. Story'.policy = "neutral" /\ Story'.paused
  <2>1. scenario' = scenario /\ scenario.policy = "neutral"
    BY <1>1, UnharmedIs
  <2>2. left.signals \in 0 .. scenario.signals /\ scenario.signals \in Nat
    BY EvidenceAssumption DEF EvidenceInv, Counted
  <2>3. left'.signals = left.signals - 1
    BY <1>1 DEF EvidenceInv, Counted
  <2>4. left'.signals < scenario'.signals /\ scenario'.policy = "neutral"
    BY <2>1, <2>2, <2>3
  <2> QED BY <2>4 DEF Story
<1>9. Goes(Story', EmitCheckpoint(r, TickOf(r.head), "flush"), disk)
  <2> DEFINE s == Story'
  <2>1. s.policy = "neutral" /\ s.paused
    BY <1>8
  <2> HIDE DEF s
  <2>2. Goes(s, EmitCheckpoint(r, TickOf(r.head), "flush"), disk)
    BY <1>1, <1>3, <1>4, <1>5, <1>6, <1>7, <2>1, EmitCheckpointGoes
  <2> QED BY <2>2 DEF s
<1>10. ASSUME NEW q \in Runner \ {p}
       PROVE  Goes(Story', proc[q], disk')
  <2>1. q \in Process \ {p} /\ ~ Owns(proc[q])
    BY <1>2, OneOwner DEF Process
  <2>2. Goes(Story, proc[q], disk)
    BY DEF Harmless
  <2> QED BY <1>1, <2>1, <2>2, NotOwnerGoes
<1>11. disk.lock # "free" /\ p \in Runner
  BY <1>2, OneOwner, OwnerIs
<1> QED BY <1>1, <1>3, <1>6, <1>9, <1>10, <1>11, HarmlessStep

-----------------------------------------------------------------------------
(* Without harm nothing that is published is in the way.                      *)

(* What a run is about to publish is what may be there already. *)
LEMMA NoConflict ==
    ASSUME EvidenceInv, Harmless, Unharmed, NEW p \in Runner, proc[p].at \in Writes
    PROVE  disk.file[proc[p].job.name] \in {Missing, <<proc[p].job.content>>}
<1> DEFINE r == proc[p]
<1>1. p \in Process /\ Local(scenario, p, r, disk)
  BY DEF Process, EvidenceInv
<1>2. RightJob(r, disk) /\ r.job.next # "attested" /\ r.job.next \in After
  BY <1>1 DEF Local, Reached, IsProcess
<1>3. Owns(r)
  BY <1>2 DEF Owns
<1>4. Goes(Story, r, disk) /\ Sound(disk)
  BY <1>1, <1>3, OwnerIs
<1>5. CASE r.job.next \in {"config", "open"}
  <2>1. r.job.name \in {Manifest, Config}
    BY <1>2, <1>5 DEF RightJob
  <2>2. r.job.content = Identity
    BY <1>4, <1>5 DEF Goes
  <2> HIDE DEF r
  <2>3. disk.file[r.job.name] \in {Missing, <<Identity>>}
    BY <1>4, <2>1 DEF Sound
  <2> QED BY <2>2, <2>3 DEF r
<1>6. CASE r.job.next \in {"append", "flush"}
  BY <1>4, <1>6 DEF Goes, Around, CheckpointDue
<1>7. CASE r.job.next \in {"attestation", "settle"}
  <2>1. r.head = Replayed
    BY <1>1, <1>7 DEF Local, Follows, Replayed
  <2>2. \/ r.job.name = Summary /\ r.job.content = SummaryOf(r.head)
        \/ r.job.name = Attestation /\ r.job.content = AttestationOf(SummaryOf(r.head))
    BY <1>2, <1>7 DEF RightJob
  <2> HIDE DEF r
  <2>3. disk.file[r.job.name] \in {Missing, <<r.job.content>>}
    BY <2>1, <2>2, UnharmedIs
  <2> QED BY <2>3 DEF r
<1>8. r.job.next # "none"
  BY <1>2 DEF RightJob
<1> QED BY <1>2, <1>5, <1>6, <1>7, <1>8 DEF After

(* A run goes on with what it is publishing, *)
LEMMA PublishingGoes ==
    ASSUME NEW s, NEW r, NEW d, IsProcess(r), Goes(s, r, d), r.at \in Writes,
           NEW place \in {"temporary", "link", "unlink"}
    PROVE  Goes(s, To(r, place), d)
<1> DEFINE u == To(r, place)
<1>1. /\ u.at \in Writes /\ u.head = r.head /\ u.job = r.job /\ u.end = r.end
      /\ u.metric = r.metric /\ u.saved = r.saved
  BY DEF To, IsProcess, Writes
<1>2. u.at \notin {"lease", "open", "recover", "append", "metrics", "flush", "verify", "settle",
                   "release", "refused", "failed", "abandon"}
  BY <1>1 DEF Writes
<1> HIDE DEF u
<1>3. MetricRemembered(r, d) => MetricRemembered(u, d)
  BY <1>1 DEF MetricRemembered
<1>4. SavedRemembered(r, d) => SavedRemembered(u, d)
  BY <1>1 DEF SavedRemembered
<1>5. CheckpointDue(r, d) => CheckpointDue(u, d)
  BY <1>1 DEF CheckpointDue
<1>6. Ending(s, r) => Ending(s, u)
  BY <1>1 DEF Ending
<1>7. Goes(s, u, d)
  BY <1>1, <1>2, <1>3, <1>4, <1>5, <1>6 DEF Goes, Around
<1> QED BY <1>7 DEF u

(* and with what follows. *)
LEMMA PublishedGoes ==
    ASSUME NEW s, NEW r, NEW d, IsProcess(r), RightJob(r, d), Goes(s, r, d), r.at \in Writes,
           r.job.next # "attested", d.file[r.job.name] = <<r.job.content>>
    PROVE  Goes(s, Published(r), d)
<1> DEFINE next == r.job.next
<1>1. next \in After /\ next # "none"
  BY DEF IsProcess, RightJob
<1>2. CASE next = "config"
  <2> DEFINE u == Publishing(r, Config, Identity, "open")
  <2>1. r.saved = NoTick /\ r.end = "none" /\ AtRest(s, d)
    BY <1>2 DEF Goes, Around
  <2>2. /\ u.at = "existing" /\ u.saved = NoTick /\ u.end = "none"
        /\ u.job = [name |-> Config, content |-> Identity, next |-> "open"]
    BY <2>1 DEF Publishing, IsProcess
  <2>3. Published(r) = u
    BY <1>2 DEF Published
  <2> HIDE DEF u
  <2>4. Goes(s, u, d)
    BY <2>1, <2>2 DEF Goes, Around, Writes
  <2> QED BY <2>3, <2>4
<1>3. CASE next = "attestation"
  <2> DEFINE u == Publishing(r, Attestation, AttestationOf(r.job.content), "settle")
  <2>1. d.rows = RowsOf(r.head)
    BY <1>3 DEF Goes, Around
  <2>2. /\ u.at = "existing" /\ u.head = r.head
        /\ u.job = [name |-> Attestation, content |-> AttestationOf(r.job.content), next |-> "settle"]
    BY DEF Publishing, IsProcess
  <2>3. Published(r) = u
    BY <1>3 DEF Published
  <2> HIDE DEF u
  <2>4. Goes(s, u, d)
    BY <2>1, <2>2 DEF Goes, Around, Writes
  <2> QED BY <2>3, <2>4
<1>4. CASE next \in {"open", "append", "flush", "settle"}
  <2> DEFINE u == [r EXCEPT !.at = next, !.job = NoJob]
  <2>1. /\ u.at = next /\ u.head = r.head /\ u.end = r.end /\ u.saved = r.saved
        /\ u.metric = r.metric
    BY DEF IsProcess
  <2>2. Published(r) = u
    BY <1>4 DEF Published
  <2> HIDE DEF u
  <2>3. CASE next = "open"
    <3>1. r.saved = NoTick /\ r.end = "none" /\ AtRest(s, d)
      BY <2>3 DEF Goes, Around
    <3> QED BY <2>1, <2>2, <2>3, <3>1 DEF Goes, Around, Writes
  <2>4. CASE next \in {"append", "flush"}
    <3>1. /\ SavedRemembered(r, d) /\ CheckpointDue(r, d) /\ d.rows = RowsOf(r.head)
          /\ next = "append" => r.end = "none" /\ MetricRemembered(r, d)
          /\ next = "flush" => Ending(s, r)
      BY <2>4 DEF Goes, Around
    <3>2. d.file[Checkpoint(r.saved)] # Missing
      BY <3>1, Contents DEF CheckpointDue
    <3>3. SavedRemembered(u, d)
      BY <2>1, <3>1, <3>2 DEF SavedRemembered
    <3>4. next = "append" => MetricRemembered(u, d)
      BY <2>1, <3>1 DEF MetricRemembered
    <3>5. next = "flush" => Ending(s, u)
      BY <2>1, <3>1 DEF Ending
    <3> QED BY <2>1, <2>2, <2>4, <3>1, <3>3, <3>4, <3>5 DEF Goes, Around, Writes
  <2>5. CASE next = "settle"
    <3>1. d.rows = RowsOf(r.head)
      BY <2>5 DEF Goes, Around
    <3> QED BY <2>1, <2>2, <2>5, <3>1 DEF Goes, Around, Writes
  <2> QED BY <1>4, <2>3, <2>4, <2>5
<1> QED BY <1>1, <1>2, <1>3, <1>4 DEF After

(* An attester publishes without the lease. *)
LEMMA WatcherPublishes ==
    ASSUME EvidenceInv, Harmless, NEW p \in Process, p \notin Runner, proc[p].at \in Writes
    PROVE  /\ proc[p].job.next = "attested" /\ proc[p].job.name = Attestation
           /\ \A place \in Writes : Watches(To(proc[p], place))
           /\ Watches(Published(proc[p])) /\ Watches(Failed(p, proc[p]))
<1> DEFINE r == proc[p]
<1>1. IsProcess(r) /\ RightJob(r, disk) /\ Watches(r)
  BY DEF EvidenceInv, Local, Reached, Harmless
<1>2. r.job.next = "attested"
  BY <1>1 DEF Watches, Owns
<1>3. r.job.name = Attestation
  BY <1>1, <1>2 DEF RightJob
<1>4. ASSUME NEW place \in Writes
      PROVE  Watches(To(r, place))
  <2>1. To(r, place).at = place /\ To(r, place).job = r.job
    BY <1>1 DEF To, IsProcess
  <2> HIDE DEF r
  <2> QED BY <1>2, <2>1 DEF Watches, Owns, Runs, Writes
<1>5. Watches(Idle) /\ Failed(p, r) = Idle
  BY IdleIs DEF Watches, Owns, Runs, Writes, Failed
<1>6. Watches(Published(r))
  <2> DEFINE u == [Idle EXCEPT !.at = "attested", !.head = r.head]
  <2>1. Published(r) = u
    BY <1>2 DEF Published
  <2>2. u.at = "attested"
    BY DEF Idle
  <2> HIDE DEF u
  <2> QED BY <2>1, <2>2 DEF Watches, Owns, Runs, Writes
<1> QED BY <1>2, <1>3, <1>4, <1>5, <1>6

(* What a run or an attester makes of an artifact that it need not write. *)
LEMMA PublicationGoes ==
    ASSUME EvidenceInv, Harmless, NEW p \in Process, proc[p].at \in Writes,
           NEW r, Becomes(p, r), UNCHANGED <<scenario, left, disk>>,
           \/ \E place \in {"temporary", "link", "unlink"} : r = To(proc[p], place)
           \/ r = Published(proc[p]) /\ disk.file[proc[p].job.name] = <<proc[p].job.content>>
           \/ r = Failed(p, proc[p]) /\ p \notin Runner
    PROVE  Harmless'
<1>1. ASSUME p \in Runner
      PROVE  Goes(Story, r, disk)
  <2>1. /\ Goes(Story, proc[p], disk) /\ IsProcess(proc[p]) /\ RightJob(proc[p], disk)
        /\ proc[p].job.next # "attested"
    BY <1>1 DEF Harmless, EvidenceInv, Local, Reached
  <2>2. CASE \E place \in {"temporary", "link", "unlink"} : r = To(proc[p], place)
    BY <2>1, <2>2, PublishingGoes
  <2>3. CASE r = Published(proc[p]) /\ disk.file[proc[p].job.name] = <<proc[p].job.content>>
    BY <2>1, <2>3, PublishedGoes
  <2> QED BY <1>1, <2>2, <2>3
<1>2. ASSUME p \notin Runner
      PROVE  Watches(r)
  BY <1>2, WatcherPublishes DEF Writes
<1> QED BY <1>1, <1>2, HarmlessQuietStep

(* The first look finds nothing in the way, *)
LEMMA LookForExistingGoes ==
    ASSUME EvidenceInv, Harmless, Unharmed, NEW p \in Process, LookForExisting(p),
           UNCHANGED <<scenario, left>>
    PROVE  Harmless'
<1> DEFINE r == proc[p]
<1> DEFINE found == disk.file[r.job.name]
<1>1. r.at \in Writes /\ UNCHANGED disk
  BY DEF LookForExisting, At, Writes
<1>2. p \in Runner => found \in {Missing, <<r.job.content>>}
  BY <1>1, NoConflict
<1>3. \/ Becomes(p, To(r, "temporary"))
      \/ found = <<r.job.content>> /\ Becomes(p, Published(r))
      \/ p \notin Runner /\ Becomes(p, Failed(p, r))
  <2>1. <<r.job.content>> # Missing
    BY Contents
  <2> HIDE DEF found
  <2> QED BY <1>2, <2>1 DEF LookForExisting, found
<1> QED BY <1>1, <1>3, PublicationGoes

(* neither does a temporary file, *)
LEMMA WriteTemporaryGoes ==
    ASSUME EvidenceInv, Harmless, NEW p \in Process, WriteTemporary(p),
           UNCHANGED <<scenario, left>>
    PROVE  Harmless'
<1>1. proc[p].at \in Writes /\ Becomes(p, To(proc[p], "link")) /\ UNCHANGED disk
  BY DEF WriteTemporary, At, Writes
<1> QED BY <1>1, PublicationGoes

(* which goes when the name is there. *)
LEMMA UnlinkTemporaryGoes ==
    ASSUME EvidenceInv, Harmless, NEW p \in Process, UnlinkTemporary(p),
           UNCHANGED <<scenario, left>>
    PROVE  Harmless'
<1>1. /\ proc[p].at = "unlink" /\ Becomes(p, Published(proc[p])) /\ UNCHANGED disk
      /\ proc[p].at \in Writes
  BY DEF UnlinkTemporary, At, Writes
<1>2. disk.file[proc[p].job.name] = <<proc[p].job.content>>
  BY <1>1 DEF EvidenceInv, Local, Reached
<1> QED BY <1>1, <1>2, PublicationGoes

(* The directory with one artifact more. *)
LEMMA LinkedFile ==
    ASSUME NEW d, IsDisk(d), NEW name \in Artifact, NEW content
    PROVE  LET e == [d EXCEPT !.file[name] = <<content>>]
           IN /\ e.lock = d.lock /\ e.log = d.log /\ e.rows = d.rows
              /\ e.torn = d.torn /\ e.tornRow = d.tornRow /\ e.stray = d.stray
              /\ e.file[name] = <<content>>
              /\ \A other \in Artifact \ {name} : e.file[other] = d.file[other]
<1> DEFINE e == [d EXCEPT !.file[name] = <<content>>]
<1>1. /\ e.lock = d.lock /\ e.log = d.log /\ e.rows = d.rows
      /\ e.torn = d.torn /\ e.tornRow = d.tornRow /\ e.stray = d.stray
      /\ e.file = [d.file EXCEPT ![name] = <<content>>]
  BY DEF IsDisk
<1>2. d.file = [other \in Artifact |-> d.file[other]]
  BY DEF IsDisk
<1> HIDE DEF e
<1>3. /\ e.file[name] = <<content>>
      /\ \A other \in Artifact \ {name} : e.file[other] = d.file[other]
  BY <1>1, <1>2
<1> QED BY <1>1, <1>3 DEF e

(* No checkpoint is one of the other artifacts. *)
LEMMA CheckpointsApart ==
    /\ Manifest # Config
    /\ \A t \in 0 .. Ticks : Checkpoint(t) \notin {Manifest, Config, Summary, Attestation}
<1>1. \A a, b : Named(a, b).kind = a
  BY DEF Named
<1>2. /\ Manifest.kind = "manifest" /\ Config.kind = "config"
      /\ Summary.kind = "summary" /\ Attestation.kind = "attestation"
      /\ \A t \in 0 .. Ticks : Checkpoint(t).kind = "checkpoint"
  BY <1>1 DEF Manifest, Config, Summary, Attestation, Checkpoint
<1>3. Manifest # Config
  BY <1>2
<1>4. ASSUME NEW t \in 0 .. Ticks
      PROVE  Checkpoint(t) \notin {Manifest, Config, Summary, Attestation}
  BY <1>2
<1> QED BY <1>3, <1>4

(* A run that puts an artifact that is no checkpoint under its name. *)
LEMMA LinkApart ==
    ASSUME NEW d, IsDisk(d), Sound(d), NEW name \in {Manifest, Config, Summary, Attestation},
           NEW content, name \in {Manifest, Config} => content = Identity
    PROVE  LET e == [d EXCEPT !.file[name] = <<content>>]
           IN SameRun(d, e) /\ Sound(e)
<1> DEFINE e == [d EXCEPT !.file[name] = <<content>>]
<1>1. name \in Artifact /\ \A t \in 0 .. Ticks : Checkpoint(t) \in Artifact
  BY Names
<1>2. /\ e.lock = d.lock /\ e.log = d.log /\ e.rows = d.rows
      /\ e.torn = d.torn /\ e.tornRow = d.tornRow /\ e.stray = d.stray
      /\ e.file[name] = <<content>>
      /\ \A other \in Artifact \ {name} : e.file[other] = d.file[other]
  BY <1>1, LinkedFile
<1> HIDE DEF e
<1>3. \A t \in 0 .. Ticks : e.file[Checkpoint(t)] = d.file[Checkpoint(t)]
  BY <1>1, <1>2, CheckpointsApart
<1>4. SameRun(d, e)
  BY <1>2, <1>3 DEF SameRun
<1>5. ASSUME NEW other \in {Manifest, Config}
      PROVE  e.file[other] \in {Missing, <<Identity>>}
  <2>1. CASE other = name
    BY <1>2, <2>1
  <2>2. CASE other # name
    <3>1. other \in Artifact
      BY Names
    <3>2. e.file[other] = d.file[other]
      BY <1>2, <2>2, <3>1
    <3> QED BY <3>2 DEF Sound
  <2> QED BY <2>1, <2>2
<1>6. Sound(e)
  BY <1>2, <1>3, <1>5 DEF Sound
<1> QED BY <1>4, <1>6 DEF e

(* One that puts there the checkpoint that is due. *)
LEMMA LinkCheckpoint ==
    ASSUME NEW s, NEW d, IsDisk(d), Sound(d), NEW r, IsProcess(r), Goes(s, r, d),
           r.at \in Writes, r.job.next \in {"append", "flush"}, r.head = History(d.log)
    PROVE  LET e == [d EXCEPT !.file[r.job.name] = <<r.job.content>>]
           IN Sound(e) /\ Goes(s, r, e)
<1> DEFINE h == r.head
<1> DEFINE u == r.saved
<1> DEFINE e == [d EXCEPT !.file[r.job.name] = <<r.job.content>>]
<1>1. /\ CheckpointDue(r, d) /\ SavedRemembered(r, d) /\ d.rows = RowsOf(h)
      /\ r.job.next = "append" => r.end = "none" /\ MetricRemembered(r, d)
      /\ r.job.next = "flush" => Ending(s, r)
  BY DEF Goes, Around
<1>2. /\ u \in 0 .. Ticks /\ r.job.name = Checkpoint(u) /\ r.job.content = h /\ h # <<>>
      /\ TickOf(h) = u /\ Layout[Len(h)].type \in Ends
  BY <1>1 DEF CheckpointDue
<1>3. \A t \in 0 .. Ticks : Checkpoint(t) \in Artifact
  BY Names
<1>4. /\ e.lock = d.lock /\ e.log = d.log /\ e.rows = d.rows
      /\ e.torn = d.torn /\ e.tornRow = d.tornRow /\ e.stray = d.stray
      /\ e.file[Checkpoint(u)] = <<h>>
      /\ \A other \in Artifact \ {Checkpoint(u)} : e.file[other] = d.file[other]
  <2>1. r.job.name \in Artifact
    BY <1>2, <1>3
  <2>2. /\ e.lock = d.lock /\ e.log = d.log /\ e.rows = d.rows
        /\ e.torn = d.torn /\ e.tornRow = d.tornRow /\ e.stray = d.stray
        /\ e.file[r.job.name] = <<r.job.content>>
        /\ \A other \in Artifact \ {r.job.name} : e.file[other] = d.file[other]
    BY <2>1, LinkedFile
  <2> HIDE DEF e
  <2> QED BY <1>2, <2>2
<1> HIDE DEF e
<1>5. d.log \in Seq(Event) /\ Len(d.log) <= Length
  BY DEF IsDisk
<1>6. h \in Seq(Content) /\ Len(h) = Len(d.log)
  BY <1>5, HistoryType
<1>7. Len(h) \in 1 .. Length /\ Layout[Len(h)].tick = u
  <2>1. Len(h) <= Length
    BY <1>5, <1>6
  <2> QED BY <1>2, <1>6, <2>1, HistoryTick
<1>8. SubSeq(h, 1, Len(h)) = h
  BY <1>6
<1> HIDE DEF h, u
<1>9. ASSUME NEW t \in 0 .. Ticks, e.file[Checkpoint(t)] # Missing
      PROVE  \E n \in 1 .. Len(e.log) :
                 /\ Layout[n].tick = t /\ Layout[n].type \in Ends
                 /\ e.file[Checkpoint(t)] = <<SubSeq(History(e.log), 1, n)>>
  <2>1. CASE t = u
    <3> DEFINE n == Len(h)
    <3>1. /\ n \in 1 .. Len(e.log) /\ Layout[n].tick = t /\ Layout[n].type \in Ends
          /\ e.file[Checkpoint(t)] = <<SubSeq(h, 1, n)>> /\ h = History(e.log)
      BY <1>2, <1>4, <1>6, <1>7, <1>8, <2>1 DEF h
    <3> HIDE DEF n
    <3> QED BY <3>1
  <2>2. CASE t # u
    <3>1. Checkpoint(t) \in Artifact \ {Checkpoint(u)}
      BY <1>3, <2>2, CheckpointNames
    <3>2. e.file[Checkpoint(t)] = d.file[Checkpoint(t)]
      BY <1>4, <3>1
    <3> QED BY <1>4, <1>9, <3>2 DEF Sound
  <2> QED BY <2>1, <2>2
<1>10. \A name \in {Manifest, Config} : e.file[name] = d.file[name]
  BY <1>2, <1>4, Names, CheckpointsApart
<1>11. Sound(e)
  BY <1>4, <1>9, <1>10 DEF Sound
<1>12. CheckpointDue(r, e)
  BY <1>2, <1>4, <1>7 DEF CheckpointDue, h, u
<1>13. SavedRemembered(r, e)
  <2>1. Checkpoint(Ticks) \in Artifact
    BY <1>3, EvidenceAssumption
  <2>2. e.file[Checkpoint(Ticks)] # Missing => d.file[Checkpoint(Ticks)] # Missing \/ Checkpoint(Ticks) = Checkpoint(u)
    BY <1>4, <2>1
  <2>3. e.file[Checkpoint(Ticks)] # Missing => u = Ticks
    BY <1>1, <2>2, CheckpointNames DEF SavedRemembered, u
  <2> QED BY <2>3 DEF SavedRemembered, u
<1>14. r.job.next = "append" => MetricRemembered(r, e)
  BY <1>1, <1>4 DEF MetricRemembered
<1>15. Goes(s, r, e)
  BY <1>1, <1>4, <1>12, <1>13, <1>14 DEF Goes, Around, Writes, h
<1> QED BY <1>11, <1>15 DEF e

(* The name is free, or has what is published. *)
LEMMA LinkGoes ==
    ASSUME EvidenceInv, Harmless, Unharmed, NEW p \in Process, Link(p),
           UNCHANGED <<scenario, left>>
    PROVE  Harmless'
<1> DEFINE r == proc[p]
<1> DEFINE name == r.job.name
<1> DEFINE content == r.job.content
<1> DEFINE found == disk.file[name]
<1> DEFINE u == To(r, "unlink")
<1> DEFINE e == [disk EXCEPT !.file[name] = <<content>>]
<1>1. r.at \in Writes
  BY DEF Link, At, Writes
<1>2. /\ Local(scenario, p, r, disk) /\ IsProcess(r) /\ RightJob(r, disk) /\ IsDisk(disk)
      /\ Sound(disk)
  BY <1>1 DEF EvidenceInv, Local, Reached, Common, Harmless
<1>3. p \in Runner => found \in {Missing, <<content>>}
  BY <1>1, NoConflict
<1>4. \/ disk' = e /\ Becomes(p, u)
      \/ UNCHANGED disk /\ Becomes(p, u)
      \/ UNCHANGED disk /\ Becomes(p, Failed(p, r)) /\ p \notin Runner
  <2>1. <<content>> # Missing
    BY Contents
  <2> HIDE DEF found, u
  <2>2. CASE found = Missing
    BY <2>1, <2>2 DEF Link, found, u
  <2>3. CASE found = <<content>>
    BY <2>1, <2>3 DEF Link, found, u
  <2>4. CASE found \notin {Missing, <<content>>}
    BY <1>3, <2>4 DEF Link, found, u
  <2> QED BY <2>2, <2>3, <2>4
<1>5. CASE UNCHANGED disk /\ Becomes(p, u)
  BY <1>1, <1>5, PublicationGoes
<1>6. CASE UNCHANGED disk /\ Becomes(p, Failed(p, r)) /\ p \notin Runner
  BY <1>1, <1>6, PublicationGoes
<1>7. CASE disk' = e /\ Becomes(p, u)
  <2>1. IsProcess(u) /\ u.job = r.job /\ u.head = r.head /\ u.at \in Writes
    BY <1>2, ToIs DEF Place, Writes
  <2>2. e.lock = disk.lock
    BY <1>2, LinkedFile DEF IsProcess
  <2>3. CASE p \notin Runner
    <3>1. name = Attestation /\ Watches(u)
      BY <1>1, <2>3, WatcherPublishes DEF Writes
    <3>2. name \in {Manifest, Config, Summary, Attestation} /\ name \notin {Manifest, Config}
      BY <3>1, Names
    <3> HIDE DEF u, r, name, content
    <3>3. SameRun(disk, e) /\ Sound(e)
      BY <1>2, <3>2, LinkApart
    <3> HIDE DEF e
    <3>4. e.lock = "free" => AtRest(Story, e)
      BY <1>2, <2>2, <3>3, SameRunRests DEF Harmless
    <3>5. ASSUME NEW q \in Runner
          PROVE  Goes(Story, proc[q], e)
      <4>1. Goes(Story, proc[q], disk) /\ IsProcess(proc[q])
        BY DEF Harmless, EvidenceInv, Local, Process
      <4> QED BY <1>2, <3>3, <4>1, SameRunGoes
    <3> QED BY <1>7, <2>3, <3>1, <3>3, <3>4, <3>5, StoryStays, HarmlessStep
  <2>4. CASE p \in Runner
    <3>1. r.job.next # "attested" /\ r.job.next # "none" /\ r.job.next \in After
      BY <1>1, <1>2, <2>4 DEF Local, RightJob, IsProcess
    <3>2. Owns(r)
      BY <1>1, <3>1 DEF Owns
    <3>3. disk.lock \notin {"free", "stale"}
      BY <3>2, OneOwner
    <3>4. Goes(Story, r, disk)
      BY <2>4 DEF Harmless
    <3>5. Goes(Story, u, disk)
      BY <1>1, <1>2, <3>4, PublishingGoes
    <3>6. Sound(e) /\ Goes(Story, u, e)
      <4>1. CASE r.job.next \in {"append", "flush"}
        <5>1. r.head = History(disk.log)
          BY <1>1, <1>2, <4>1 DEF Local, Follows
        <5>2. e = [disk EXCEPT !.file[u.job.name] = <<u.job.content>>]
          BY <2>1
        <5>3. u.job.next \in {"append", "flush"} /\ u.head = History(disk.log)
          BY <2>1, <4>1, <5>1
        <5> HIDE DEF e, u, r, name, content
        <5> QED BY <1>2, <2>1, <3>5, <5>2, <5>3, LinkCheckpoint
      <4>2. CASE r.job.next \in {"config", "open", "attestation", "settle"}
        <5>1. name \in {Manifest, Config, Summary, Attestation}
          BY <1>2, <4>2 DEF RightJob
        <5>2. name \in {Manifest, Config} => content = Identity
          <6>1. CASE r.job.next \in {"config", "open"}
            BY <1>1, <3>4, <6>1 DEF Goes
          <6>2. CASE r.job.next \in {"attestation", "settle"}
            <7>1. name \in {Summary, Attestation}
              BY <1>2, <6>2 DEF RightJob
            <7> QED BY <7>1, Names
          <6> QED BY <4>2, <6>1, <6>2
        <5> HIDE DEF u, r, name, content
        <5>3. SameRun(disk, e) /\ Sound(e)
          BY <1>2, <5>1, <5>2, LinkApart
        <5> HIDE DEF e
        <5> QED BY <1>2, <2>1, <3>5, <5>3, SameRunGoes
      <4> QED BY <3>1, <4>1, <4>2 DEF After
    <3>7. e.log = disk.log
      BY <1>2, LinkedFile DEF IsProcess
    <3>8. Refusable(disk) => Refusable(e)
      BY <3>7 DEF Refusable
    <3> HIDE DEF e, u
    <3> QED BY <1>7, <2>2, <3>2, <3>3, <3>6, <3>8, HarmlessOwnerStep
  <2> QED BY <2>3, <2>4
<1> QED BY <1>4, <1>5, <1>6, <1>7

-----------------------------------------------------------------------------
(* The end of a run, and the attesters.                                       *)

(* A flush changes neither events nor artifacts. *)
LEMMA FlushedIs ==
    ASSUME IsDisk(disk), Sound(disk)
    PROVE  /\ SameRun(disk, Flushed) /\ Sound(Flushed) /\ Flushed.lock = disk.lock
           /\ Refusable(disk) => Refusable(Flushed)
<1> DEFINE e == Flushed
<1>1. /\ e.lock = disk.lock /\ e.log = disk.log /\ e.rows = disk.rows /\ e.file = disk.file
      /\ e.torn = disk.torn /\ e.tornRow = disk.tornRow /\ e.stray = disk.stray
  BY DEF IsDisk, Flushed
<1> HIDE DEF e
<1>2. SameRun(disk, e)
  BY <1>1 DEF SameRun
<1>3. Sound(e)
  BY <1>1, <1>2, SameRunSound DEF Sound
<1>4. Refusable(disk) => Refusable(e)
  BY <1>1 DEF Refusable
<1> QED BY <1>1, <1>2, <1>3, <1>4 DEF e

(* A run that ends is verified if it is complete, and at rest if it is paused; *)
LEMMA FlushGoes ==
    ASSUME EvidenceInv, Harmless, NEW p \in Process, Flush(p), UNCHANGED <<scenario, left>>
    PROVE  Harmless'
<1> DEFINE r == proc[p]
<1> DEFINE u == To(r, IF r.end = "paused" THEN "release" ELSE "verify")
<1> DEFINE e == Flushed
<1>1. r.at = "flush" /\ disk' = e /\ Becomes(p, u)
  BY DEF Flush, At
<1>2. Owns(r) /\ Follows(r)
  BY <1>1 DEF Owns, Follows, Runs
<1>3. /\ Goes(Story, r, disk) /\ IsProcess(r) /\ IsDisk(disk) /\ Sound(disk)
      /\ r.head = History(disk.log)
  BY <1>2, OwnerIs DEF Local
<1>4. SavedRemembered(r, disk) /\ disk.rows = RowsOf(r.head) /\ Ending(Story, r)
  BY <1>1, <1>3 DEF Goes, Around
<1>5. /\ SameRun(disk, e) /\ Sound(e) /\ e.lock = disk.lock
      /\ Refusable(disk) => Refusable(e)
  BY <1>3, FlushedIs
<1>6. /\ u.at = IF r.end = "paused" THEN "release" ELSE "verify"
      /\ u.head = r.head /\ u.end = r.end
  BY <1>3 DEF To, IsProcess
<1>7. disk.lock # "free"
  BY <1>2, OneOwner
<1> HIDE DEF e, u
<1>8. CASE r.end = "paused"
  <2>1. /\ Story.policy = "neutral" /\ Story.paused
        /\ AtBoundary(r.head) /\ r.saved = TickOf(r.head)
    BY <1>4, <1>8 DEF Ending
  <2>2. r.head # <<>>
    BY <2>1 DEF AtBoundary
  <2>3. TickOf(r.head) \in 0 .. Ticks /\ NoTick \notin 0 .. Ticks
    BY <1>3, <2>2, TickOfType, EvidenceAssumption DEF NoTick
  <2>4. disk.file[Checkpoint(r.saved)] # Missing
    <3>1. r.saved # NoTick /\ r.at \notin Writes
      BY <1>1, <2>1, <2>3 DEF Writes
    <3> QED BY <1>4, <3>1 DEF SavedRemembered
  <2>5. AtRest(Story, disk)
    BY <1>3, <1>4, <2>1, <2>4 DEF AtRest
  <2>6. AtRest(Story, e)
    BY <1>3, <1>5, <2>5, SameRunRests
  <2>7. Goes(Story, u, e)
    BY <1>6, <1>8, <2>6 DEF Goes, Around, Writes
  <2> QED BY <1>1, <1>2, <1>5, <1>7, <2>7, HarmlessOwnerStep
<1>9. CASE r.end # "paused"
  <2>1. Complete(r.head)
    BY <1>4, <1>9 DEF Ending
  <2>2. e.rows = RowsOf(u.head)
    BY <1>4, <1>5, <1>6 DEF SameRun
  <2>3. Goes(Story, u, e)
    BY <1>6, <1>9, <2>1, <2>2 DEF Goes, Around, Writes
  <2> QED BY <1>1, <1>2, <1>5, <1>7, <2>3, HarmlessOwnerStep
<1> QED BY <1>8, <1>9

(* what is verified is what was recorded, if the verifier takes it; *)
LEMMA VerifyGoes ==
    ASSUME EvidenceInv, Harmless, NEW p \in Process, Verify(p), UNCHANGED <<scenario, left>>
    PROVE  Harmless'
<1> DEFINE r == proc[p]
<1>1. r.at = "verify" /\ UNCHANGED disk
  BY DEF Verify, At
<1>2. Owns(r) /\ Follows(r)
  BY <1>1 DEF Owns, Follows, Runs
<1>3. /\ Goes(Story, r, disk) /\ IsProcess(r) /\ Sound(disk) /\ r.head = Replayed
  BY <1>2, OwnerIs DEF Local
<1>4. Complete(r.head) /\ disk.rows = RowsOf(r.head)
  BY <1>1, <1>3 DEF Goes, Around
<1>5. Readable /\ Complete(Replayed) /\ MetricsMatch(Replayed)
  BY <1>3, <1>4 DEF Sound, Readable, MetricsMatch, RowsReadable
<1>6. CASE Accepted(Replayed)
  <2>1. Becomes(p, WriteSummary(r, Replayed))
    BY <1>3, <1>5, <1>6 DEF Verify, Verified
  <2>2. Goes(Story, WriteSummary(r, Replayed), disk)
    BY <1>3, <1>4, WriteSummaryGoes
  <2> QED BY <1>1, <1>2, <2>1, <2>2, OwnerQuietStep
<1>7. CASE ~Accepted(Replayed)
  <2>1. Becomes(p, Failed(p, r))
    BY <1>7 DEF Verify, Verified
  <2>2. AtRest(Story, disk) /\ Refusable(disk)
    BY <1>3, <1>4, <1>7 DEF AtRest, Refusable, Replayed
  <2>3. Goes(Story, Failed(p, r), disk)
    BY <1>2, <1>3, <2>2, OwnerIs, FailedGoes
  <2> QED BY <1>1, <1>2, <2>1, <2>3, OwnerQuietStep
<1> QED BY <1>6, <1>7

(* a complete run settles, and one that was given up; *)
LEMMA SettleGoes ==
    ASSUME EvidenceInv, Harmless, NEW p \in Process, Settle(p), UNCHANGED <<scenario, left>>
    PROVE  Harmless'
<1> DEFINE r == proc[p]
<1> DEFINE u == To(r, "release")
<1> DEFINE e == Flushed
<1>1. r.at \in {"settle", "abandon"} /\ disk' = e /\ Becomes(p, u)
  BY DEF Settle
<1>2. Owns(r)
  BY <1>1 DEF Owns, Runs
<1>3. /\ Goes(Story, r, disk) /\ IsProcess(r) /\ IsDisk(disk) /\ Sound(disk)
      /\ Local(scenario, p, r, disk)
  BY <1>2, OwnerIs
<1>4. AtRest(Story, disk)
  <2>1. CASE r.at = "settle"
    <3>1. disk.rows = RowsOf(r.head)
      BY <1>3, <2>1 DEF Goes, Around
    <3>2. r.end = "completed" /\ Complete(r.head)
      BY <1>3, <2>1 DEF Local, Reached
    <3>3. r.head = History(disk.log)
      BY <1>3, <2>1, <3>2 DEF Local, Follows
    <3> QED BY <3>1, <3>2, <3>3 DEF AtRest
  <2>2. CASE r.at = "abandon"
    BY <1>3, <2>2 DEF Goes
  <2> QED BY <1>1, <2>1, <2>2
<1>5. r.end = "completed" \/ (r.end = "failed" /\ Refusable(disk))
  BY <1>1, <1>3 DEF Local, Reached, Goes
<1>6. /\ SameRun(disk, e) /\ Sound(e) /\ e.lock = disk.lock
      /\ Refusable(disk) => Refusable(e)
  BY <1>3, FlushedIs
<1>7. u.at = "release" /\ u.end = r.end
  BY <1>3 DEF To, IsProcess
<1>8. disk.lock # "free"
  BY <1>2, OneOwner
<1> HIDE DEF e, u
<1>9. AtRest(Story, e)
  BY <1>3, <1>4, <1>6, SameRunRests
<1>10. Goes(Story, u, e)
  BY <1>5, <1>6, <1>7, <1>9 DEF Goes, Around, Writes
<1> QED BY <1>1, <1>2, <1>6, <1>8, <1>10, HarmlessOwnerStep

(* and the lease is given back over a directory at rest. *)
LEMMA ReleaseGoes ==
    ASSUME EvidenceInv, Harmless, NEW p \in Process, Release(p), UNCHANGED <<scenario, left>>
    PROVE  Harmless'
<1> DEFINE r == proc[p]
<1> DEFINE v == [Idle EXCEPT !.at = "completed", !.head = r.head]
<1> DEFINE e == [disk EXCEPT !.lock = "free"]
<1>1. r.at = "release" /\ disk' = e
  BY DEF Release, At
<1>2. Owns(r)
  BY <1>1 DEF Owns, Runs
<1>3. Goes(Story, r, disk) /\ IsDisk(disk) /\ Sound(disk)
  BY <1>2, OwnerIs
<1>4. /\ r.end \in {"paused", "completed"} \/ (r.end = "failed" /\ Refusable(disk))
      /\ AtRest(Story, disk)
  BY <1>1, <1>3 DEF Goes
<1>5. \/ Becomes(p, Idle) \/ Becomes(p, v)
      \/ Becomes(p, To(Idle, "failed")) /\ Refusable(disk)
  BY <1>4 DEF Release
<1>6. v.at = "completed" /\ Idle.at = "idle" /\ To(Idle, "failed").at = "failed"
  BY DEF Idle, To
<1>7. /\ e.lock = "free" /\ e.file = disk.file /\ e.log = disk.log /\ e.rows = disk.rows
      /\ e.torn = disk.torn /\ e.tornRow = disk.tornRow /\ e.stray = disk.stray
  BY <1>3 DEF IsDisk
<1> HIDE DEF e, v
<1>8. SameRun(disk, e)
  BY <1>7 DEF SameRun
<1>9. Sound(e) /\ AtRest(Story, e)
  BY <1>3, <1>4, <1>7, <1>8, SameRunSound, SameRunRests
<1>10. Goes(Story, Idle, e) /\ Goes(Story, v, e)
  BY <1>6, QuietGoes
<1>11. Refusable(disk) => Refusable(e)
  BY <1>7 DEF Refusable
<1>12. Refusable(disk) => Goes(Story, To(Idle, "failed"), e)
  BY <1>6, <1>11 DEF Goes, Around, Writes
<1> QED BY <1>1, <1>2, <1>5, <1>9, <1>10, <1>11, <1>12, HarmlessOwnerStep

(* A process at a place from which nothing of the lease is near. *)
LEMMA ReaderWatches ==
    ASSUME NEW r, r.at \in Reads \cup {"idle", "attested"}
    PROVE  Watches(r)
BY DEF Watches, Owns, Runs, Writes, Reads

(* What an attester reads disturbs nobody. *)
LEMMA ReaderGoes ==
    ASSUME EvidenceInv, Harmless, NEW p \in Process, UNCHANGED <<scenario, left>>,
           \/ OpenExisting(p) \/ OpenSnapshot(p) \/ ReplaySnapshot(p) \/ CompareSnapshot(p)
           \/ AssertStable(p) \/ AttestRunEvidence(p) \/ VerifyAttestation(p)
    PROVE  Harmless'
<1> DEFINE r == proc[p]
<1>1. r.at \in Reads /\ UNCHANGED disk
  BY DEF OpenExisting, OpenSnapshot, ReplaySnapshot, CompareSnapshot, AssertStable,
     AttestRunEvidence, VerifyAttestation, At, Reads
<1>2. p \notin Runner /\ IsProcess(r)
  BY <1>1 DEF EvidenceInv, Local
<1>3. ASSUME NEW u, Becomes(p, u), Watches(u)
      PROVE  Harmless'
  BY <1>1, <1>2, <1>3, HarmlessQuietStep
<1>4. Watches(Idle) /\ \A place \in Reads : Watches(To(r, place))
  <2>1. \A place \in Reads : To(r, place).at = place
    BY <1>2 DEF To, IsProcess
  <2>2. Idle.at = "idle"
    BY DEF Idle
  <2> QED BY <2>1, <2>2, ReaderWatches
<1>5. CASE OpenExisting(p) \/ CompareSnapshot(p) \/ AssertStable(p)
  <2>1. PICK u : Becomes(p, u) /\ (u = Idle \/ \E place \in Reads : u = To(r, place))
    BY <1>5 DEF OpenExisting, CompareSnapshot, AssertStable, Reads
  <2> QED BY <1>3, <1>4, <2>1
<1>6. CASE OpenSnapshot(p)
  <2> DEFINE v == [r EXCEPT !.at = "replay", !.seen = Sizes]
  <2>1. Becomes(p, Idle) \/ Becomes(p, v)
    BY <1>6 DEF OpenSnapshot
  <2>2. v.at = "replay"
    BY <1>2 DEF IsProcess
  <2> HIDE DEF v
  <2>3. Watches(v)
    BY <2>2, ReaderWatches DEF Reads
  <2> QED BY <1>3, <1>4, <2>1, <2>3
<1>7. CASE ReplaySnapshot(p)
  <2> DEFINE v == [r EXCEPT !.at = "compare", !.head = Replayed]
  <2>1. Becomes(p, Idle) \/ Becomes(p, v)
    BY <1>7 DEF ReplaySnapshot
  <2>2. v.at = "compare"
    BY <1>2 DEF IsProcess
  <2> HIDE DEF v
  <2>3. Watches(v)
    BY <2>2, ReaderWatches DEF Reads
  <2> QED BY <1>3, <1>4, <2>1, <2>3
<1>8. Watches(Attested(p))
  <2>1. Attested(p).at = "attested"
    BY DEF Attested, Idle
  <2> QED BY <2>1, ReaderWatches
<1>9. CASE AttestRunEvidence(p)
  <2> DEFINE attestation == AttestationOf(SummaryOf(r.head))
  <2> DEFINE v == Publishing(r, Attestation, attestation, "attested")
  <2>1. Becomes(p, Idle) \/ Becomes(p, Attested(p)) \/ Becomes(p, v)
    <3> HIDE DEF v
    <3>1. CASE StoredAttestation = Missing
      <4>1. <<attestation>> # Missing
        BY Contents
      <4> QED BY <1>9, <3>1, <4>1 DEF AttestRunEvidence, v
    <3>2. CASE StoredAttestation # Missing
      BY <1>9, <3>2 DEF AttestRunEvidence
    <3> QED BY <3>1, <3>2
  <2>2. v.at = "existing" /\ v.job.next = "attested"
    BY <1>2 DEF Publishing, IsProcess
  <2> HIDE DEF v
  <2>3. Watches(v)
    BY <2>2 DEF Watches, Owns, Runs, Writes
  <2> QED BY <1>3, <1>4, <1>8, <2>1, <2>3
<1>10. CASE VerifyAttestation(p)
  <2>1. Becomes(p, Idle) \/ Becomes(p, Attested(p))
    BY <1>10 DEF VerifyAttestation
  <2> QED BY <1>3, <1>4, <1>8, <2>1
<1> QED BY <1>5, <1>6, <1>7, <1>9, <1>10

-----------------------------------------------------------------------------
(* Together.                                                                  *)

(* The directory that is made is at rest. *)
LEMMA HarmlessInit == Init => HarmlessInv
<1> SUFFICES ASSUME Init PROVE Harmless
  BY DEF HarmlessInv
<1>1. /\ disk.lock = "free" /\ disk.torn = FALSE /\ disk.tornRow = FALSE /\ disk.stray = FALSE
      /\ disk.log = <<>> /\ disk.rows = <<>>
      /\ \A name \in Artifact : disk.file[name] = Missing
  BY DEF Init, EmptyDisk
<1>2. History(<<>>) = <<>>
  <2>1. <<>> \in Seq(Event) /\ Len(<<>>) = 0
    OBVIOUS
  <2>2. History(<<>>) \in Seq(Content) /\ Len(History(<<>>)) = 0
    BY <2>1, HistoryType
  <2> QED BY <2>2
<1>3. RowsOf(<<>>) = <<>>
  <2>1. <<>> \in Seq(Content) /\ Len(<<>>) <= Length
    BY LayoutOrdered
  <2> QED BY <2>1, LastRow
<1>4. AtRest(Story, disk)
  BY <1>1, <1>2, <1>3 DEF AtRest
<1>5. Sound(disk)
  <2>1. Chained(disk.log)
    BY <1>1 DEF Chained
  <2>2. {Manifest, Config} \subseteq Artifact /\ \A t \in 0 .. Ticks : Checkpoint(t) \in Artifact
    BY Names
  <2> QED BY <1>1, <2>1, <2>2 DEF Sound
<1>6. \A p \in Process : proc[p] = Idle
  BY DEF Init
<1>7. Goes(Story, Idle, disk) /\ Watches(Idle)
  BY IdleIs, QuietGoes, ReaderWatches
<1> QED BY <1>4, <1>5, <1>6, <1>7 DEF Harmless, Process

(* A step of a process. *)
LEMMA WorkGoes ==
    ASSUME EvidenceInv, Harmless, Unharmed, NEW p \in Process, Work(p)
    PROVE  Harmless'
<1>1. UNCHANGED <<scenario, left>>
  BY DEF Work
<1>2. CASE Start(p) \/ AcquireWriterLease(p) \/ OpenLog(p) \/ RecoverExistingRun(p)
  BY <1>1, <1>2, StartGoes, AcquireGoes, OpenLogGoes, RecoverGoes
<1>3. CASE AppendEvent(p) \/ AppendMetrics(p)
  BY <1>1, <1>3, AppendEventGoes, AppendMetricsGoes
<1>4. CASE LookForExisting(p) \/ WriteTemporary(p) \/ Link(p) \/ UnlinkTemporary(p)
  BY <1>1, <1>4, LookForExistingGoes, WriteTemporaryGoes, LinkGoes, UnlinkTemporaryGoes
<1>5. CASE Flush(p) \/ Verify(p) \/ Settle(p) \/ Release(p)
  BY <1>1, <1>5, FlushGoes, VerifyGoes, SettleGoes, ReleaseGoes
<1>6. CASE \/ OpenExisting(p) \/ OpenSnapshot(p) \/ ReplaySnapshot(p) \/ CompareSnapshot(p)
           \/ AssertStable(p) \/ AttestRunEvidence(p) \/ VerifyAttestation(p)
  BY <1>1, <1>6, ReaderGoes
<1> QED BY <1>2, <1>3, <1>4, <1>5, <1>6 DEF Work

(* Nobody is killed, no power is lost, and no lock is left behind. *)
LEMMA HarmlessNext == EvidenceInv /\ HarmlessInv /\ [Next]_vars => HarmlessInv'
<1> SUFFICES ASSUME EvidenceInv, HarmlessInv, [Next]_vars, Unharmed'
             PROVE  Harmless'
  BY DEF HarmlessInv
<1>1. scenario' = scenario
  BY DEF Next, Work, Pause, Kill, LosePower, RemoveStaleLock, vars
<1>2. Unharmed /\ Harmless
  BY <1>1 DEF Unharmed, HarmlessInv
<1>3. left.kills = 0 /\ left.losses = 0 /\ disk.lock # "stale"
  BY <1>2, UnharmedIs DEF Harmless, Sound
<1>4. CASE UNCHANGED vars
  BY <1>2, <1>4 DEF vars, Harmless, Story
<1>5. ASSUME NEW p \in Process
      PROVE  ~ Kill(p)
  BY <1>3 DEF Kill
<1>6. ~ LosePower /\ ~ RemoveStaleLock
  BY <1>3 DEF LosePower, RemoveStaleLock
<1> QED BY <1>2, <1>4, <1>5, <1>6, WorkGoes, PauseGoes DEF Next

-----------------------------------------------------------------------------
(* Where the event comes from that the verifier does not take.  A run is blind *)
(* only when it took up what a pause had left, and a neutral run that is not   *)
(* blind records no such event.                                                *)

Sighted ==
    \A p \in Process : proc[p].blind => scenario.open /\ left.signals < scenario.signals

Explained == ~Accepted(Replayed) => Excused

ExcuseInv == Unharmed => Sighted /\ Explained

(* What a step makes of a process does not make it blind. *)
LEMMA SightStays ==
    ASSUME NEW r, IsProcess(r), NEW p
    PROVE  /\ \A place : To(r, place).blind = r.blind
           /\ \A name, content, next : Publishing(r, name, content, next).blind = r.blind
           /\ \A history : WriteSummary(r, history).blind = r.blind
           /\ \A t, next : EmitCheckpoint(r, t, next).blind = r.blind
           /\ Published(r).blind => r.blind
           /\ Failed(p, r).blind => r.blind
<1>1. Idle.blind = FALSE
  BY DEF Idle
<1>2. \A place : To(r, place).blind = r.blind
  BY DEF To, IsProcess
<1>3. \A name, content, next : Publishing(r, name, content, next).blind = r.blind
  BY DEF Publishing, IsProcess
<1>4. \A history : WriteSummary(r, history).blind = r.blind
  BY DEF WriteSummary, Publishing, IsProcess
<1>5. \A t, next : EmitCheckpoint(r, t, next).blind = r.blind
  BY <1>2 DEF EmitCheckpoint, Publishing, IsProcess
<1>6. Failed(p, r).blind => r.blind
  BY <1>1 DEF Failed, IsProcess
<1>7. Published(r).blind => r.blind
  <2>1. [Idle EXCEPT !.at = "attested", !.head = r.head].blind = FALSE
    BY DEF Idle
  <2>2. [r EXCEPT !.at = r.job.next, !.job = NoJob].blind = r.blind
    BY DEF IsProcess
  <2> QED BY <1>3, <2>1, <2>2 DEF Published
<1> QED BY <1>2, <1>3, <1>4, <1>5, <1>6, <1>7

(* A process that is not blind becomes so only when it takes up a run. *)
LEMMA WorkSees ==
    ASSUME EvidenceInv, NEW p \in Process, Work(p), ~ RecoverExistingRun(p)
    PROVE  \E u : Becomes(p, u) /\ (u.blind => proc[p].blind)
<1> DEFINE r == proc[p]
<1> DEFINE Sees(u) == u.blind => r.blind
<1>1. IsProcess(r)
  BY DEF EvidenceInv, Local
<1>2. /\ \A place : Sees(To(r, place))
      /\ \A name, content, next : Sees(Publishing(r, name, content, next))
      /\ \A history : Sees(WriteSummary(r, history))
      /\ Sees(Published(r)) /\ Sees(Failed(p, r))
  BY <1>1, SightStays
<1>3. /\ Sees(Idle) /\ \A place : Sees(To(Idle, place))
      /\ Sees([Idle EXCEPT !.at = "completed", !.head = r.head]) /\ Sees(Attested(p))
  BY DEF Idle, To, Attested
<1>4. CASE Start(p) \/ AcquireWriterLease(p) \/ OpenLog(p)
  <2>1. Sees([r EXCEPT !.at = "release", !.end = "refused"])
    BY <1>1 DEF IsProcess
  <2>2. \A m : Sees([r EXCEPT !.at = "recover", !.head = Replayed, !.metric = m])
    BY <1>1 DEF IsProcess
  <2> HIDE DEF r, Sees
  <2>3. \E u : Becomes(p, u) /\ Sees(u)
    <3>1. CASE Start(p)
      BY <1>3, <3>1 DEF Start
    <3>2. CASE AcquireWriterLease(p)
      BY <1>2, <1>3, <3>2 DEF AcquireWriterLease, r
    <3>3. CASE OpenLog(p)
      BY <2>1, <2>2, <3>3 DEF OpenLog, r
    <3> QED BY <1>4, <3>1, <3>2, <3>3
  <2> QED BY <2>3 DEF Sees, r
<1>5. CASE AppendEvent(p)
  <2> DEFINE v(a) == [r EXCEPT !.head = Append(@, a)]
  <2>2. PICK a \in Content :
          \/ Becomes(p, To(v(a), "metrics"))
          \/ \E t, next : Becomes(p, EmitCheckpoint(v(a), t, next))
          \/ Becomes(p, v(a))
    <3>1. Recordable(r, Layout[Len(r.head) + 1].type) \subseteq Content
      BY AnswersAreContent
    <3> QED BY <1>5, <3>1 DEF AppendEvent
  <2>3. r.head \in Seq(Content)
    BY <1>1 DEF IsProcess
  <2>4. IsProcess(v(a)) /\ v(a).blind = r.blind
    <3>1. Append(r.head, a) \in Seq(Content)
      BY <2>3
    <3> QED BY <1>1, <3>1 DEF IsProcess
  <2> HIDE DEF v
  <2> QED BY <2>2, <2>4, SightStays
<1>6. CASE AppendMetrics(p)
  <2>1. \A tick : Sees([r EXCEPT !.at = "append", !.metric = tick])
    BY <1>1 DEF IsProcess
  <2> HIDE DEF r, Sees
  <2>2. \E u : Becomes(p, u) /\ Sees(u)
    BY <1>2, <1>6, <2>1 DEF AppendMetrics, r
  <2> QED BY <2>2 DEF Sees, r
<1>7. CASE LookForExisting(p) \/ WriteTemporary(p) \/ Link(p) \/ UnlinkTemporary(p)
  <2> HIDE DEF r, Sees
  <2>1. \E u : Becomes(p, u) /\ Sees(u)
    BY <1>2, <1>7 DEF LookForExisting, WriteTemporary, Link, UnlinkTemporary, r
  <2> QED BY <2>1 DEF Sees, r
<1>8. CASE Flush(p) \/ Verify(p) \/ Settle(p) \/ Release(p)
  <2> HIDE DEF r, Sees
  <2>1. \E u : Becomes(p, u) /\ Sees(u)
    BY <1>2, <1>3, <1>8 DEF Flush, Verify, Settle, Release, r
  <2> QED BY <2>1 DEF Sees, r
<1>9. CASE \/ OpenExisting(p) \/ OpenSnapshot(p) \/ ReplaySnapshot(p) \/ CompareSnapshot(p)
           \/ AssertStable(p) \/ AttestRunEvidence(p) \/ VerifyAttestation(p)
  <2>1. /\ Sees([r EXCEPT !.at = "replay", !.seen = Sizes])
        /\ Sees([r EXCEPT !.at = "compare", !.head = Replayed])
    BY <1>1 DEF IsProcess
  <2> HIDE DEF r, Sees
  <2>2. \E u : Becomes(p, u) /\ Sees(u)
    BY <1>2, <1>3, <1>9, <2>1 DEF OpenExisting, OpenSnapshot, ReplaySnapshot, CompareSnapshot,
       AssertStable, AttestRunEvidence, VerifyAttestation, r
  <2> QED BY <2>2 DEF Sees, r
<1> QED BY <1>4, <1>5, <1>6, <1>7, <1>8, <1>9 DEF Work

(* Only a process that appends changes the log. *)
LEMMA WorkKeepsLog ==
    ASSUME EvidenceInv, NEW p \in Process, Work(p), ~ AppendEvent(p)
    PROVE  disk'.log = disk.log
<1>1. IsDisk(disk)
  BY DEF EvidenceInv, Common
<1>2. CASE UNCHANGED disk
  BY <1>2
<1>3. CASE AcquireWriterLease(p) \/ AppendMetrics(p) \/ Release(p)
  BY <1>1, <1>3 DEF AcquireWriterLease, AppendMetrics, AppendRow, Release, IsDisk
<1>4. CASE Link(p)
  BY <1>1, <1>4 DEF Link, IsDisk
<1>5. CASE Flush(p) \/ Settle(p)
  BY <1>1, <1>5 DEF Flush, Settle, Flushed, IsDisk
<1>6. CASE \/ Start(p) \/ OpenLog(p) \/ RecoverExistingRun(p) \/ LookForExisting(p)
           \/ WriteTemporary(p) \/ UnlinkTemporary(p) \/ Verify(p)
  BY <1>6 DEF Start, OpenLog, RecoverExistingRun, LookForExisting, WriteTemporary,
     UnlinkTemporary, Verify
<1>7. CASE \/ OpenExisting(p) \/ OpenSnapshot(p) \/ ReplaySnapshot(p) \/ CompareSnapshot(p)
           \/ AssertStable(p) \/ AttestRunEvidence(p) \/ VerifyAttestation(p)
  BY <1>7 DEF OpenExisting, OpenSnapshot, ReplaySnapshot, CompareSnapshot, AssertStable,
     AttestRunEvidence, VerifyAttestation
<1> QED BY <1>3, <1>4, <1>5, <1>6, <1>7 DEF Work

(* One that takes up a run is blind where a pause left tasks open. *)
LEMMA RecoverySees ==
    ASSUME EvidenceInv, Harmless, NEW p \in Process, RecoverExistingRun(p)
    PROVE  \E u : /\ Becomes(p, u)
                  /\ u.blind => proc[p].blind \/ (scenario.open /\ Story.paused)
<1> DEFINE r == proc[p]
<1> DEFINE v == [r EXCEPT !.at = "append", !.saved = LastCheckpoint,
                          !.blind = scenario.open /\ LastCheckpoint > 0]
<1>1. r.at = "recover"
  BY DEF RecoverExistingRun, At
<1>2. Owns(r)
  BY <1>1 DEF Owns, Runs
<1>3. Goes(Story, r, disk) /\ IsProcess(r)
  BY <1>2, OwnerIs
<1>4. AtRest(Story, disk)
  BY <1>1, <1>3 DEF Goes, Around
<1>5. \/ Becomes(p, To(r, "append")) \/ Becomes(p, WriteSummary(r, Replayed))
      \/ Becomes(p, Failed(p, r))
      \/ Becomes(p, v) /\ Resumable(Replayed) /\ r.head # <<>>
  <2> HIDE DEF v
  <2>1. ~ (Publishable(Replayed) /\ Resumable(Replayed))
    BY DEF Publishable, Resumable, Verified
  <2> QED BY <2>1 DEF RecoverExistingRun, v
<1>6. CASE Becomes(p, v) /\ Resumable(Replayed)
  <2>1. Replayed # <<>> /\ ~Complete(Replayed)
    BY <1>6 DEF Resumable, AtBoundary
  <2>2. Story.paused
    BY <1>4, <2>1 DEF AtRest, Replayed
  <2>3. v.blind => scenario.open
    BY <1>3 DEF IsProcess
  <2> HIDE DEF v
  <2> QED BY <1>6, <2>2, <2>3
<1>7. /\ To(r, "append").blind => r.blind
      /\ WriteSummary(r, Replayed).blind => r.blind
      /\ Failed(p, r).blind => r.blind
  BY <1>3, SightStays
<1> QED BY <1>5, <1>6, <1>7

(* What is recorded is one of the answers, or there is a reason. *)
LEMMA EventExcused ==
    ASSUME EvidenceInv, Sighted, NEW p \in Process, AppendEvent(p),
           Accepted(Replayed), ~Accepted(Replayed')
    PROVE  Excused
<1> DEFINE h == proc[p].head
<1>1. At(p, "append")
  BY DEF AppendEvent
<1>2. Local(scenario, p, proc[p], disk) /\ disk.log \in Seq(Event) /\ IsDisk(disk)
  BY DEF EvidenceInv, Common, IsDisk
<1>3. h = History(disk.log) /\ h \in Seq(Content)
  BY <1>1, <1>2 DEF Local, Follows, At, IsProcess
<1>4. PICK a \in Recordable(proc[p], Layout[Len(h) + 1].type) :
         disk' = [disk EXCEPT !.log = Append(@, [previous |-> h, answer |-> a])]
  BY DEF AppendEvent
<1>5. a \in Content
  BY AnswersAreContent
<1> HIDE DEF h
<1>6. Replayed' = Append(h, a)
  <2> DEFINE event == [previous |-> h, answer |-> a]
  <2>1. event \in Event /\ event.answer = a
    BY <1>3, <1>5 DEF Event
  <2>2. disk'.log = Append(disk.log, event)
    BY <1>2, <1>4 DEF IsDisk
  <2> HIDE DEF event
  <2>3. History(Append(disk.log, event)) = Append(h, a)
    BY <1>2, <1>3, <2>1, HistoryGrows
  <2> QED BY <2>2, <2>3 DEF Replayed, History
<1>7. a \notin Answer
  <2> SUFFICES ASSUME a \in Answer PROVE Accepted(Append(h, a))
    BY <1>6
  <2>1. \A i \in DOMAIN h : h[i] \in Answer
    BY <1>3 DEF Accepted, Replayed
  <2>2. \A i \in DOMAIN Append(h, a) : Append(h, a)[i] = a \/ (i \in DOMAIN h /\ Append(h, a)[i] = h[i])
    BY <1>3
  <2> QED BY <2>1, <2>2 DEF Accepted
<1>8. Min(Answer) \in Answer
  BY MinAnswer
<1>9. proc[p].blind \/ scenario.policy = "cohort"
  BY <1>4, <1>7, <1>8 DEF Recordable
<1> QED BY <1>9 DEF Sighted, Excused

(* Nobody is blind at first, and nothing recorded. *)
LEMMA ExcuseInit == Init => ExcuseInv
<1> SUFFICES ASSUME Init PROVE Sighted /\ Explained
  BY DEF ExcuseInv
<1>1. Sighted
  BY DEF Sighted, Init, Idle
<1>2. Replayed = <<>>
  <2>1. disk.log = <<>>
    BY DEF Init, EmptyDisk
  <2> QED BY <2>1 DEF Replayed, History
<1> QED BY <1>1, <1>2 DEF Explained, Accepted

(* Every step keeps both where nobody is harmed. *)
LEMMA ExcuseNext == EvidenceInv /\ HarmlessInv /\ ExcuseInv /\ [Next]_vars => ExcuseInv'
<1> SUFFICES ASSUME EvidenceInv, HarmlessInv, ExcuseInv, [Next]_vars, Unharmed'
             PROVE  Sighted' /\ Explained'
  BY DEF ExcuseInv
<1>1. scenario' = scenario
  BY DEF Next, Work, Pause, Kill, LosePower, RemoveStaleLock, vars
<1>2. Unharmed /\ Harmless /\ Sighted /\ Explained
  BY <1>1 DEF Unharmed, HarmlessInv, ExcuseInv
<1>3. left.kills = 0 /\ left.losses = 0 /\ disk.lock # "stale"
  BY <1>2, UnharmedIs DEF Harmless, Sound
<1>4. proc = [q \in Process |-> proc[q]] /\ left.signals \in 0 .. scenario.signals
      /\ left = [kills |-> left.kills, losses |-> left.losses, signals |-> left.signals]
  BY DEF EvidenceInv, Counted
<1>5. CASE UNCHANGED vars
  BY <1>2, <1>5 DEF vars, Sighted, Explained, Replayed, Excused
<1>6. ASSUME NEW p \in Process, Work(p)
      PROVE  Sighted' /\ Explained'
  <2>1. UNCHANGED <<scenario, left>>
    BY <1>6 DEF Work
  <2>2. PICK u : /\ Becomes(p, u)
                 /\ u.blind => proc[p].blind \/ (scenario.open /\ Story.paused)
    BY <1>2, <1>6, WorkSees, RecoverySees
  <2>3. \A q \in Process : proc'[q] = IF q = p THEN u ELSE proc[q]
    BY <1>4, <2>2 DEF Becomes
  <2>4. Sighted'
    BY <1>2, <2>1, <2>2, <2>3 DEF Sighted, Story
  <2>5. CASE AppendEvent(p)
    <3>1. Excused' <=> Excused
      BY <2>1 DEF Excused
    <3>2. ~Accepted(Replayed') => Excused
      BY <1>2, <2>5, EventExcused DEF Explained
    <3> QED BY <2>4, <3>1, <3>2 DEF Explained, Accepted
  <2>6. CASE ~AppendEvent(p)
    <3>1. disk'.log = disk.log
      BY <1>6, <2>6, WorkKeepsLog
    <3>2. Replayed' = Replayed
      BY <3>1 DEF Replayed, History
    <3>3. Excused' <=> Excused
      BY <2>1 DEF Excused
    <3> QED BY <1>2, <2>4, <3>2, <3>3 DEF Explained, Accepted
  <2> QED BY <2>5, <2>6
<1>7. ASSUME NEW p \in Process, Pause(p)
      PROVE  Sighted' /\ Explained'
  <2> DEFINE r == [proc[p] EXCEPT !.end = "paused"]
  <2>1. /\ UNCHANGED <<scenario, disk>> /\ left' = [left EXCEPT !.signals = @ - 1]
        /\ Becomes(p, EmitCheckpoint(r, TickOf(proc[p].head), "flush"))
    BY <1>7 DEF Pause, PauseAtBoundary
  <2>2. IsProcess(r) /\ r.blind = proc[p].blind
    BY DEF EvidenceInv, Local, IsProcess, End
  <2> HIDE DEF r
  <2>3. EmitCheckpoint(r, TickOf(proc[p].head), "flush").blind = proc[p].blind
    BY <2>2, SightStays
  <2>4. \A q \in Process : proc'[q].blind = proc[q].blind
    BY <1>4, <2>1, <2>3 DEF Becomes
  <2>5. left'.signals = left.signals - 1 /\ scenario.signals \in Nat
    BY <1>4, <2>1, EvidenceAssumption DEF EvidenceInv
  <2>6. left.signals < scenario.signals => left'.signals < scenario'.signals
    BY <1>4, <2>1, <2>5
  <2>7. Sighted'
    BY <1>2, <2>1, <2>4, <2>6 DEF Sighted
  <2>8. Explained'
    BY <1>2, <2>1, <2>6 DEF Explained, Excused, Replayed
  <2> QED BY <2>7, <2>8
<1>8. ASSUME NEW p \in Process
      PROVE  ~ Kill(p)
  BY <1>3 DEF Kill
<1>9. ~ LosePower /\ ~ RemoveStaleLock
  BY <1>3 DEF LosePower, RemoveStaleLock
<1> QED BY <1>5, <1>6, <1>7, <1>8, <1>9 DEF Next

(* Whoever holds the lease finds what it needs. *)
LEMMA HarmlessRefusesNobody == HarmlessInv /\ ExcuseInv => RefusedOnlyAfterHarm
BY DEF HarmlessInv, Harmless, Goes, Refusable, Replayed, Local,
       ExcuseInv, Explained, RefusedOnlyAfterHarm

(* Where no process was killed and no power lost, no run is refused, and one   *)
(* is given up only for an event that the verifier does not take: whatever     *)
(* else a pause left is taken up by the next start, a complete run is          *)
(* completed again, and what others publish meanwhile is in nobody's way       *)
(* (src/lab/genesis.ts:162, recoverExistingRun; src/lab/artifacts.ts).  In a   *)
(* neutral run there is such an event only when one was paused where tasks may *)
(* be open (src/lab/world.ts:251, src/lab/runner.ts:338).                      *)
THEOREM NobodyRefusedUnharmed == Spec => []RefusedOnlyAfterHarm
<1>1. Init => HarmlessInv
  BY HarmlessInit
<1>2. EvidenceInv /\ HarmlessInv /\ [Next]_vars => HarmlessInv'
  BY HarmlessNext
<1>3. Init => ExcuseInv
  BY ExcuseInit
<1>4. EvidenceInv /\ HarmlessInv /\ ExcuseInv /\ [Next]_vars => ExcuseInv'
  BY ExcuseNext
<1>5. HarmlessInv /\ ExcuseInv => RefusedOnlyAfterHarm
  BY HarmlessRefusesNobody
<1> QED BY <1>1, <1>2, <1>3, <1>4, <1>5, EvidenceInvariant, PTL DEF Spec
=============================================================================
