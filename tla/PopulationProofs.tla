-------------------------- MODULE PopulationProofs --------------------------
(* An abort reaches every process of a population, and a command that returns *)
(* leaves none of them at work: for every number of universes, workers and    *)
(* commands, all ticks and every number of kills, errors and aborts.          *)
EXTENDS Population, FiniteSetTheorems, SequenceTheorems, TLAPS

At == {"none", "forked", "running", "reporting", "leaving", "exited", "reaped"}

Process ==
    [at : At, told : {"nothing", "sending", "sent"}, inbox : Seq({"run", "cancel"}),
     outbox : [type : Outcome, universe : Universe \union {0}],
     connected : BOOLEAN, aborted : BOOLEAN, result : Outcome, code : Nat, blind : BOOLEAN]

TypeOK ==
    /\ scenario \in Scenarios
    /\ left \in [kills : 0 .. scenario.kills, errors : 0 .. scenario.errors,
                 aborts : 0 .. scenario.aborts]
    /\ parent \in [run : 1 .. Commands, next : 1 .. scenario.universes + 1,
                   aborted : BOOLEAN,
                   step : {"pool", "existing", "temporary", "link", "unlink"},
                   result : {"none", "published", "paused", "failed", "killed"}]
    /\ worker \in [Worker -> {"free", "waits", "stopped"}]
    /\ outcome \in [Universe -> Outcome]
    /\ status \in [Universe -> Worker \union {"pending", "summary", "paused", "failed"}]
    /\ child \in [Child -> Process]
    /\ evidence \in [Universe -> [ticks : Nat, published : BOOLEAN, sound : BOOLEAN,
                                  lease : {"free", "held", "stale"}]]
    /\ populations \in [written : BOOLEAN, temporary : SUBSET (1 .. Commands)]

-----------------------------------------------------------------------------
(* The inductive invariant. *)

\* The workers wait for one universe each.
Waiting ==
    /\ \A u \in Universe : status[u] \in Worker => worker[status[u]] = "waits"
    /\ \A u, v \in Universe : status[u] \in Worker /\ status[u] = status[v] => u = v

\* The processes of the command that are not reaped are those it awaits.
Accounted ==
    parent.result # "killed" =>
        \A u \in Universe : Awaited(u) <=> child[ChildOf(u)].at \notin {"none", "reaped"}

\* What is still to come: the processes of later commands, and of this one those
\* of the universes it has not claimed.
ToCome ==
    /\ \A c \in Child : c[1] > parent.run => child[c].at = "none"
    /\ \A u \in Universe : u >= parent.next =>
         status[u] = "pending" /\ child[ChildOf(u)].at = "none"
    /\ \A u \in Universe : u < parent.next => status[u] # "pending"

\* The loops of the pool end for a reason, and the summary is written after that.
Stopped ==
    /\ Running /\ parent.step # "pool" => \A w \in Worker : worker[w] = "stopped"
    /\ \A w \in scenario.pool : worker[w] = "stopped" =>
         \/ parent.aborted
         \/ parent.next > scenario.universes
         \/ \E u \in Universe : status[u] = "paused"

\* What says that a universe is published is true.
Truthful ==
    /\ \A c \in Child :
         /\ child[c].result = "summary" => evidence[c[2]].published
         /\ child[c].outbox.type = "summary" => evidence[c[2]].published
    /\ \A u \in Universe :
         /\ outcome[u] = "summary" => evidence[u].published
         /\ status[u] = "summary" => evidence[u].published
    /\ parent.step # "pool" \/ populations.written =>
         \A u \in 1 .. scenario.universes : evidence[u].published

\* The files of the summary of the population.
Tidy ==
    /\ parent.step = "unlink" \/ parent.result = "published" => populations.written
    /\ populations.temporary \subseteq 1 .. parent.run
    /\ parent.run \in populations.temporary =>
         \/ parent.result = "killed"
         \/ Running /\ parent.step \in {"link", "unlink"}

\* `run` is sent to a process once, and taken before it is anything but forked.
RunAt(c, i) == i \in 1 .. Len(child[c].inbox) /\ child[c].inbox[i] = "run"

RunOnce(c) ==
    /\ \A i, j \in Nat : RunAt(c, i) /\ RunAt(c, j) => i = j
    /\ child[c].told = "nothing" \/ child[c].at \notin {"forked", "exited"} =>
         \A i \in Nat : ~RunAt(c, i)
    /\ child[c].at \in {"running", "reporting", "leaving"} => child[c].told # "nothing"
    /\ child[c].at = "forked" /\ child[c].told # "nothing" => \E i \in Nat : RunAt(c, i)

\* The command has a channel to each of its processes that is at work.
Connected ==
    Running => \A u \in Universe :
        child[ChildOf(u)].at \in {"forked", "running", "reporting", "leaving"} =>
            child[ChildOf(u)].connected

Clean == scenario.kills = 0 /\ scenario.errors = 0

\* A process is blind only if it took up what an earlier command had left.
Sighted ==
    /\ \A c \in Child : child[c].blind => scenario.open /\ parent.run > 1
    /\ \A u \in Universe :
         parent.run = 1 /\ child[ChildOf(u)].at \in {"none", "forked"} => evidence[u].ticks = 0

\* Where nothing is killed and nothing throws: the lease is held by a process at
\* work, every process reports what came of it, and it reports an error only of
\* evidence that a replay refuses.
Excused(u, type) ==
    type \in {"summary", "paused"} \/ (type = "error" /\ ~evidence[u].sound)

Reports(u) ==
    LET d == child[ChildOf(u)]
    IN  /\ d.at \in {"forked", "running", "reporting"} => d.outbox = NoReport
        /\ d.at = "reporting" => Excused(u, d.result)
        /\ d.at \in {"leaving", "exited"} =>
             IF d.outbox = NoReport THEN Excused(u, outcome[u])
             ELSE Excused(u, d.outbox.type) /\ d.outbox.universe = u
        /\ d.at = "exited" => d.told # "nothing" /\ \A i \in Nat : ~RunAt(ChildOf(u), i)
        /\ d.at # "none" => d.code = 0

Harmless ==
    Clean =>
        /\ parent.result # "killed"
        /\ parent.result = "failed" => \E u \in Universe : ~evidence[u].sound
        /\ \A c \in Child : c[1] < parent.run => child[c].at \in {"none", "reaped"}
        /\ \A u \in Universe :
             /\ status[u] = "failed" => ~evidence[u].sound
             /\ ~evidence[u].sound => scenario.open /\ parent.run > 1
             /\ evidence[u].lease # "stale"
             /\ evidence[u].lease = "held" => child[ChildOf(u)].at = "running"
             /\ Reports(u)

PopulationInv ==
    /\ TypeOK /\ Waiting /\ Accounted /\ ToCome /\ Stopped /\ Truthful /\ Tidy
    /\ (\A c \in Child : RunOnce(c)) /\ Connected /\ Sighted /\ Harmless
    /\ AbortReachesChildren

-----------------------------------------------------------------------------
(* Types. *)

(* What an inbox holds after a message was sent to it, *)
LEMMA Sending ==
    ASSUME NEW s \in Seq({"run", "cancel"}), NEW m \in {"run", "cancel"}
    PROVE  /\ Append(s, m) \in Seq({"run", "cancel"})
           /\ Len(s) \in Nat /\ Len(Append(s, m)) = Len(s) + 1
           /\ \A i \in 1 .. Len(s) : Append(s, m)[i] = s[i]
           /\ Append(s, m)[Len(s) + 1] = m
BY AppendProperties, LenProperties

(* and after one was taken from it. *)
LEMMA Taking ==
    ASSUME NEW s \in Seq({"run", "cancel"}), s # <<>>
    PROVE  /\ Tail(s) \in Seq({"run", "cancel"})
           /\ Len(s) \in Nat \ {0} /\ Len(Tail(s)) = Len(s) - 1
           /\ \A i \in 1 .. Len(s) - 1 : Tail(s)[i] = s[i + 1]
           /\ Head(s) = s[1] /\ Head(s) \in {"run", "cancel"}
BY HeadTailProperties, LenProperties, EmptySeq

(* The process of a universe, and the universe of a process. *)
LEMMA Children ==
    ASSUME TypeOK
    PROVE  /\ \A u \in Universe : ChildOf(u) \in Child
           /\ \A u \in Universe : ChildOf(u)[1] = parent.run /\ ChildOf(u)[2] = u
           /\ \A c \in Child : c[1] \in Nat /\ c[2] \in Universe
           /\ \A c \in Child : c[1] = parent.run => c = ChildOf(c[2])
           /\ parent.run \in Nat
BY PoolAssumption DEF TypeOK, ChildOf, Child

(* A process that has not been started is a process. *)
LEMMA NoChildType ==
    /\ NoChild \in Process /\ NoChild.at = "none" /\ NoChild.inbox = <<>>
    /\ NoChild.told = "nothing" /\ NoChild.outbox = NoReport /\ NoChild.code = 0
    /\ NoChild.result = "none" /\ ~NoChild.aborted /\ ~NoChild.connected /\ ~NoChild.blind
    /\ NoReport.type = "none" /\ NoReport.universe = 0
BY DEF NoChild, NoReport, Process, At, Outcome

(* A step of one process changes the record of that one. *)
LEMMA ChildSet ==
    ASSUME child \in [Child -> Process], NEW c \in Child, NEW d \in Process, SetChild(c, d)
    PROVE  /\ child' \in [Child -> Process] /\ child'[c] = d
           /\ \A b \in Child : b # c => child'[b] = child[b]
BY DEF SetChild

-----------------------------------------------------------------------------
(* What the steps of a process do: to it, and to the evidence of its universe. *)
AtWork == {"forked", "running", "reporting", "leaving"}

Proceeds(c) ==
    /\ UNCHANGED <<scenario, parent, worker, outcome, status, populations>>
    /\ child[c].at \in AtWork /\ child'[c].at \in AtWork \union {"exited"}
    /\ \A b \in Child : b # c => child'[b] = child[b]
    /\ \A u \in Universe : u # c[2] => evidence'[u] = evidence[u]
    /\ evidence[c[2]].published => evidence'[c[2]].published
    /\ evidence'[c[2]].sound => evidence[c[2]].sound
    /\ child'[c].at = "forked" => child[c].at = "forked" /\ evidence'[c[2]] = evidence[c[2]]

(* The end of runGenesis. *)
LEMMA FinishedStep ==
    ASSUME TypeOK, NEW c \in Child, NEW r \in Process, NEW result \in Outcome,
           NEW e \in [ticks : Nat, published : BOOLEAN, sound : BOOLEAN,
                      lease : {"free", "held", "stale"}],
           Finished(c, r, result, e)
    PROVE  /\ child' \in [Child -> Process]
           /\ evidence' \in [Universe -> [ticks : Nat, published : BOOLEAN, sound : BOOLEAN,
                                          lease : {"free", "held", "stale"}]]
           /\ child'[c] = [r EXCEPT !.at = "reporting", !.result = result]
           /\ \A b \in Child : b # c => child'[b] = child[b]
           /\ \A u \in Universe : u # c[2] => evidence'[u] = evidence[u]
           /\ evidence'[c[2]].published = e.published
           /\ evidence'[c[2]].sound = e.sound
           /\ evidence'[c[2]].lease = "free"
<1> DEFINE d == [r EXCEPT !.at = "reporting", !.result = result]
           f == [e EXCEPT !.lease = "free"]
<1>1. d \in Process
  BY DEF Process, At
<1>2. f \in [ticks : Nat, published : BOOLEAN, sound : BOOLEAN,
             lease : {"free", "held", "stale"}]
      /\ f.published = e.published /\ f.sound = e.sound /\ f.lease = "free"
  OBVIOUS
<1>3. SetChild(c, d) /\ evidence' = [evidence EXCEPT ![c[2]] = f]
  BY DEF Finished
<1> HIDE DEF d, f
<1>4. child' \in [Child -> Process] /\ child'[c] = d
      /\ \A b \in Child : b # c => child'[b] = child[b]
  BY <1>1, <1>3, ChildSet DEF TypeOK
<1>5. c[2] \in Universe
  BY Children
<1> QED BY <1>2, <1>3, <1>4, <1>5 DEF TypeOK, d

(* A cancel is heard, *)
LEMMA HearCancelStep ==
    ASSUME TypeOK, NEW c \in Child, Hear(c), Head(child[c].inbox) = "cancel"
    PROVE  /\ TypeOK' /\ Proceeds(c) /\ UNCHANGED evidence
           /\ child[c].inbox # <<>>
           /\ child'[c].inbox = Tail(child[c].inbox) /\ child'[c].at = child[c].at
           /\ child'[c].told = child[c].told /\ child'[c].outbox = child[c].outbox
           /\ child'[c].connected = child[c].connected
           /\ child'[c].result = child[c].result /\ child'[c].code = child[c].code
           /\ child'[c].blind = child[c].blind
           /\ child[c].aborted \/ child[c].at = "running" => child'[c].aborted
<1> DEFINE r == [child[c] EXCEPT !.inbox = Tail(@)]
           d == [r EXCEPT !.aborted = @ \/ r.at = "running"]
<1>1. child[c] \in Process /\ child[c].inbox # <<>>
      /\ child[c].at \in {"forked", "running", "reporting"}
  BY DEF TypeOK, Hear
<1>2. child[c].inbox \in Seq({"run", "cancel"})
  BY <1>1 DEF Process
<1>3. Tail(child[c].inbox) \in Seq({"run", "cancel"})
  BY <1>1, <1>2, Taking
<1>4. r \in Process /\ r.inbox = Tail(child[c].inbox) /\ r.told = child[c].told
      /\ r.outbox = child[c].outbox /\ r.connected = child[c].connected
      /\ r.aborted = child[c].aborted /\ r.code = child[c].code
      /\ r.result = child[c].result /\ r.at = child[c].at /\ r.blind = child[c].blind
  BY <1>1, <1>3 DEF Process
<1>5. SetChild(c, d) /\ UNCHANGED evidence
  BY DEF Hear
<1>6. UNCHANGED <<scenario, left, parent, worker, outcome, status, populations>>
  BY DEF Hear
<1> HIDE DEF r
<1>7. d \in Process /\ d.inbox = r.inbox /\ d.at = r.at
      /\ d.told = r.told /\ d.outbox = r.outbox /\ d.connected = r.connected
      /\ d.code = r.code /\ d.result = r.result /\ d.blind = r.blind
<2> DEFINE x == r.aborted \/ r.at = "running"
<2>1. x \in BOOLEAN
  OBVIOUS
<2> HIDE DEF x
<2>2. d = [r EXCEPT !.aborted = x]
  BY Zenon DEF x
<2> HIDE DEF d
<2> QED BY <1>4, <2>1, <2>2 DEF Process
<1>8. r.aborted \/ r.at = "running" => d.aborted
<2> DEFINE x == r.aborted \/ r.at = "running"
<2>1. x \in BOOLEAN
  OBVIOUS
<2> HIDE DEF x
<2>2. d = [r EXCEPT !.aborted = x]
  BY Zenon DEF x
<2> HIDE DEF d
<2>3. d.aborted = x
  BY <1>4, <2>1, <2>2 DEF Process
<2>4. x <=> r.aborted \/ r.at = "running"
  BY DEF x
<2> QED BY <2>3, <2>4
<1> HIDE DEF d
<1>9. child' \in [Child -> Process] /\ child'[c] = d
      /\ \A b \in Child : b # c => child'[b] = child[b]
  BY <1>5, <1>7, ChildSet DEF TypeOK
<1>10. TypeOK'
  BY <1>5, <1>6, <1>9 DEF TypeOK
<1>11. Proceeds(c)
  BY <1>1, <1>4, <1>5, <1>6, <1>7, <1>9 DEF Proceeds, AtWork
<1> QED BY <1>1, <1>4, <1>5, <1>7, <1>8, <1>9, <1>10, <1>11

(* and `run`: the universe is taken up, unless it cannot be or need not be. *)
LEMMA HearRunStep ==
    ASSUME TypeOK, NEW c \in Child, Hear(c), Head(child[c].inbox) # "cancel"
    PROVE  /\ TypeOK' /\ Proceeds(c)
           /\ child[c].inbox # <<>>
           /\ child'[c].inbox = Tail(child[c].inbox)
           /\ child'[c].told = child[c].told /\ child'[c].outbox = child[c].outbox
           /\ child'[c].connected = child[c].connected
           /\ child'[c].aborted = child[c].aborted /\ child'[c].code = child[c].code
           /\ child'[c].blind => child[c].blind \/ (scenario.open /\ evidence[c[2]].ticks > 0)
           /\ evidence'[c[2]].published = evidence[c[2]].published
           /\ evidence'[c[2]].sound = evidence[c[2]].sound
           /\ \/ /\ child'[c].at = "running" /\ child'[c].result = child[c].result
                 /\ evidence[c[2]].lease = "free" /\ evidence'[c[2]].lease = "held"
              \/ /\ child'[c].at = "reporting" /\ child'[c].result = "error"
                 /\ evidence[c[2]].lease # "free" \/ ~evidence[c[2]].sound
                 /\ evidence'[c[2]].lease = evidence[c[2]].lease
              \/ /\ child'[c].at = "reporting" /\ child'[c].result = "summary"
                 /\ evidence[c[2]].published
                 /\ evidence[c[2]].lease = "free" /\ evidence'[c[2]].lease = "free"
<1> DEFINE r == [child[c] EXCEPT !.inbox = Tail(@)]
           e == evidence[c[2]]
<1>1. child[c] \in Process /\ child[c].inbox # <<>>
      /\ child[c].at \in {"forked", "running", "reporting"}
  BY DEF TypeOK, Hear
<1>2. c[2] \in Universe
  BY Children
<1>3. e \in [ticks : Nat, published : BOOLEAN, sound : BOOLEAN,
             lease : {"free", "held", "stale"}]
  BY <1>2 DEF TypeOK
<1>4. child[c].inbox \in Seq({"run", "cancel"})
  BY <1>1 DEF Process
<1>5. Tail(child[c].inbox) \in Seq({"run", "cancel"})
  BY <1>1, <1>4, Taking
<1>6. r \in Process /\ r.inbox = Tail(child[c].inbox) /\ r.told = child[c].told
      /\ r.outbox = child[c].outbox /\ r.connected = child[c].connected
      /\ r.aborted = child[c].aborted /\ r.code = child[c].code
      /\ r.result = child[c].result /\ r.blind = child[c].blind
  BY <1>1, <1>5 DEF Process
<1>7. UNCHANGED <<scenario, left, parent, worker, outcome, status, populations>>
  BY DEF Hear
<1>8. CASE e.lease # "free"
<2> DEFINE d == [r EXCEPT !.at = "reporting", !.result = "error"]
<2>1. SetChild(c, d) /\ UNCHANGED evidence
  BY <1>8 DEF Hear
<2>2. d \in Process /\ d.at = "reporting" /\ d.result = "error" /\ d.inbox = r.inbox
      /\ d.told = r.told /\ d.outbox = r.outbox /\ d.connected = r.connected
      /\ d.aborted = r.aborted /\ d.code = r.code /\ d.blind = r.blind
  BY <1>6 DEF Process, At, Outcome
<2> HIDE DEF d, r
<2>3. child' \in [Child -> Process] /\ child'[c] = d
      /\ \A b \in Child : b # c => child'[b] = child[b]
  BY <2>1, <2>2, ChildSet DEF TypeOK
<2>4. TypeOK'
  BY <1>7, <2>1, <2>3 DEF TypeOK
<2>5. Proceeds(c)
  BY <1>1, <1>7, <2>1, <2>2, <2>3 DEF Proceeds, AtWork
<2> QED BY <1>1, <1>6, <1>8, <2>1, <2>2, <2>3, <2>4, <2>5
<1>9. ASSUME NEW result \in {"error", "summary"}, Finished(c, r, result, e), e.lease = "free",
             IF result = "error" THEN ~e.sound ELSE e.published
      PROVE  /\ TypeOK' /\ Proceeds(c)
             /\ child'[c].inbox = Tail(child[c].inbox)
             /\ child'[c].told = child[c].told /\ child'[c].outbox = child[c].outbox
             /\ child'[c].connected = child[c].connected
             /\ child'[c].aborted = child[c].aborted /\ child'[c].code = child[c].code
             /\ child'[c].blind = child[c].blind
             /\ evidence'[c[2]].published = evidence[c[2]].published
             /\ evidence'[c[2]].sound = evidence[c[2]].sound
             /\ child'[c].at = "reporting" /\ child'[c].result = result
             /\ evidence'[c[2]].lease = "free"
<2> DEFINE d == [r EXCEPT !.at = "reporting", !.result = result]
<2>1. result \in Outcome
  BY DEF Outcome
<2>2. d.at = "reporting" /\ d.result = result /\ d.inbox = r.inbox
      /\ d.told = r.told /\ d.outbox = r.outbox /\ d.connected = r.connected
      /\ d.aborted = r.aborted /\ d.code = r.code /\ d.blind = r.blind
  BY <1>6 DEF Process
<2>3. /\ child' \in [Child -> Process]
      /\ evidence' \in [Universe -> [ticks : Nat, published : BOOLEAN, sound : BOOLEAN,
                                     lease : {"free", "held", "stale"}]]
      /\ child'[c] = d
      /\ \A b \in Child : b # c => child'[b] = child[b]
      /\ \A u \in Universe : u # c[2] => evidence'[u] = evidence[u]
      /\ evidence'[c[2]].published = e.published
      /\ evidence'[c[2]].sound = e.sound
      /\ evidence'[c[2]].lease = "free"
  BY <1>3, <1>6, <1>9, <2>1, FinishedStep
<2> HIDE DEF d, r
<2>4. TypeOK'
  BY <1>7, <2>3 DEF TypeOK
<2>5. Proceeds(c)
  BY <1>1, <1>7, <2>2, <2>3 DEF Proceeds, AtWork
<2> QED BY <1>6, <2>2, <2>3, <2>4, <2>5
<1>10. CASE e.lease = "free" /\ ~e.sound
<2>1. Finished(c, r, "error", e)
  BY <1>10 DEF Hear
<2> QED BY <1>1, <1>9, <1>10, <2>1
<1>11. CASE e.lease = "free" /\ e.sound /\ e.published
<2>1. Finished(c, r, "summary", e)
  BY <1>3, <1>11 DEF Hear
<2> QED BY <1>1, <1>9, <1>11, <2>1
<1>12. CASE e.lease = "free" /\ e.sound /\ ~e.published
<2> DEFINE b == scenario.open /\ e.ticks > 0
           d == [r EXCEPT !.at = "running", !.blind = b]
<2>0. b \in BOOLEAN
  OBVIOUS
<2>1. SetChild(c, d) /\ evidence' = [evidence EXCEPT ![c[2]].lease = "held"]
  BY <1>3, <1>12 DEF Hear
<2> HIDE DEF b
<2>2. d \in Process /\ d.at = "running" /\ d.result = r.result /\ d.inbox = r.inbox
      /\ d.told = r.told /\ d.outbox = r.outbox /\ d.connected = r.connected
      /\ d.aborted = r.aborted /\ d.code = r.code /\ d.blind = b
  BY <1>6, <2>0 DEF Process, At
<2> HIDE DEF d, r
<2>3. child' \in [Child -> Process] /\ child'[c] = d
      /\ \A k \in Child : k # c => child'[k] = child[k]
  BY <2>1, <2>2, ChildSet DEF TypeOK
<2>4. /\ evidence' \in [Universe -> [ticks : Nat, published : BOOLEAN, sound : BOOLEAN,
                                     lease : {"free", "held", "stale"}]]
      /\ \A u \in Universe : u # c[2] => evidence'[u] = evidence[u]
      /\ evidence'[c[2]].published = e.published /\ evidence'[c[2]].sound = e.sound
      /\ evidence'[c[2]].lease = "held"
  BY <1>2, <1>3, <2>1 DEF TypeOK
<2>5. TypeOK'
  BY <1>7, <2>3, <2>4 DEF TypeOK
<2>6. Proceeds(c)
  BY <1>1, <1>7, <2>2, <2>3, <2>4 DEF Proceeds, AtWork
<2>7. child'[c].blind => scenario.open /\ evidence[c[2]].ticks > 0
  BY <2>2, <2>3 DEF b
<2> QED BY <1>1, <1>6, <1>12, <2>2, <2>3, <2>4, <2>5, <2>6, <2>7
<1> QED BY <1>3, <1>8, <1>10, <1>11, <1>12

(* A process that runs goes on by a tick, pauses, or ends with a summary or with *)
(* the refusal of its replay.                                                     *)
LEMMA AdvanceStep ==
    ASSUME TypeOK, NEW c \in Child, Advance(c)
    PROVE  /\ TypeOK' /\ Proceeds(c) /\ child[c].at = "running"
           /\ child'[c].inbox = child[c].inbox
           /\ child'[c].told = child[c].told /\ child'[c].outbox = child[c].outbox
           /\ child'[c].connected = child[c].connected
           /\ child'[c].aborted = child[c].aborted /\ child'[c].code = child[c].code
           /\ child'[c].blind = child[c].blind
           /\ evidence[c[2]].sound /\ ~evidence'[c[2]].sound => child[c].blind
           /\ \/ /\ child'[c].at = "running" /\ child'[c].result = child[c].result
                 /\ evidence'[c[2]].lease = evidence[c[2]].lease
              \/ /\ child'[c].at = "reporting" /\ evidence'[c[2]].lease = "free"
                 /\ \/ child'[c].result = "paused"
                    \/ child'[c].result = "summary" /\ evidence'[c[2]].published
                    \/ child'[c].result = "error" /\ ~evidence'[c[2]].sound
<1> DEFINE r == child[c]
           e == evidence[c[2]]
           p == [e EXCEPT !.published = TRUE]
<1>1. r \in Process /\ r.at = "running"
  BY DEF TypeOK, Advance
<1>2. c[2] \in Universe
  BY Children
<1>3. e \in [ticks : Nat, published : BOOLEAN, sound : BOOLEAN,
             lease : {"free", "held", "stale"}]
  BY <1>2 DEF TypeOK
<1>4. p \in [ticks : Nat, published : BOOLEAN, sound : BOOLEAN,
             lease : {"free", "held", "stale"}]
      /\ p.published /\ p.sound = e.sound
  BY <1>3
<1>5. UNCHANGED <<scenario, left, parent, worker, outcome, status, populations>>
  BY DEF Advance
<1>6. ASSUME NEW result \in {"paused", "summary", "error"},
             NEW f \in {e, p}, Finished(c, r, result, f), result = "summary" => f = p
      PROVE  /\ TypeOK' /\ Proceeds(c)
             /\ child'[c].inbox = r.inbox
             /\ child'[c].told = r.told /\ child'[c].outbox = r.outbox
             /\ child'[c].connected = r.connected
             /\ child'[c].aborted = r.aborted /\ child'[c].code = r.code
             /\ child'[c].blind = r.blind
             /\ evidence'[c[2]].sound = e.sound
             /\ child'[c].at = "reporting" /\ child'[c].result = result
             /\ evidence'[c[2]].lease = "free"
             /\ result = "summary" => evidence'[c[2]].published
<2> DEFINE d == [r EXCEPT !.at = "reporting", !.result = result]
<2>1. result \in Outcome
  BY DEF Outcome
<2>2. d.at = "reporting" /\ d.result = result /\ d.inbox = r.inbox
      /\ d.told = r.told /\ d.outbox = r.outbox /\ d.connected = r.connected
      /\ d.aborted = r.aborted /\ d.code = r.code /\ d.blind = r.blind
  BY <1>1 DEF Process
<2>3. f \in [ticks : Nat, published : BOOLEAN, sound : BOOLEAN,
             lease : {"free", "held", "stale"}] /\ f.sound = e.sound
      /\ (e.published => f.published)
  BY <1>3, <1>4
<2>4. /\ child' \in [Child -> Process]
      /\ evidence' \in [Universe -> [ticks : Nat, published : BOOLEAN, sound : BOOLEAN,
                                     lease : {"free", "held", "stale"}]]
      /\ child'[c] = d
      /\ \A b \in Child : b # c => child'[b] = child[b]
      /\ \A u \in Universe : u # c[2] => evidence'[u] = evidence[u]
      /\ evidence'[c[2]].published = f.published
      /\ evidence'[c[2]].sound = f.sound
      /\ evidence'[c[2]].lease = "free"
  BY <1>1, <1>6, <2>1, <2>3, FinishedStep
<2> HIDE DEF d
<2>5. TypeOK'
  BY <1>5, <2>4 DEF TypeOK
<2>6. Proceeds(c)
  BY <1>1, <1>5, <2>2, <2>3, <2>4 DEF Proceeds, AtWork
<2> QED BY <1>4, <1>6, <2>2, <2>3, <2>4, <2>5, <2>6
<1>7. CASE r.aborted
<2>1. Finished(c, r, "paused", e)
  BY <1>7 DEF Advance
<2> QED BY <1>1, <1>6, <2>1
<1>8. CASE ~r.aborted /\ e.ticks = Ticks /\ e.sound
<2>1. Finished(c, r, "summary", p)
  BY <1>8 DEF Advance
<2> QED BY <1>1, <1>6, <2>1
<1>9. CASE ~r.aborted /\ e.ticks = Ticks /\ ~e.sound
<2>1. Finished(c, r, "error", e)
  BY <1>9 DEF Advance
<2> QED BY <1>1, <1>6, <1>9, <2>1
<1>10. CASE ~r.aborted /\ e.ticks # Ticks
<2>1. PICK sound \in {e.sound, e.sound /\ ~r.blind} :
        evidence' = [evidence EXCEPT ![c[2]].ticks = @ + 1, ![c[2]].sound = sound]
  BY <1>10 DEF Advance
<2>2. UNCHANGED child
  BY <1>10 DEF Advance
<2>3. sound \in BOOLEAN /\ (sound => e.sound) /\ (e.sound /\ ~sound => r.blind)
  <3>1. e.sound \in BOOLEAN /\ r.blind \in BOOLEAN
    BY <1>1, <1>3 DEF Process
  <3>2. CASE sound = e.sound
    BY <3>1, <3>2
  <3>3. CASE sound = (e.sound /\ ~r.blind)
    BY <3>1, <3>3
  <3> QED BY <2>1, <3>2, <3>3
<2> DEFINE f == [e EXCEPT !.ticks = @ + 1, !.sound = sound]
<2>4. f \in [ticks : Nat, published : BOOLEAN, sound : BOOLEAN,
             lease : {"free", "held", "stale"}]
      /\ f.published = e.published /\ f.sound = sound /\ f.lease = e.lease
  <3> DEFINE g == [e EXCEPT !.ticks = @ + 1]
  <3>1. g \in [ticks : Nat, published : BOOLEAN, sound : BOOLEAN,
               lease : {"free", "held", "stale"}]
        /\ g.published = e.published /\ g.lease = e.lease
    BY <1>3
  <3>2. f = [g EXCEPT !.sound = sound]
    BY <1>3
  <3>3. sound \in BOOLEAN
    BY <2>3
  <3> HIDE DEF f, g
  <3> QED BY <3>1, <3>2, <3>3
<2>5. evidence' = [evidence EXCEPT ![c[2]] = f]
  BY <1>2, <2>1 DEF TypeOK
<2> HIDE DEF f
<2>6. /\ evidence' \in [Universe -> [ticks : Nat, published : BOOLEAN, sound : BOOLEAN,
                                     lease : {"free", "held", "stale"}]]
      /\ \A u \in Universe : u # c[2] => evidence'[u] = evidence[u]
      /\ evidence'[c[2]].published = e.published /\ evidence'[c[2]].sound = sound
      /\ evidence'[c[2]].lease = e.lease
  BY <1>2, <2>4, <2>5 DEF TypeOK
<2>7. TypeOK'
  BY <1>5, <2>2, <2>6 DEF TypeOK
<2>8. Proceeds(c)
  BY <1>1, <1>5, <2>2, <2>3, <2>6 DEF Proceeds, AtWork
<2> QED BY <1>1, <2>2, <2>3, <2>6, <2>7, <2>8
<1> QED BY <1>7, <1>8, <1>9, <1>10

(* A run that throws. *)
LEMMA ThrowStep ==
    ASSUME TypeOK, NEW c \in Child, Throw(c)
    PROVE  /\ TypeOK' /\ Proceeds(c) /\ left.errors > 0 /\ child[c].at = "running"
           /\ child'[c].at = "reporting" /\ child'[c].result = "error"
           /\ child'[c].inbox = child[c].inbox
           /\ child'[c].told = child[c].told /\ child'[c].outbox = child[c].outbox
           /\ child'[c].connected = child[c].connected /\ child'[c].blind = child[c].blind
           /\ evidence'[c[2]].published = evidence[c[2]].published
<1> DEFINE r == child[c]
           e == [evidence[c[2]] EXCEPT !.sound = FALSE]
           d == [r EXCEPT !.at = "reporting", !.result = "error"]
<1>1. r \in Process /\ r.at = "running" /\ "error" \in Outcome
  BY DEF TypeOK, Throw, Outcome
<1>2. c[2] \in Universe
  BY Children
<1>3. e \in [ticks : Nat, published : BOOLEAN, sound : BOOLEAN,
             lease : {"free", "held", "stale"}] /\ e.published = evidence[c[2]].published
      /\ ~e.sound
<2>1. evidence[c[2]] \in [ticks : Nat, published : BOOLEAN, sound : BOOLEAN,
                          lease : {"free", "held", "stale"}]
  BY <1>2 DEF TypeOK
<2> QED BY <2>1
<1>4. UNCHANGED <<scenario, parent, worker, outcome, status, populations>>
      /\ left.errors > 0 /\ left' = [left EXCEPT !.errors = @ - 1]
  BY DEF Throw
<1>5. left' \in [kills : 0 .. scenario.kills, errors : 0 .. scenario.errors,
                 aborts : 0 .. scenario.aborts]
  BY <1>4, PoolAssumption DEF TypeOK
<1>6. d.at = "reporting" /\ d.result = "error" /\ d.inbox = r.inbox
      /\ d.told = r.told /\ d.outbox = r.outbox /\ d.connected = r.connected
      /\ d.blind = r.blind
  BY <1>1 DEF Process
<1>7. ASSUME NEW f \in [ticks : Nat, published : BOOLEAN, sound : BOOLEAN,
                       lease : {"free", "held", "stale"}],
             NEW x \in Outcome, Finished(c, r, x, f)
      PROVE  /\ child' \in [Child -> Process]
             /\ evidence' \in [Universe -> [ticks : Nat, published : BOOLEAN, sound : BOOLEAN,
                                            lease : {"free", "held", "stale"}]]
             /\ child'[c] = [r EXCEPT !.at = "reporting", !.result = x]
             /\ \A b \in Child : b # c => child'[b] = child[b]
             /\ \A u \in Universe : u # c[2] => evidence'[u] = evidence[u]
             /\ evidence'[c[2]].published = f.published
             /\ evidence'[c[2]].sound = f.sound
             /\ evidence'[c[2]].lease = "free"
<2> HIDE DEF r
<2>1. r \in Process
  BY <1>1
<2> QED BY <1>7, <2>1, FinishedStep
<1>8. Finished(c, r, "error", e)
  BY DEF Throw
<1>9. /\ child' \in [Child -> Process]
      /\ evidence' \in [Universe -> [ticks : Nat, published : BOOLEAN, sound : BOOLEAN,
                                     lease : {"free", "held", "stale"}]]
      /\ child'[c] = d
      /\ \A b \in Child : b # c => child'[b] = child[b]
      /\ \A u \in Universe : u # c[2] => evidence'[u] = evidence[u]
      /\ evidence'[c[2]].published = e.published /\ evidence'[c[2]].sound = e.sound
<2> HIDE DEF e
<2> QED BY <1>1, <1>3, <1>7, <1>8
<1> HIDE DEF d
<1>10. TypeOK'
  BY <1>4, <1>5, <1>9 DEF TypeOK
<1>11. Proceeds(c)
  BY <1>1, <1>3, <1>4, <1>6, <1>9 DEF Proceeds, AtWork
<1> QED BY <1>1, <1>3, <1>4, <1>6, <1>9, <1>10, <1>11

(* A process reports and ends; a report that is refused ends it too. *)
LEMMA ReportStep ==
    ASSUME TypeOK, NEW c \in Child, Report(c)
    PROVE  /\ TypeOK' /\ Proceeds(c) /\ UNCHANGED evidence
           /\ child[c].at = "reporting" /\ (child'[c].blind => child[c].blind)
           /\ IF child[c].connected
              THEN /\ child'[c].at = "leaving" /\ child'[c].connected
                   /\ child'[c].outbox = [type |-> child[c].result, universe |-> c[2]]
                   /\ child'[c].inbox = child[c].inbox /\ child'[c].told = child[c].told
                   /\ child'[c].result = child[c].result /\ child'[c].code = child[c].code
              ELSE child'[c] = [NoChild EXCEPT !.at = "exited", !.code = 1]
<1> DEFINE o == [type |-> child[c].result, universe |-> c[2]]
           d == [child[c] EXCEPT !.at = "leaving", !.outbox = o]
           g == [NoChild EXCEPT !.at = "exited", !.code = 1]
<1>1. child[c] \in Process /\ child[c].at = "reporting"
  BY DEF TypeOK, Report
<1>2. c[2] \in Universe
  BY Children
<1>3. o \in [type : Outcome, universe : Universe \union {0}]
  BY <1>1, <1>2 DEF Process
<1>4. d \in Process /\ d.at = "leaving" /\ d.outbox = o /\ d.connected = child[c].connected
      /\ d.inbox = child[c].inbox /\ d.told = child[c].told
      /\ d.result = child[c].result /\ d.code = child[c].code
      /\ d.blind = child[c].blind
  BY <1>1, <1>3 DEF Process, At
<1>5. g \in Process /\ g.at = "exited" /\ ~g.blind
  BY NoChildType DEF Process, At
<1>6. UNCHANGED <<scenario, left, parent, worker, outcome, status, evidence, populations>>
      /\ SetChild(c, IF child[c].connected THEN d ELSE g)
  BY DEF Report
<1> HIDE DEF d, g
<1>7. child' \in [Child -> Process] /\ child'[c] = (IF child[c].connected THEN d ELSE g)
      /\ \A b \in Child : b # c => child'[b] = child[b]
  BY <1>4, <1>5, <1>6, ChildSet DEF TypeOK
<1>8. TypeOK'
  BY <1>6, <1>7 DEF TypeOK
<1>9. Proceeds(c)
  BY <1>1, <1>4, <1>5, <1>6, <1>7 DEF Proceeds, AtWork
<1> QED BY <1>1, <1>4, <1>5, <1>6, <1>7, <1>8, <1>9 DEF g

(* A process that leaves. *)
LEMMA LeaveStep ==
    ASSUME TypeOK, NEW c \in Child, Leave(c)
    PROVE  /\ TypeOK' /\ Proceeds(c) /\ UNCHANGED evidence
           /\ \/ child[c].at = "leaving"
              \/ child[c].at = "forked" /\ ~child[c].connected
           /\ child'[c].at = "exited" /\ child'[c].outbox = child[c].outbox
           /\ child'[c].inbox = child[c].inbox /\ child'[c].told = child[c].told
           /\ child'[c].result = child[c].result /\ child'[c].code = child[c].code
           /\ child'[c].blind = child[c].blind
<1> DEFINE d == [child[c] EXCEPT !.at = "exited", !.connected = FALSE]
<1>1. /\ child[c] \in Process
      /\ \/ child[c].at = "leaving"
         \/ child[c].at = "forked" /\ ~child[c].connected
  BY DEF TypeOK, Leave
<1>2. d \in Process /\ d.at = "exited" /\ d.outbox = child[c].outbox
      /\ d.inbox = child[c].inbox /\ d.told = child[c].told
      /\ d.result = child[c].result /\ d.code = child[c].code
      /\ d.blind = child[c].blind
  BY <1>1 DEF Process, At
<1>3. UNCHANGED <<scenario, left, parent, worker, outcome, status, evidence, populations>>
      /\ SetChild(c, d)
  BY DEF Leave
<1> HIDE DEF d
<1>4. child' \in [Child -> Process] /\ child'[c] = d
      /\ \A b \in Child : b # c => child'[b] = child[b]
  BY <1>2, <1>3, ChildSet DEF TypeOK
<1>5. TypeOK'
  BY <1>3, <1>4 DEF TypeOK
<1>6. Proceeds(c)
  BY <1>1, <1>2, <1>3, <1>4 DEF Proceeds, AtWork
<1> QED BY <1>1, <1>2, <1>3, <1>4, <1>5, <1>6

(* A process that is killed. *)
LEMMA KillChildStep ==
    ASSUME TypeOK, NEW c \in Child, KillChild(c)
    PROVE  /\ TypeOK' /\ Proceeds(c) /\ left.kills > 0
           /\ child'[c].at = "exited" /\ child'[c].outbox = child[c].outbox
           /\ child'[c].inbox = child[c].inbox /\ child'[c].told = child[c].told
           /\ child'[c].result = child[c].result /\ child'[c].blind = child[c].blind
           /\ evidence'[c[2]].published = evidence[c[2]].published
<1> DEFINE d == [child[c] EXCEPT !.at = "exited", !.connected = FALSE, !.code = 9]
<1>1. child[c] \in Process /\ child[c].at \in AtWork /\ left.kills > 0
  BY DEF TypeOK, KillChild, AtWork
<1>2. d \in Process /\ d.at = "exited" /\ d.outbox = child[c].outbox
      /\ d.inbox = child[c].inbox /\ d.told = child[c].told
      /\ d.result = child[c].result /\ d.blind = child[c].blind
  BY <1>1 DEF Process, At
<1>3. UNCHANGED <<scenario, parent, worker, outcome, status, populations>>
      /\ SetChild(c, d) /\ left' = [left EXCEPT !.kills = @ - 1]
  BY DEF KillChild
<1>4. left' \in [kills : 0 .. scenario.kills, errors : 0 .. scenario.errors,
                 aborts : 0 .. scenario.aborts]
  BY <1>1, <1>3, PoolAssumption DEF TypeOK
<1> HIDE DEF d
<1>5. child' \in [Child -> Process] /\ child'[c] = d
      /\ \A b \in Child : b # c => child'[b] = child[b]
  BY <1>2, <1>3, ChildSet DEF TypeOK
<1>6. /\ evidence' \in [Universe -> [ticks : Nat, published : BOOLEAN, sound : BOOLEAN,
                                     lease : {"free", "held", "stale"}]]
      /\ \A u \in Universe : u # c[2] => evidence'[u] = evidence[u]
      /\ evidence'[c[2]].published = evidence[c[2]].published
      /\ evidence'[c[2]].sound => evidence[c[2]].sound
<2>1. CASE UNCHANGED evidence
  BY <2>1 DEF TypeOK
<2>2. ASSUME NEW sound \in {FALSE, evidence[c[2]].sound},
             evidence' = [evidence EXCEPT ![c[2]].lease = "stale", ![c[2]].sound = sound]
      PROVE  /\ evidence' \in [Universe -> [ticks : Nat, published : BOOLEAN, sound : BOOLEAN,
                                            lease : {"free", "held", "stale"}]]
             /\ \A u \in Universe : u # c[2] => evidence'[u] = evidence[u]
             /\ evidence'[c[2]].published = evidence[c[2]].published
             /\ evidence'[c[2]].sound => evidence[c[2]].sound
<3> DEFINE e == evidence[c[2]]
           f == [e EXCEPT !.lease = "stale", !.sound = sound]
<3>1. c[2] \in Universe
  BY Children
<3>2. e \in [ticks : Nat, published : BOOLEAN, sound : BOOLEAN,
             lease : {"free", "held", "stale"}]
  BY <3>1 DEF TypeOK
<3>3. f \in [ticks : Nat, published : BOOLEAN, sound : BOOLEAN,
             lease : {"free", "held", "stale"}]
      /\ f.published = e.published /\ (f.sound => e.sound)
  BY <3>2
<3>4. evidence' = [evidence EXCEPT ![c[2]] = f]
  BY <2>2, <3>1 DEF TypeOK
<3> HIDE DEF f
<3> QED BY <3>1, <3>3, <3>4 DEF TypeOK
<2> QED BY <2>1, <2>2 DEF KillChild
<1>7. TypeOK'
  BY <1>3, <1>4, <1>5, <1>6 DEF TypeOK
<1>8. Proceeds(c)
  BY <1>1, <1>2, <1>3, <1>5, <1>6 DEF Proceeds
<1> QED BY <1>1, <1>2, <1>5, <1>6, <1>7, <1>8

-----------------------------------------------------------------------------
(* What the command does to the process of a universe it awaits. *)
Tells(u) ==
    LET c == ChildOf(u)
    IN  /\ UNCHANGED <<scenario, parent, worker, status, evidence, populations>>
        /\ Awaited(u)
        /\ \A b \in Child : b # c => child'[b] = child[b]
        /\ child'[c].at = child[c].at /\ child'[c].connected = child[c].connected
        /\ child'[c].aborted = child[c].aborted /\ child'[c].result = child[c].result
        /\ child'[c].code = child[c].code /\ child'[c].blind = child[c].blind

(* A process that is spawned. *)
LEMMA SpawnedStep ==
    ASSUME TypeOK, NEW u \in Universe, Spawned(u)
    PROVE  /\ TypeOK' /\ Tells(u) /\ UNCHANGED outcome
           /\ child[ChildOf(u)].told = "nothing" /\ child'[ChildOf(u)].told = "sending"
           /\ child'[ChildOf(u)].inbox = Append(child[ChildOf(u)].inbox, "run")
           /\ child'[ChildOf(u)].outbox = child[ChildOf(u)].outbox
<1> DEFINE c == ChildOf(u)
           d == [child[c] EXCEPT !.told = "sending", !.inbox = Append(@, "run")]
<1>1. c \in Child
  BY Children
<1>2. child[c] \in Process
  BY <1>1 DEF TypeOK
<1>3. child[c].inbox \in Seq({"run", "cancel"})
  BY <1>2 DEF Process
<1>4. Append(child[c].inbox, "run") \in Seq({"run", "cancel"})
  BY <1>3, Sending
<1>5. d \in Process /\ d.at = child[c].at /\ d.connected = child[c].connected
      /\ d.aborted = child[c].aborted /\ d.result = child[c].result
      /\ d.blind = child[c].blind /\ d.code = child[c].code /\ d.told = "sending"
      /\ d.inbox = Append(child[c].inbox, "run") /\ d.outbox = child[c].outbox
  BY <1>2, <1>4 DEF Process
<1>6. UNCHANGED <<scenario, left, parent, worker, outcome, status, evidence, populations>>
      /\ SetChild(c, d) /\ Awaited(u) /\ child[c].told = "nothing"
  BY DEF Spawned
<1> HIDE DEF d, c
<1>7. child' \in [Child -> Process] /\ child'[c] = d
      /\ \A b \in Child : b # c => child'[b] = child[b]
  BY <1>1, <1>5, <1>6, ChildSet DEF TypeOK
<1>8. TypeOK'
  BY <1>6, <1>7 DEF TypeOK
<1> QED BY <1>5, <1>6, <1>7, <1>8 DEF Tells, c

(* A message that is sent. *)
LEMMA SentStep ==
    ASSUME TypeOK, NEW u \in Universe, Sent(u)
    PROVE  /\ TypeOK' /\ Tells(u) /\ UNCHANGED outcome
           /\ child[ChildOf(u)].told = "sending" /\ child'[ChildOf(u)].told = "sent"
           /\ child'[ChildOf(u)].inbox =
                IF parent.aborted /\ child[ChildOf(u)].connected
                THEN Append(child[ChildOf(u)].inbox, "cancel") ELSE child[ChildOf(u)].inbox
           /\ child'[ChildOf(u)].outbox = child[ChildOf(u)].outbox
<1> DEFINE c == ChildOf(u)
           s == child[c].inbox
           x == IF parent.aborted /\ child[c].connected THEN Append(s, "cancel") ELSE s
           d == [child[c] EXCEPT !.told = "sent", !.inbox = x]
<1>1. c \in Child
  BY Children
<1>2. child[c] \in Process
  BY <1>1 DEF TypeOK
<1>3. s \in Seq({"run", "cancel"})
  BY <1>2 DEF Process
<1>4. x \in Seq({"run", "cancel"})
  BY <1>3, Sending
<1>5. UNCHANGED <<scenario, left, parent, worker, outcome, status, evidence, populations>>
      /\ SetChild(c, d) /\ Awaited(u) /\ child[c].told = "sending"
  BY DEF Sent
<1> HIDE DEF x
<1>6. d \in Process /\ d.at = child[c].at /\ d.connected = child[c].connected
      /\ d.aborted = child[c].aborted /\ d.result = child[c].result
      /\ d.blind = child[c].blind /\ d.code = child[c].code /\ d.told = "sent"
      /\ d.inbox = x /\ d.outbox = child[c].outbox
  BY <1>2, <1>4 DEF Process
<1> HIDE DEF d, c
<1>7. child' \in [Child -> Process] /\ child'[c] = d
      /\ \A b \in Child : b # c => child'[b] = child[b]
  BY <1>1, <1>5, <1>6, ChildSet DEF TypeOK
<1>8. TypeOK'
  BY <1>5, <1>7 DEF TypeOK
<1> QED BY <1>5, <1>6, <1>7, <1>8 DEF Tells, c, x

(* A report that is received. *)
LEMMA MessageStep ==
    ASSUME TypeOK, NEW u \in Universe, Message(u)
    PROVE  /\ TypeOK' /\ Tells(u)
           /\ child'[ChildOf(u)].told = child[ChildOf(u)].told
           /\ child'[ChildOf(u)].inbox = child[ChildOf(u)].inbox
           /\ child[ChildOf(u)].outbox # NoReport /\ child'[ChildOf(u)].outbox = NoReport
           /\ \A v \in Universe : v # u => outcome'[v] = outcome[v]
           /\ outcome'[u] = IF child[ChildOf(u)].outbox.universe = u
                            THEN child[ChildOf(u)].outbox.type ELSE "error"
<1> DEFINE c == ChildOf(u)
           d == [child[c] EXCEPT !.outbox = NoReport]
<1>1. c \in Child
  BY Children
<1>2. child[c] \in Process
  BY <1>1 DEF TypeOK
<1>3. NoReport \in [type : Outcome, universe : Universe \union {0}]
  BY DEF NoReport, Outcome
<1>4. d \in Process /\ d.at = child[c].at /\ d.connected = child[c].connected
      /\ d.aborted = child[c].aborted /\ d.result = child[c].result
      /\ d.blind = child[c].blind /\ d.code = child[c].code /\ d.told = child[c].told
      /\ d.inbox = child[c].inbox /\ d.outbox = NoReport
  BY <1>2, <1>3 DEF Process
<1>5. UNCHANGED <<scenario, left, parent, worker, status, evidence, populations>>
      /\ SetChild(c, d) /\ Awaited(u) /\ child[c].outbox # NoReport
      /\ outcome' = [outcome EXCEPT ![u] = Parsed(u, child[c].outbox)]
  BY DEF Message
<1>6. Parsed(u, child[c].outbox) \in Outcome
  BY <1>2 DEF Parsed, Process, Outcome
<1> HIDE DEF d, c
<1>7. child' \in [Child -> Process] /\ child'[c] = d
      /\ \A b \in Child : b # c => child'[b] = child[b]
  BY <1>1, <1>4, <1>5, ChildSet DEF TypeOK
<1>8. /\ outcome' \in [Universe -> Outcome]
      /\ outcome'[u] = Parsed(u, child[c].outbox)
      /\ \A v \in Universe : v # u => outcome'[v] = outcome[v]
  BY <1>5, <1>6 DEF TypeOK
<1>9. TypeOK'
  BY <1>5, <1>7, <1>8 DEF TypeOK
<1> QED BY <1>4, <1>5, <1>7, <1>8, <1>9 DEF Tells, Parsed, c

(* The promise of a universe settles: its process is reaped. *)
Reaped == [NoChild EXCEPT !.at = "reaped"]

Ends(u, result) ==
    /\ UNCHANGED <<scenario, parent, outcome, evidence, populations>>
    /\ Awaited(u)
    /\ child'[ChildOf(u)] = Reaped
    /\ \A b \in Child : b # ChildOf(u) => child'[b] = child[b]
    /\ status'[u] = result
    /\ \A v \in Universe : v # u => status'[v] = status[v]
    /\ worker'[status[u]] = IF result = "paused" THEN "stopped" ELSE "free"
    /\ \A w \in Worker : w # status[u] => worker'[w] = worker[w]

(* A process that is reaped is a process. *)
LEMMA ReapedType ==
    /\ Reaped \in Process /\ Reaped.at = "reaped" /\ Reaped.inbox = <<>>
    /\ Reaped.told = "nothing" /\ Reaped.outbox = NoReport /\ Reaped.code = 0
    /\ Reaped.result = "none" /\ ~Reaped.aborted /\ ~Reaped.connected /\ ~Reaped.blind
BY NoChildType DEF Reaped, Process, At

(* The end of an attempt. *)
LEMMA EndStep ==
    ASSUME TypeOK, NEW u \in Universe, NEW result \in {"summary", "paused", "failed"},
           Awaited(u), SetChild(ChildOf(u), [NoChild EXCEPT !.at = "reaped"]),
           Settled(u, result),
           left' \in [kills : 0 .. scenario.kills, errors : 0 .. scenario.errors,
                      aborts : 0 .. scenario.aborts],
           UNCHANGED <<scenario, parent, outcome, evidence, populations>>
    PROVE  TypeOK' /\ Ends(u, result)
<1>1. ChildOf(u) \in Child
  BY Children
<1>2. SetChild(ChildOf(u), Reaped)
  BY DEF Reaped
<1>3. child' \in [Child -> Process] /\ child'[ChildOf(u)] = Reaped
      /\ \A b \in Child : b # ChildOf(u) => child'[b] = child[b]
  BY <1>1, <1>2, ReapedType, ChildSet DEF TypeOK
<1>4. status[u] \in Worker
  BY DEF Awaited
<1>6. /\ status' \in [Universe -> Worker \union {"pending", "summary", "paused", "failed"}]
      /\ status'[u] = result
      /\ \A v \in Universe : v # u => status'[v] = status[v]
  BY DEF Settled, TypeOK
<1>7. /\ worker' \in [Worker -> {"free", "waits", "stopped"}]
      /\ worker'[status[u]] = IF result = "paused" THEN "stopped" ELSE "free"
      /\ \A w \in Worker : w # status[u] => worker'[w] = worker[w]
  BY <1>4 DEF Settled, TypeOK
<1> QED BY <1>3, <1>6, <1>7 DEF TypeOK, Ends

(* A spawn or a send that fails ends it as a failure. *)
LEMMA FailsStep ==
    ASSUME TypeOK, NEW u \in Universe, SpawnFails(u) \/ SendFails(u)
    PROVE  /\ TypeOK' /\ Ends(u, "failed")
           /\ \/ left.errors > 0
              \/ child[ChildOf(u)].at = "exited" /\ "run" \in ToSet(child[ChildOf(u)].inbox)
<1>1. left' \in [kills : 0 .. scenario.kills, errors : 0 .. scenario.errors,
                 aborts : 0 .. scenario.aborts]
<2>1. CASE SpawnFails(u)
  BY <2>1, PoolAssumption DEF SpawnFails, TypeOK
<2>2. CASE SendFails(u)
  BY <2>2 DEF SendFails, TypeOK
<2> QED BY <2>1, <2>2
<1>2. /\ Awaited(u) /\ SetChild(ChildOf(u), [NoChild EXCEPT !.at = "reaped"])
      /\ Settled(u, "failed")
      /\ UNCHANGED <<scenario, parent, outcome, evidence, populations>>
  BY DEF SpawnFails, SendFails
<1>3. \/ left.errors > 0
      \/ child[ChildOf(u)].at = "exited" /\ "run" \in ToSet(child[ChildOf(u)].inbox)
  BY DEF SpawnFails, SendFails
<1> DEFINE x == "failed"
<1>4. Settled(u, x) /\ x \in {"summary", "paused", "failed"}
  BY <1>2
<1> HIDE DEF x
<1>5. TypeOK' /\ Ends(u, x)
  BY <1>1, <1>2, <1>4, EndStep
<1> QED BY <1>3, <1>5 DEF x

(* An exit ends it as its last message says. *)
LEMMA ExitStep ==
    ASSUME TypeOK, NEW u \in Universe, Exit(u)
    PROVE  /\ TypeOK' /\ Ends(u, Resolution(u))
           /\ Resolution(u) \in {"summary", "paused", "failed"}
           /\ child[ChildOf(u)].at = "exited" /\ child[ChildOf(u)].outbox = NoReport
           /\ Resolution(u) = "summary" => outcome[u] = "summary"
           /\ outcome[u] = "paused" => Resolution(u) = "paused"
           /\ outcome[u] = "summary" /\ child[ChildOf(u)].code = 0 => Resolution(u) = "summary"
<1>1. /\ Resolution(u) \in {"summary", "paused", "failed"}
      /\ Resolution(u) = "summary" => outcome[u] = "summary"
      /\ outcome[u] = "paused" => Resolution(u) = "paused"
      /\ outcome[u] = "summary" /\ child[ChildOf(u)].code = 0 => Resolution(u) = "summary"
  BY DEF Resolution
<1>2. /\ Awaited(u) /\ SetChild(ChildOf(u), [NoChild EXCEPT !.at = "reaped"])
      /\ Settled(u, Resolution(u))
      /\ UNCHANGED <<scenario, left, parent, outcome, evidence, populations>>
      /\ child[ChildOf(u)].at = "exited" /\ child[ChildOf(u)].outbox = NoReport
  BY DEF Exit
<1>3. left' \in [kills : 0 .. scenario.kills, errors : 0 .. scenario.errors,
                 aborts : 0 .. scenario.aborts]
  BY <1>2 DEF TypeOK
<1>4. TypeOK' /\ Ends(u, Resolution(u))
  BY <1>1, <1>2, <1>3, EndStep
<1> QED BY <1>1, <1>2, <1>4

-----------------------------------------------------------------------------
(* What the other steps do. *)

(* A loop of the pool ends, or takes the next universe. *)
LEMMA ClaimStep ==
    ASSUME TypeOK, NEW w \in Worker, Claim(w)
    PROVE  /\ TypeOK' /\ Running /\ worker[w] = "free"
           /\ UNCHANGED <<scenario, outcome, evidence, populations>>
           /\ \A v \in Worker : v # w => worker'[v] = worker[v]
           /\ \/ /\ parent.aborted \/ parent.next > scenario.universes
                 /\ worker'[w] = "stopped" /\ UNCHANGED <<parent, status, child>>
              \/ /\ ~parent.aborted /\ parent.next \in Universe
                 /\ parent' = [parent EXCEPT !.next = @ + 1]
                 /\ worker'[w] = "waits" /\ status'[parent.next] = w
                 /\ \A u \in Universe : u # parent.next => status'[u] = status[u]
                 /\ child'[ChildOf(parent.next)] =
                        [NoChild EXCEPT !.at = "forked", !.connected = TRUE]
                 /\ \A c \in Child : c # ChildOf(parent.next) => child'[c] = child[c]
<1>1. /\ Running /\ worker[w] = "free"
      /\ UNCHANGED <<scenario, left, outcome, evidence, populations>>
  BY DEF Claim
<1>2. CASE parent.aborted \/ parent.next > scenario.universes
<2>1. worker' = [worker EXCEPT ![w] = "stopped"] /\ UNCHANGED <<parent, status, child>>
  BY <1>2 DEF Claim
<2>2. worker' \in [Worker -> {"free", "waits", "stopped"}] /\ worker'[w] = "stopped"
      /\ \A v \in Worker : v # w => worker'[v] = worker[v]
  BY <2>1 DEF TypeOK
<2>3. TypeOK'
  BY <1>1, <2>1, <2>2 DEF TypeOK
<2> QED BY <1>1, <1>2, <2>1, <2>2, <2>3
<1>3. CASE ~(parent.aborted \/ parent.next > scenario.universes)
<2> DEFINE u == parent.next
           d == [NoChild EXCEPT !.at = "forked", !.connected = TRUE]
<2>1. /\ worker' = [worker EXCEPT ![w] = "waits"]
      /\ parent' = [parent EXCEPT !.next = @ + 1]
      /\ status' = [status EXCEPT ![u] = w]
      /\ SetChild(ChildOf(u), d)
  BY <1>3 DEF Claim
<2>2. u \in Universe /\ u + 1 \in 1 .. scenario.universes + 1
<3>1. scenario.universes \in 1 .. Universes /\ Universes \in Nat
  BY PoolAssumption DEF TypeOK, Universe
<3>2. u \in 1 .. scenario.universes + 1 /\ ~(u > scenario.universes)
  BY <1>3 DEF TypeOK
<3> QED BY <3>1, <3>2 DEF Universe
<2>3. ChildOf(u) \in Child
  BY <2>2, Children
<2>4. d \in Process
  BY NoChildType DEF Process, At
<2> HIDE DEF d
<2>5. child' \in [Child -> Process] /\ child'[ChildOf(u)] = d
      /\ \A c \in Child : c # ChildOf(u) => child'[c] = child[c]
  BY <2>1, <2>3, <2>4, ChildSet DEF TypeOK
<2>6. worker' \in [Worker -> {"free", "waits", "stopped"}] /\ worker'[w] = "waits"
      /\ \A v \in Worker : v # w => worker'[v] = worker[v]
  BY <2>1 DEF TypeOK
<2>7. status' \in [Universe -> Worker \union {"pending", "summary", "paused", "failed"}]
      /\ status'[u] = w /\ \A v \in Universe : v # u => status'[v] = status[v]
  BY <2>1, <2>2 DEF TypeOK
<2>8. parent' \in [run : 1 .. Commands, next : 1 .. scenario.universes + 1,
                   aborted : BOOLEAN,
                   step : {"pool", "existing", "temporary", "link", "unlink"},
                   result : {"none", "published", "paused", "failed", "killed"}]
  BY <2>1, <2>2 DEF TypeOK
<2>9. TypeOK'
  BY <1>1, <2>5, <2>6, <2>7, <2>8 DEF TypeOK
<2> QED BY <1>1, <1>3, <2>1, <2>2, <2>5, <2>6, <2>7, <2>9 DEF d
<1> QED BY <1>2, <1>3

(* An abort is passed on to the processes the command awaits. *)
LEMMA AbortStep ==
    ASSUME TypeOK, Abort
    PROVE  /\ TypeOK' /\ Running /\ parent' = [parent EXCEPT !.aborted = TRUE]
           /\ UNCHANGED <<scenario, worker, outcome, status, evidence, populations>>
           /\ \A c \in Child :
                /\ child'[c].at = child[c].at /\ child'[c].told = child[c].told
                /\ child'[c].outbox = child[c].outbox
                /\ child'[c].connected = child[c].connected /\ child'[c].blind = child[c].blind
                /\ child'[c].result = child[c].result /\ child'[c].code = child[c].code
                /\ \/ child'[c].inbox = child[c].inbox
                   \/ child'[c].inbox = Append(child[c].inbox, "cancel")
           /\ \A u \in Universe : Awaited(u) /\ child[ChildOf(u)].connected =>
                child'[ChildOf(u)].inbox = Append(child[ChildOf(u)].inbox, "cancel")
<1> DEFINE Hit(c) == c[1] = parent.run /\ Awaited(c[2])
           In(c) == IF child[c].connected THEN Append(child[c].inbox, "cancel")
                    ELSE child[c].inbox
           Ab(c) == child[c].aborted \/ (scenario.terminal /\ child[c].at = "running")
           D(c) == [child[c] EXCEPT !.inbox = In(c), !.aborted = Ab(c)]
<1>1. /\ Running /\ parent' = [parent EXCEPT !.aborted = TRUE]
      /\ UNCHANGED <<scenario, worker, outcome, status, evidence, populations>>
      /\ left' = [left EXCEPT !.aborts = @ - 1] /\ left.aborts > 0
      /\ child' = [c \in Child |-> IF Hit(c) THEN D(c) ELSE child[c]]
  BY DEF Abort
<1>2. ASSUME NEW c \in Child
      PROVE  /\ D(c) \in Process /\ D(c).at = child[c].at /\ D(c).told = child[c].told
             /\ D(c).outbox = child[c].outbox /\ D(c).connected = child[c].connected
             /\ D(c).result = child[c].result /\ D(c).code = child[c].code
             /\ D(c).inbox = In(c) /\ D(c).blind = child[c].blind
<2>1. child[c] \in Process
  BY DEF TypeOK
<2>2. child[c].inbox \in Seq({"run", "cancel"})
  BY <2>1 DEF Process
<2>3. In(c) \in Seq({"run", "cancel"})
  BY <2>2, Sending
<2>4. Ab(c) \in BOOLEAN
  OBVIOUS
<2> HIDE DEF In, Ab
<2> QED BY <2>1, <2>3, <2>4 DEF Process
<1> HIDE DEF D, Hit
<1>3. \A c \in Child : child'[c] = IF Hit(c) THEN D(c) ELSE child[c]
  BY <1>1
<1>4. child' \in [Child -> Process]
  BY <1>1, <1>2 DEF TypeOK
<1>5. left' \in [kills : 0 .. scenario.kills, errors : 0 .. scenario.errors,
                 aborts : 0 .. scenario.aborts]
  BY <1>1, PoolAssumption DEF TypeOK
<1>6. TypeOK'
  BY <1>1, <1>4, <1>5 DEF TypeOK
<1>7. ASSUME NEW c \in Child
      PROVE  /\ child'[c].at = child[c].at /\ child'[c].told = child[c].told
             /\ child'[c].outbox = child[c].outbox
             /\ child'[c].connected = child[c].connected /\ child'[c].blind = child[c].blind
             /\ child'[c].result = child[c].result /\ child'[c].code = child[c].code
             /\ \/ child'[c].inbox = child[c].inbox
                \/ child'[c].inbox = Append(child[c].inbox, "cancel")
  BY <1>2, <1>3
<1>8. ASSUME NEW u \in Universe, Awaited(u), child[ChildOf(u)].connected
      PROVE  child'[ChildOf(u)].inbox = Append(child[ChildOf(u)].inbox, "cancel")
<2>1. ChildOf(u) \in Child /\ Hit(ChildOf(u))
  BY <1>8, Children DEF Hit
<2> QED BY <1>2, <1>3, <1>8, <2>1
<1> QED BY <1>1, <1>6, <1>7, <1>8

(* The command is killed. *)
LEMMA KillParentStep ==
    ASSUME TypeOK, KillParent
    PROVE  /\ TypeOK' /\ Running /\ left.kills > 0
           /\ parent' = [parent EXCEPT !.result = "killed"]
           /\ UNCHANGED <<scenario, worker, outcome, status, evidence, populations>>
           /\ \A c \in Child :
                /\ child'[c].at = child[c].at /\ child'[c].told = child[c].told
                /\ child'[c].inbox = child[c].inbox /\ child'[c].result = child[c].result
                /\ child'[c].blind = child[c].blind
                /\ child'[c].outbox = child[c].outbox \/ child'[c].outbox = NoReport
<1> DEFINE D(c) == [child[c] EXCEPT !.connected = FALSE, !.outbox = NoReport]
<1>1. /\ Running /\ parent' = [parent EXCEPT !.result = "killed"]
      /\ UNCHANGED <<scenario, worker, outcome, status, evidence, populations>>
      /\ left' = [left EXCEPT !.kills = @ - 1] /\ left.kills > 0
      /\ child' = [c \in Child |-> IF child[c].at = "none" THEN child[c] ELSE D(c)]
  BY DEF KillParent
<1>2. ASSUME NEW c \in Child
      PROVE  /\ D(c) \in Process /\ D(c).at = child[c].at /\ D(c).told = child[c].told
             /\ D(c).inbox = child[c].inbox /\ D(c).result = child[c].result
             /\ D(c).outbox = NoReport /\ D(c).blind = child[c].blind
<2>1. NoReport \in [type : Outcome, universe : Universe \union {0}]
  BY DEF NoReport, Outcome
<2>2. child[c] \in Process
  BY DEF TypeOK
<2> QED BY <2>1, <2>2 DEF Process
<1> HIDE DEF D
<1>3. \A c \in Child : child'[c] = IF child[c].at = "none" THEN child[c] ELSE D(c)
  BY <1>1
<1>4. child' \in [Child -> Process]
  BY <1>1, <1>2 DEF TypeOK
<1>5. left' \in [kills : 0 .. scenario.kills, errors : 0 .. scenario.errors,
                 aborts : 0 .. scenario.aborts]
  BY <1>1, PoolAssumption DEF TypeOK
<1>6. TypeOK'
  BY <1>1, <1>4, <1>5 DEF TypeOK
<1> QED BY <1>1, <1>2, <1>3, <1>6

(* The command is given again. *)
LEMMA GiveAgainStep ==
    ASSUME TypeOK, GiveAgain
    PROVE  /\ TypeOK' /\ ~Running /\ parent' = NewParent(parent.run + 1)
           /\ UNCHANGED <<scenario, child, evidence, populations>>
           /\ \A w \in scenario.pool : worker'[w] = "free"
           /\ \A u \in Universe : status'[u] = "pending" /\ outcome'[u] = "none"
<1>1. /\ ~Running /\ parent' = NewParent(parent.run + 1) /\ parent.run < Commands
      /\ worker' = NewPool
      /\ status' = [u \in Universe |-> "pending"] /\ outcome' = [u \in Universe |-> "none"]
      /\ UNCHANGED <<scenario, left, child, evidence, populations>>
  BY DEF GiveAgain
<1>2. scenario.pool \subseteq Worker /\ scenario.universes \in Nat /\ Commands \in Nat
  BY PoolAssumption DEF TypeOK, Universe
<1>3. worker' \in [Worker -> {"free", "waits", "stopped"}]
      /\ \A w \in scenario.pool : worker'[w] = "free"
  BY <1>1, <1>2 DEF NewPool
<1>4. parent' \in [run : 1 .. Commands, next : 1 .. scenario.universes + 1,
                   aborted : BOOLEAN,
                   step : {"pool", "existing", "temporary", "link", "unlink"},
                   result : {"none", "published", "paused", "failed", "killed"}]
<2>1. parent.run \in 1 .. Commands
  BY DEF TypeOK
<2>2. parent.run + 1 \in 1 .. Commands /\ 1 \in 1 .. scenario.universes + 1
  BY <1>1, <1>2, <2>1
<2> QED BY <1>1, <2>2 DEF NewParent
<1>5. outcome' \in [Universe -> Outcome]
  BY <1>1 DEF Outcome
<1>6. status' \in [Universe -> Worker \union {"pending", "summary", "paused", "failed"}]
  BY <1>1
<1>7. TypeOK'
  BY <1>1, <1>3, <1>4, <1>5, <1>6 DEF TypeOK
<1> QED BY <1>1, <1>3, <1>7

(* A stale lease that is removed. *)
LEMMA RemoveStaleLeaseStep ==
    ASSUME TypeOK, NEW u \in Universe, RemoveStaleLease(u)
    PROVE  /\ TypeOK' /\ evidence[u].lease = "stale" /\ evidence'[u].lease = "free"
           /\ UNCHANGED <<scenario, parent, worker, outcome, status, child, populations>>
           /\ \A v \in Universe : v # u => evidence'[v] = evidence[v]
           /\ \A v \in Universe : /\ evidence'[v].published = evidence[v].published
                                 /\ evidence'[v].ticks = evidence[v].ticks
<1> DEFINE f == [evidence[u] EXCEPT !.lease = "free"]
<1>1. f \in [ticks : Nat, published : BOOLEAN, sound : BOOLEAN,
             lease : {"free", "held", "stale"}]
      /\ f.published = evidence[u].published /\ f.lease = "free"
      /\ f.ticks = evidence[u].ticks
  BY DEF TypeOK
<1>2. evidence[u].lease = "stale" /\ evidence' = [evidence EXCEPT ![u] = f]
      /\ UNCHANGED <<scenario, left, parent, worker, outcome, status, child, populations>>
  BY DEF RemoveStaleLease
<1> HIDE DEF f
<1> QED BY <1>1, <1>2 DEF TypeOK

(* What comes behind the pool: the verdict, and population.json. *)
WritesSummary ==
    Conclude \/ LookForExisting \/ WriteTemporary \/ WriteFails \/ LinkPopulation
        \/ UnlinkTemporary \/ RivalPublishes

Writes ==
    /\ UNCHANGED <<scenario, worker, outcome, status, child, evidence>>
    /\ Running /\ \A w \in Worker : worker[w] = "stopped"
    /\ parent'.run = parent.run /\ parent'.next = parent.next
    /\ parent'.aborted = parent.aborted /\ parent'.result # "killed"
    /\ parent'.result = "failed" => left.errors > 0 \/ Verdict = "failed"
    /\ parent.step # "pool" \/ Verdict = "published"
         \/ (parent'.step = "pool" /\ UNCHANGED populations)

(* What writes population.json keeps the pool. *)
LEMMA WritesStep ==
    ASSUME TypeOK, Stopped, Tidy, WritesSummary
    PROVE  TypeOK' /\ Writes /\ Tidy'
<1>1. UNCHANGED <<scenario, worker, outcome, status, child, evidence>> /\ Running
  BY DEF WritesSummary, Conclude, LookForExisting, WriteTemporary, WriteFails,
         LinkPopulation, UnlinkTemporary, RivalPublishes, Writing
<1>2. \A w \in Worker : worker[w] = "stopped"
<2>1. CASE Conclude
  BY <2>1 DEF Conclude
<2>2. CASE ~Conclude
  BY <1>1, <2>2 DEF WritesSummary, LookForExisting, WriteTemporary, WriteFails,
         LinkPopulation, UnlinkTemporary, RivalPublishes, Writing, Stopped
<2> QED BY <2>1, <2>2
<1> DEFINE P == [run : 1 .. Commands, next : 1 .. scenario.universes + 1,
                 aborted : BOOLEAN,
                 step : {"pool", "existing", "temporary", "link", "unlink"},
                 result : {"none", "published", "paused", "failed", "killed"}]
           Q == [written : BOOLEAN, temporary : SUBSET (1 .. Commands)]
           L == [kills : 0 .. scenario.kills, errors : 0 .. scenario.errors,
                 aborts : 0 .. scenario.aborts]
           Same == /\ parent'.run = parent.run /\ parent'.next = parent.next
                   /\ parent'.aborted = parent.aborted /\ parent'.result # "killed"
                   /\ parent'.result = "failed" => left.errors > 0 \/ Verdict = "failed"
                   /\ parent.step # "pool" \/ Verdict = "published"
                        \/ (parent'.step = "pool" /\ UNCHANGED populations)
                   /\ parent' \in P /\ populations' \in Q /\ left' \in L
<1>3. parent \in P /\ populations \in Q /\ left \in L
  BY DEF TypeOK
<1>4. Verdict \in {"published", "paused", "failed"}
  BY DEF Verdict
<1>5. parent.run \in 1 .. Commands /\ parent.result = "none"
      /\ populations.temporary \subseteq 1 .. parent.run
  BY <1>1, <1>3 DEF Running, Tidy
<1> HIDE DEF P, Q, L
<1>6. CASE Conclude
<2>1. /\ UNCHANGED <<left, populations>> /\ parent.step = "pool"
      /\ parent' = IF Verdict = "published" THEN [parent EXCEPT !.step = "existing"]
                   ELSE [parent EXCEPT !.result = Verdict]
  BY <1>6 DEF Conclude
<2>2. CASE Verdict = "published"
<3>1. parent' = [parent EXCEPT !.step = "existing"]
  BY <2>1, <2>2
<3>2. Same
  BY <1>3, <1>5, <2>1, <2>2, <3>1 DEF P
<3>3. Tidy'
  BY <1>3, <1>5, <2>1, <3>1 DEF Tidy, Running, P
<3> QED BY <1>1, <1>2, <3>2, <3>3 DEF TypeOK, Writes, P, Q, L
<2>3. CASE Verdict # "published"
<3>1. parent' = [parent EXCEPT !.result = Verdict]
  BY <2>1, <2>3
<3>2. Same
  BY <1>3, <1>4, <1>5, <2>1, <2>3, <3>1 DEF P
<3>3. Tidy'
  BY <1>3, <1>4, <1>5, <2>1, <2>3, <3>1 DEF Tidy, Running, P
<3> QED BY <1>1, <1>2, <3>2, <3>3 DEF TypeOK, Writes, P, Q, L
<2> QED BY <2>2, <2>3
<1>7. CASE LookForExisting
<2>1. /\ UNCHANGED <<left, populations>> /\ parent.step = "existing"
      /\ parent' = IF populations.written THEN [parent EXCEPT !.result = "published"]
                   ELSE [parent EXCEPT !.step = "temporary"]
  BY <1>7 DEF LookForExisting, Writing
<2>2. Same
  BY <1>3, <1>5, <2>1 DEF P
<2>3. Tidy'
  BY <1>3, <1>5, <2>1 DEF Tidy, Running, P, Q
<2> QED BY <1>1, <1>2, <2>2, <2>3 DEF TypeOK, Writes, P, Q, L
<1>8. CASE WriteTemporary
<2>1. /\ UNCHANGED left /\ parent.step = "temporary"
      /\ parent' = [parent EXCEPT !.step = "link"]
      /\ populations' = [populations EXCEPT !.temporary = @ \union {parent.run}]
  BY <1>8 DEF WriteTemporary, Writing
<2>2. populations' \in Q /\ populations'.written = populations.written
      /\ populations'.temporary = populations.temporary \union {parent.run}
  BY <1>3, <1>5, <2>1 DEF Q
<2>3. Same
<3>1. /\ parent'.run = parent.run /\ parent'.next = parent.next
      /\ parent'.aborted = parent.aborted /\ parent'.result # "killed"
      /\ parent' \in P
  BY <1>3, <1>5, <2>1 DEF P
<3>2. parent'.result = "failed" => left.errors > 0
  BY <1>3, <1>5, <2>1 DEF P
<3> QED BY <1>3, <2>1, <2>2, <3>1, <3>2
<2>4. Tidy'
<3>1. parent'.run = parent.run /\ parent'.step = "link" /\ parent'.result = "none"
  BY <1>3, <1>5, <2>1 DEF P
<3>2. populations'.temporary \subseteq 1 .. parent.run
  BY <1>5, <2>2
<3> QED BY <2>2, <3>1, <3>2 DEF Tidy, Running
<2> QED BY <1>1, <1>2, <2>3, <2>4 DEF TypeOK, Writes, P, Q, L
<1>9. CASE WriteFails
<2>1. /\ parent.step \in {"temporary", "link"} /\ left.errors > 0
      /\ left' = [left EXCEPT !.errors = @ - 1]
      /\ parent' = [parent EXCEPT !.result = "failed"]
      /\ populations' = [populations EXCEPT !.temporary = @ \ {parent.run}]
  BY <1>9 DEF WriteFails
<2>2. populations' \in Q /\ populations'.written = populations.written
      /\ populations'.temporary = populations.temporary \ {parent.run}
  BY <1>3, <2>1 DEF Q
<2>3. left' \in L
  BY <1>3, <2>1, PoolAssumption DEF TypeOK, L
<2>4. Same
<3>1. /\ parent'.run = parent.run /\ parent'.next = parent.next
      /\ parent'.aborted = parent.aborted /\ parent'.result # "killed"
      /\ parent' \in P
  BY <1>3, <1>5, <2>1 DEF P
<3>2. parent'.result = "failed" => left.errors > 0
  BY <1>3, <1>5, <2>1 DEF P
<3> QED BY <1>3, <2>1, <2>2, <2>3, <3>1, <3>2
<2>5. Tidy'
<3>1. parent'.run = parent.run /\ parent'.step = parent.step /\ parent'.result = "failed"
  BY <1>3, <2>1 DEF P
<3> QED BY <1>5, <2>1, <2>2, <3>1 DEF Tidy, Running
<2> QED BY <1>1, <1>2, <2>4, <2>5 DEF TypeOK, Writes, P, Q, L
<1>10. CASE LinkPopulation
<2>1. /\ UNCHANGED left /\ parent.step = "link"
      /\ parent' = [parent EXCEPT !.step = "unlink"]
      /\ populations' = [populations EXCEPT !.written = TRUE]
  BY <1>10 DEF LinkPopulation, Writing
<2>2. populations' \in Q /\ populations'.written
      /\ populations'.temporary = populations.temporary
  BY <1>3, <2>1 DEF Q
<2>3. Same
<3>1. /\ parent'.run = parent.run /\ parent'.next = parent.next
      /\ parent'.aborted = parent.aborted /\ parent'.result # "killed"
      /\ parent' \in P
  BY <1>3, <1>5, <2>1 DEF P
<3>2. parent'.result = "failed" => left.errors > 0
  BY <1>3, <1>5, <2>1 DEF P
<3> QED BY <1>3, <2>1, <2>2, <3>1, <3>2
<2>4. Tidy'
<3>1. parent'.run = parent.run /\ parent'.step = "unlink" /\ parent'.result = "none"
  BY <1>3, <1>5, <2>1 DEF P
<3> QED BY <1>5, <2>2, <3>1 DEF Tidy, Running
<2> QED BY <1>1, <1>2, <2>3, <2>4 DEF TypeOK, Writes, P, Q, L
<1>11. CASE UnlinkTemporary
<2>1. /\ UNCHANGED left /\ parent.step = "unlink"
      /\ parent' = [parent EXCEPT !.result = "published"]
      /\ populations' = [populations EXCEPT !.temporary = @ \ {parent.run}]
  BY <1>11 DEF UnlinkTemporary, Writing
<2>2. populations' \in Q /\ populations'.written = populations.written
      /\ populations'.temporary = populations.temporary \ {parent.run}
  BY <1>3, <2>1 DEF Q
<2>3. Same
<3>1. /\ parent'.run = parent.run /\ parent'.next = parent.next
      /\ parent'.aborted = parent.aborted /\ parent'.result # "killed"
      /\ parent' \in P
  BY <1>3, <1>5, <2>1 DEF P
<3>2. parent'.result = "failed" => left.errors > 0
  BY <1>3, <1>5, <2>1 DEF P
<3> QED BY <1>3, <2>1, <2>2, <3>1, <3>2
<2>4. Tidy'
<3>1. parent'.run = parent.run /\ parent'.step = parent.step /\ parent'.result = "published"
  BY <1>3, <2>1 DEF P
<3>2. populations.written
  BY <2>1 DEF Tidy
<3> QED BY <1>5, <2>1, <2>2, <3>1, <3>2 DEF Tidy, Running
<2> QED BY <1>1, <1>2, <2>3, <2>4 DEF TypeOK, Writes, P, Q, L
<1>12. CASE RivalPublishes
<2>1. /\ UNCHANGED <<left, parent>> /\ parent.step # "pool"
      /\ populations' = [populations EXCEPT !.written = TRUE]
  BY <1>12 DEF RivalPublishes
<2>2. populations' \in Q /\ populations'.written
      /\ populations'.temporary = populations.temporary
  BY <1>3, <2>1 DEF Q
<2>3. Same
<3>1. /\ parent'.run = parent.run /\ parent'.next = parent.next
      /\ parent'.aborted = parent.aborted /\ parent'.result # "killed"
      /\ parent' \in P
  BY <1>3, <1>5, <2>1 DEF P
<3>2. parent'.result = "failed" => left.errors > 0
  BY <1>3, <1>5, <2>1 DEF P
<3> QED BY <1>3, <2>1, <2>2, <3>1, <3>2
<2>4. Tidy'
  BY <2>1, <2>2 DEF Tidy, Running
<2> QED BY <1>1, <1>2, <2>3, <2>4 DEF TypeOK, Writes, P, Q, L
<1> QED BY <1>6, <1>7, <1>8, <1>9, <1>10, <1>11, <1>12 DEF WritesSummary

-----------------------------------------------------------------------------
(* The parts of the invariant that a step of one process leaves alone. *)
Gone(c) == child[c].at \in {"none", "reaped"}

Still ==
    /\ UNCHANGED <<scenario, parent, worker, status, populations>>
    /\ \A c \in Child : /\ Gone(c)' <=> Gone(c)
                        /\ child'[c].at = "none" <=> child[c].at = "none"

(* What leaves pool and command still keeps what is said of them. *)
LEMMA StillKeeps ==
    ASSUME TypeOK, Still, Waiting, Accounted, ToCome, Stopped, Tidy
    PROVE  Waiting' /\ Accounted' /\ ToCome' /\ Stopped' /\ Tidy'
<1>1. UNCHANGED <<scenario, parent, worker, status, populations>>
  BY DEF Still
<1>2. Waiting'
  BY <1>1 DEF Waiting
<1>3. Accounted'
<2>1. \A u \in Universe : (Awaited(u)' <=> Awaited(u)) /\ ChildOf(u)' = ChildOf(u)
  BY <1>1 DEF Awaited, Running, ChildOf
<2>2. \A u \in Universe : Gone(ChildOf(u))' <=> Gone(ChildOf(u))
<3>1. ASSUME NEW u \in Universe
      PROVE  Gone(ChildOf(u))' <=> Gone(ChildOf(u))
<4> DEFINE c == ChildOf(u)
<4>1. c \in Child /\ c' = c
  BY <2>1, Children
<4> HIDE DEF c
<4>2. Gone(c)' <=> Gone(c)
  BY <4>1 DEF Still, Gone
<4> QED BY <4>2 DEF c
<3> QED BY <3>1
<2> QED BY <1>1, <2>1, <2>2 DEF Accounted, Gone
<1>4. ToCome'
<2>1. \A u \in Universe : ChildOf(u) \in Child /\ ChildOf(u)' = ChildOf(u)
  BY <1>1, Children DEF ChildOf
<2> QED BY <1>1, <2>1 DEF ToCome, Still
<1>5. Stopped'
  BY <1>1 DEF Stopped, Running
<1>6. Tidy'
  BY <1>1 DEF Tidy, Running
<1> QED BY <1>2, <1>3, <1>4, <1>5, <1>6

(* A process that goes on leaves them still, *)
LEMMA ProceedsStill ==
    ASSUME NEW c \in Child, Proceeds(c)
    PROVE  Still
BY DEF Proceeds, Still, Gone, AtWork

(* and so does a message or a signal. *)
LEMMA TellsStill ==
    ASSUME TypeOK, NEW u \in Universe, Tells(u)
    PROVE  Still
BY Children DEF Tells, Still, Gone

(* A universe that ends. *)
LEMMA EndsKeeps ==
    ASSUME TypeOK, NEW u \in Universe, NEW result \in {"summary", "paused", "failed"},
           Ends(u, result), Waiting, Accounted, ToCome, Stopped, Tidy
    PROVE  Waiting' /\ Accounted' /\ ToCome' /\ Stopped' /\ Tidy'
<1>1. /\ UNCHANGED <<scenario, parent, outcome, evidence, populations>>
      /\ Awaited(u)
      /\ child'[ChildOf(u)] = Reaped
      /\ \A b \in Child : b # ChildOf(u) => child'[b] = child[b]
      /\ status'[u] = result
      /\ \A v \in Universe : v # u => status'[v] = status[v]
      /\ worker'[status[u]] = IF result = "paused" THEN "stopped" ELSE "free"
      /\ \A w \in Worker : w # status[u] => worker'[w] = worker[w]
  BY DEF Ends
<1>2. result \notin Worker /\ result # "pending"
  BY PoolAssumption DEF Outcome
<1>3. /\ \A v \in Universe : ChildOf(v) \in Child /\ ChildOf(v)' = ChildOf(v)
      /\ \A v \in Universe : v # u => ChildOf(v) # ChildOf(u)
  BY <1>1, Children DEF ChildOf
<1>4. status[u] \in Worker /\ Running /\ worker[status[u]] = "waits"
  BY <1>1 DEF Awaited, Waiting
<1>5. Waiting'
  BY <1>1, <1>2, <1>4 DEF Waiting
<1>6. Accounted'
<2>1. \A v \in Universe : v # u => (Awaited(v)' <=> Awaited(v))
  BY <1>1 DEF Awaited, Running
<2>2. ~Awaited(u)'
  BY <1>1, <1>2 DEF Awaited
<2>3. child'[ChildOf(u)'].at \in {"none", "reaped"}
  BY <1>1, <1>3, ReapedType
<2>4. \A v \in Universe : v # u => child'[ChildOf(v)'].at = child[ChildOf(v)].at
  BY <1>1, <1>3
<2> QED BY <1>1, <2>1, <2>2, <2>3, <2>4 DEF Accounted
<1>7. ToCome'
<2>1. ~(u >= parent.next)
  BY <1>4, PoolAssumption DEF ToCome, Outcome
<2>2. \A c \in Child : c[1] > parent.run => c # ChildOf(u)
  BY Children
<2>3. \A c \in Child : c[1] > parent'.run => child'[c].at = "none"
  BY <1>1, <2>2 DEF ToCome
<2>4. \A v \in Universe : v >= parent'.next =>
         status'[v] = "pending" /\ child'[ChildOf(v)'].at = "none"
  BY <1>1, <1>3, <2>1 DEF ToCome
<2>5. \A v \in Universe : v < parent'.next => status'[v] # "pending"
  BY <1>1, <1>2 DEF ToCome
<2> QED BY <2>3, <2>4, <2>5 DEF ToCome
<1>8. Stopped'
<2>1. parent.step = "pool"
  BY <1>4 DEF Stopped
<2>2. scenario.pool \subseteq Worker
  BY PoolAssumption DEF TypeOK
<2>3. ASSUME NEW w \in scenario.pool, worker'[w] = "stopped"
      PROVE  \/ parent.aborted
             \/ parent.next > scenario.universes
             \/ \E v \in Universe : status'[v] = "paused"
<3>1. CASE w = status[u]
<4>1. result = "paused"
  BY <1>1, <2>3, <3>1
<4> QED BY <1>1, <4>1
<3>2. CASE w # status[u]
<4>1. worker[w] = "stopped"
  BY <1>1, <2>2, <2>3, <3>2
<4>2. CASE \E v \in Universe : status[v] = "paused"
  BY <1>1, <1>4, <4>2, PoolAssumption DEF Outcome
<4> QED BY <4>1, <4>2 DEF Stopped
<3> QED BY <3>1, <3>2
<2> QED BY <1>1, <2>1, <2>3 DEF Stopped
<1>9. Tidy'
  BY <1>1 DEF Tidy, Running
<1> QED BY <1>5, <1>6, <1>7, <1>8, <1>9

(* A universe that is claimed. *)
LEMMA ClaimKeeps ==
    ASSUME TypeOK, NEW w \in Worker, Claim(w), Waiting, Accounted, ToCome, Stopped, Tidy
    PROVE  Waiting' /\ Accounted' /\ ToCome' /\ Stopped' /\ Tidy'
<1>1. /\ TypeOK' /\ Running /\ worker[w] = "free"
      /\ UNCHANGED <<scenario, outcome, evidence, populations>>
      /\ \A v \in Worker : v # w => worker'[v] = worker[v]
  BY ClaimStep
<1>2. parent.step = "pool"
  BY <1>1 DEF Stopped
<1>3. \A u \in Universe : status[u] \in Worker => status[u] # w
  BY <1>1 DEF Waiting
<1>4. scenario.pool \subseteq Worker
  BY PoolAssumption DEF TypeOK
<1>5. CASE /\ parent.aborted \/ parent.next > scenario.universes
           /\ worker'[w] = "stopped" /\ UNCHANGED <<parent, status, child>>
<2>1. Waiting'
  BY <1>1, <1>3, <1>5 DEF Waiting
<2>2. Accounted'
  BY <1>1, <1>5 DEF Accounted, Awaited, Running, ChildOf
<2>3. ToCome'
  BY <1>1, <1>5 DEF ToCome, ChildOf
<2>4. Stopped'
  BY <1>1, <1>2, <1>4, <1>5 DEF Stopped
<2>5. Tidy'
  BY <1>1, <1>5 DEF Tidy, Running
<2> QED BY <2>1, <2>2, <2>3, <2>4, <2>5
<1>6. CASE /\ ~parent.aborted /\ parent.next \in Universe
           /\ parent' = [parent EXCEPT !.next = @ + 1]
           /\ worker'[w] = "waits" /\ status'[parent.next] = w
           /\ \A u \in Universe : u # parent.next => status'[u] = status[u]
           /\ child'[ChildOf(parent.next)] =
                  [NoChild EXCEPT !.at = "forked", !.connected = TRUE]
           /\ \A c \in Child : c # ChildOf(parent.next) => child'[c] = child[c]
<2>0. PICK u \in Universe : u = parent.next
  BY <1>6
<2>1. /\ parent'.run = parent.run /\ parent'.next = u + 1
      /\ parent'.aborted = parent.aborted /\ parent'.step = parent.step
      /\ parent'.result = parent.result /\ u \in Nat
  BY <1>6, <2>0 DEF TypeOK
<2>2. /\ \A v \in Universe : ChildOf(v) \in Child /\ ChildOf(v)' = ChildOf(v)
      /\ \A v \in Universe : v # u => ChildOf(v) # ChildOf(u)
  BY <2>0, <2>1, Children DEF ChildOf
<2>3. child'[ChildOf(u)].at = "forked"
  BY <1>6, <2>0, NoChildType DEF Process
<2>4. Waiting'
  BY <1>1, <1>3, <1>6, <2>0 DEF Waiting
<2>5. Accounted'
<3>1. \A v \in Universe : v # u => (Awaited(v)' <=> Awaited(v))
  BY <1>6, <2>0, <2>1 DEF Awaited, Running
<3>2. Awaited(u)' /\ child'[ChildOf(u)'].at \notin {"none", "reaped"}
<4>1. status'[u] \in Worker /\ parent'.result = "none"
  BY <1>1, <1>6, <2>0, <2>1 DEF Running
<4>2. child'[ChildOf(u)'].at = "forked"
  BY <1>6, <2>0, <2>2, <2>3
<4> QED BY <4>1, <4>2 DEF Awaited, Running
<3>3. \A v \in Universe : v # u => child'[ChildOf(v)'].at = child[ChildOf(v)].at
  BY <1>6, <2>0, <2>2
<3>4. parent.result # "killed"
  BY <1>1 DEF Running
<3>5. \A v \in Universe : Awaited(v)' <=> child'[ChildOf(v)'].at \notin {"none", "reaped"}
<4>1. ASSUME NEW v \in Universe, v # u
      PROVE  Awaited(v)' <=> child'[ChildOf(v)'].at \notin {"none", "reaped"}
  BY <3>1, <3>3, <3>4, <4>1 DEF Accounted
<4> QED BY <3>2, <4>1
<3> QED BY <3>5 DEF Accounted
<2>6. ToCome'
<3>1. \A c \in Child : c[1] > parent.run => c # ChildOf(u)
  BY <1>6, <2>0, Children
<3>2. \A c \in Child : c[1] > parent'.run => child'[c].at = "none"
  BY <1>6, <2>0, <2>1, <3>1 DEF ToCome
<3>3. \A v \in Universe : v >= u + 1 => v >= u /\ v # u
  BY <2>1 DEF Universe
<3>4. \A v \in Universe : v >= parent'.next =>
         status'[v] = "pending" /\ child'[ChildOf(v)'].at = "none"
  BY <1>6, <2>0, <2>1, <2>2, <3>3 DEF ToCome
<3>5. w # "pending"
  BY PoolAssumption DEF Outcome
<3>6. \A v \in Universe : v < u + 1 => v < u \/ v = u
  BY <2>1 DEF Universe
<3>7. \A v \in Universe : v < parent'.next => status'[v] # "pending"
  BY <1>6, <2>0, <2>1, <3>5, <3>6 DEF ToCome
<3> QED BY <3>2, <3>4, <3>7 DEF ToCome
<2>7. Stopped'
<3>1. \A v \in scenario.pool : worker'[v] = "stopped" => worker[v] = "stopped"
  BY <1>1, <1>4, <1>6, <2>0
<3>2. (\E v \in Universe : status[v] = "paused") => \E v \in Universe : status'[v] = "paused"
<4>1. status[u] = "pending"
  BY <1>6, <2>0, <2>1 DEF ToCome
<4> QED BY <1>6, <2>0, <4>1
<3>3. parent.next > scenario.universes => parent'.next > scenario.universes
<4>1. scenario.universes \in Nat
  BY PoolAssumption DEF TypeOK, Universe
<4> QED BY <2>0, <2>1, <4>1
<3> QED BY <1>1, <1>2, <2>1, <3>1, <3>2, <3>3 DEF Stopped
<2>8. Tidy'
  BY <1>1, <2>1 DEF Tidy, Running
<2> QED BY <2>4, <2>5, <2>6, <2>7, <2>8
<1> QED BY <1>5, <1>6, ClaimStep

(* An abort, *)
LEMMA AbortKeeps ==
    ASSUME TypeOK, Abort, Waiting, Accounted, ToCome, Stopped, Tidy
    PROVE  Waiting' /\ Accounted' /\ ToCome' /\ Stopped' /\ Tidy'
<1>1. /\ UNCHANGED <<scenario, worker, outcome, status, evidence, populations>>
      /\ \A c \in Child : child'[c].at = child[c].at
  BY AbortStep
<1>2. /\ parent'.run = parent.run /\ parent'.next = parent.next
      /\ parent'.aborted /\ parent'.step = parent.step /\ parent'.result = parent.result
  BY AbortStep DEF TypeOK
<1>3. \A v \in Universe : ChildOf(v) \in Child /\ ChildOf(v)' = ChildOf(v)
  BY <1>2, Children DEF ChildOf
<1>4. Waiting'
  BY <1>1 DEF Waiting
<1>5. Accounted'
<2>1. \A v \in Universe : Awaited(v)' <=> Awaited(v)
  BY <1>1, <1>2 DEF Awaited, Running
<2> QED BY <1>1, <1>2, <1>3, <2>1 DEF Accounted
<1>6. ToCome'
  BY <1>1, <1>2, <1>3 DEF ToCome
<1>7. Stopped'
  BY <1>1, <1>2 DEF Stopped, Running
<1>8. Tidy'
  BY <1>1, <1>2 DEF Tidy, Running
<1> QED BY <1>4, <1>5, <1>6, <1>7, <1>8

(* and the end of a command that is killed. *)
LEMMA KillParentKeeps ==
    ASSUME TypeOK, KillParent, Waiting, Accounted, ToCome, Stopped, Tidy
    PROVE  Waiting' /\ Accounted' /\ ToCome' /\ Stopped' /\ Tidy'
<1>1. /\ UNCHANGED <<scenario, worker, outcome, status, evidence, populations>>
      /\ \A c \in Child : child'[c].at = child[c].at
  BY KillParentStep
<1>2. /\ parent'.run = parent.run /\ parent'.next = parent.next
      /\ parent'.aborted = parent.aborted /\ parent'.step = parent.step
      /\ parent'.result = "killed"
  BY KillParentStep DEF TypeOK
<1>3. \A v \in Universe : ChildOf(v) \in Child /\ ChildOf(v)' = ChildOf(v)
  BY <1>2, Children DEF ChildOf
<1>4. Waiting'
  BY <1>1 DEF Waiting
<1>5. Accounted'
  BY <1>2 DEF Accounted
<1>6. ToCome'
  BY <1>1, <1>2, <1>3 DEF ToCome
<1>7. Stopped'
  BY <1>1, <1>2 DEF Stopped, Running
<1>8. Tidy'
  BY <1>1, <1>2 DEF Tidy, Running
<1> QED BY <1>4, <1>5, <1>6, <1>7, <1>8

(* A new command starts with a new pool. *)
LEMMA GiveAgainKeeps ==
    ASSUME TypeOK, GiveAgain, Waiting, Accounted, ToCome, Stopped, Tidy
    PROVE  Waiting' /\ Accounted' /\ ToCome' /\ Stopped' /\ Tidy'
<1>1. /\ TypeOK' /\ ~Running /\ parent' = NewParent(parent.run + 1)
      /\ UNCHANGED <<scenario, child, evidence, populations>>
      /\ \A w \in scenario.pool : worker'[w] = "free"
      /\ \A u \in Universe : status'[u] = "pending" /\ outcome'[u] = "none"
  BY GiveAgainStep
<1>2. /\ parent'.run = parent.run + 1 /\ parent'.next = 1
      /\ parent'.aborted = FALSE /\ parent'.step = "pool" /\ parent'.result = "none"
      /\ parent.run \in Nat
  BY <1>1, Children DEF NewParent
<1>3. "pending" \notin Worker
  BY PoolAssumption DEF Outcome
<1>4. \A u \in Universe : ChildOf(u)' \in Child /\ ChildOf(u)'[1] > parent.run
<2>1. parent'.run \in 1 .. Commands /\ parent'.run > parent.run
  BY <1>1, <1>2 DEF TypeOK
<2> QED BY <2>1 DEF ChildOf, Child
<1>5. \A u \in Universe : child'[ChildOf(u)'].at = "none"
  BY <1>1, <1>4 DEF ToCome
<1>6. Waiting'
  BY <1>1, <1>3 DEF Waiting
<1>7. Accounted'
  BY <1>1, <1>3, <1>5 DEF Accounted, Awaited
<1>8. ToCome'
<2>1. \A c \in Child : c[1] > parent'.run => c[1] > parent.run
  BY <1>2, Children
<2>2. \A u \in Universe : ~(u < 1)
  BY DEF Universe
<2> QED BY <1>1, <1>2, <1>5, <2>1, <2>2 DEF ToCome
<1>9. Stopped'
  BY <1>1, <1>2 DEF Stopped
<1>10. Tidy'
<2>1. populations.temporary \subseteq 1 .. parent.run
  BY DEF Tidy
<2>2. parent.run + 1 \notin 1 .. parent.run /\ 1 .. parent.run \subseteq 1 .. parent.run + 1
  BY <1>2
<2> QED BY <1>1, <1>2, <2>1, <2>2 DEF Tidy
<1> QED BY <1>6, <1>7, <1>8, <1>9, <1>10

(* The pool has stopped when the summary is written. *)
LEMMA WritesKeeps ==
    ASSUME TypeOK, Writes, Waiting, Accounted, ToCome, Stopped
    PROVE  Waiting' /\ Accounted' /\ ToCome' /\ Stopped'
<1>1. /\ UNCHANGED <<scenario, worker, outcome, status, child, evidence>>
      /\ Running /\ \A w \in Worker : worker[w] = "stopped"
      /\ parent'.run = parent.run /\ parent'.next = parent.next
      /\ parent'.aborted = parent.aborted
  BY DEF Writes
<1>2. \A u \in Universe : ~Awaited(u) /\ ~Awaited(u)'
  BY <1>1 DEF Awaited, Waiting
<1>3. \A u \in Universe : ChildOf(u)' = ChildOf(u)
  BY <1>1 DEF ChildOf
<1>4. Waiting'
  BY <1>1 DEF Waiting
<1>5. Accounted'
  BY <1>1, <1>2, <1>3 DEF Accounted, Running
<1>6. ToCome'
  BY <1>1, <1>3 DEF ToCome
<1>7. Stopped'
  BY <1>1 DEF Stopped
<1> QED BY <1>4, <1>5, <1>6, <1>7

-----------------------------------------------------------------------------
(* What says that a universe is published stays true. *)
LEMMA ProceedsTruthful ==
    ASSUME TypeOK, NEW c \in Child, Proceeds(c), Truthful,
           child'[c].result = "summary" => evidence'[c[2]].published,
           child'[c].outbox.type = "summary" => evidence'[c[2]].published
    PROVE  Truthful'
<1>1. /\ UNCHANGED <<scenario, parent, worker, outcome, status, populations>>
      /\ \A b \in Child : b # c => child'[b] = child[b]
      /\ \A u \in Universe : evidence[u].published => evidence'[u].published
  BY DEF Proceeds
<1>2. \A b \in Child : b[2] \in Universe
  BY Children
<1>3. 1 .. scenario.universes \subseteq Universe
  BY PoolAssumption DEF TypeOK, Universe
<1>4. ASSUME NEW b \in Child
      PROVE  /\ child'[b].result = "summary" => evidence'[b[2]].published
             /\ child'[b].outbox.type = "summary" => evidence'[b[2]].published
<2>1. CASE b = c
  BY <2>1
<2>2. CASE b # c
  BY <1>1, <1>2, <2>2 DEF Truthful
<2> QED BY <2>1, <2>2
<1> QED BY <1>1, <1>3, <1>4 DEF Truthful

(* What is true of the others stays true. *)
LEMMA OthersTruthful ==
    ASSUME TypeOK, UNCHANGED <<scenario, evidence>>, Truthful,
           \A c \in Child :
             /\ child'[c].result = "summary" => child[c].result = "summary"
             /\ child'[c].outbox.type = "summary" => child[c].outbox.type = "summary",
           \A u \in Universe :
             /\ outcome'[u] = "summary" => evidence[u].published
             /\ status'[u] = "summary" => evidence[u].published,
           parent'.step # "pool" \/ populations'.written =>
             parent.step # "pool" \/ populations.written
    PROVE  Truthful'
BY DEF Truthful

(* A universe ends as published when its process has said so. *)
LEMMA EndsTruthful ==
    ASSUME TypeOK, NEW u \in Universe, NEW result \in {"summary", "paused", "failed"},
           Ends(u, result), Truthful, result = "summary" => outcome[u] = "summary"
    PROVE  Truthful'
<1>1. /\ UNCHANGED <<scenario, parent, outcome, evidence, populations>>
      /\ child'[ChildOf(u)] = Reaped
      /\ \A b \in Child : b # ChildOf(u) => child'[b] = child[b]
      /\ status'[u] = result
      /\ \A v \in Universe : v # u => status'[v] = status[v]
  BY DEF Ends
<1>2. Reaped.result # "summary" /\ Reaped.outbox.type # "summary"
  BY ReapedType, NoChildType
<1>3. \A c \in Child :
        /\ child'[c].result = "summary" => child[c].result = "summary"
        /\ child'[c].outbox.type = "summary" => child[c].outbox.type = "summary"
  BY <1>1, <1>2
<1>4. \A v \in Universe :
        /\ outcome'[v] = "summary" => evidence[v].published
        /\ status'[v] = "summary" => evidence[v].published
  BY <1>1 DEF Truthful
<1> QED BY <1>1, <1>3, <1>4, OthersTruthful

(* A message makes nothing untrue, *)
LEMMA TellsTruthful ==
    ASSUME TypeOK, NEW u \in Universe, Spawned(u) \/ Sent(u) \/ Message(u), Truthful
    PROVE  Truthful'
<1>1. CASE Spawned(u) \/ Sent(u)
<2>1. Tells(u) /\ UNCHANGED outcome /\ child'[ChildOf(u)].outbox = child[ChildOf(u)].outbox
  BY <1>1, SpawnedStep, SentStep
<2>2. \A c \in Child :
        /\ child'[c].result = "summary" => child[c].result = "summary"
        /\ child'[c].outbox.type = "summary" => child[c].outbox.type = "summary"
  BY <2>1 DEF Tells
<2> QED BY <2>1, <2>2, OthersTruthful DEF Tells, Truthful
<1>2. CASE Message(u)
<2>1. /\ Tells(u)
      /\ child'[ChildOf(u)].outbox = NoReport
      /\ \A v \in Universe : v # u => outcome'[v] = outcome[v]
      /\ outcome'[u] = "summary" => child[ChildOf(u)].outbox.type = "summary"
  BY <1>2, MessageStep
<2>2. \A c \in Child :
        /\ child'[c].result = "summary" => child[c].result = "summary"
        /\ child'[c].outbox.type = "summary" => child[c].outbox.type = "summary"
  BY <2>1, NoChildType DEF Tells
<2>3. child[ChildOf(u)].outbox.type = "summary" => evidence[u].published
  BY Children DEF Truthful
<2> QED BY <2>1, <2>2, <2>3, OthersTruthful DEF Tells, Truthful
<1> QED BY <1>1, <1>2

(* nor does a claim, *)
LEMMA ClaimTruthful ==
    ASSUME TypeOK, NEW w \in Worker, Claim(w), Truthful
    PROVE  Truthful'
<1>1. UNCHANGED <<scenario, outcome, evidence, populations>>
  BY ClaimStep
<1>2. CASE UNCHANGED <<parent, status, child>>
  BY <1>1, <1>2 DEF Truthful
<1>3. CASE /\ parent' = [parent EXCEPT !.next = @ + 1]
           /\ parent.next \in Universe /\ status'[parent.next] = w
           /\ \A u \in Universe : u # parent.next => status'[u] = status[u]
           /\ child'[ChildOf(parent.next)] =
                  [NoChild EXCEPT !.at = "forked", !.connected = TRUE]
           /\ \A c \in Child : c # ChildOf(parent.next) => child'[c] = child[c]
<2>1. w # "summary"
  BY PoolAssumption DEF Outcome
<2>2. parent'.step = parent.step
  BY <1>3 DEF TypeOK
<2>3. child'[ChildOf(parent.next)].result = "none"
      /\ child'[ChildOf(parent.next)].outbox.type = "none"
  BY <1>3, NoChildType DEF Process
<2>4. \A c \in Child :
        /\ child'[c].result = "summary" => child[c].result = "summary"
        /\ child'[c].outbox.type = "summary" => child[c].outbox.type = "summary"
  BY <1>3, <2>3
<2>5. \A v \in Universe :
        /\ outcome'[v] = "summary" => evidence[v].published
        /\ status'[v] = "summary" => evidence[v].published
  BY <1>1, <1>3, <2>1 DEF Truthful
<2> QED BY <1>1, <2>2, <2>4, <2>5, OthersTruthful
<1> QED BY <1>2, <1>3, ClaimStep

(* nor another step of the command, *)
LEMMA CommandTruthful ==
    ASSUME TypeOK, Abort \/ KillParent \/ GiveAgain, Truthful
    PROVE  Truthful'
<1>1. UNCHANGED <<scenario, evidence, populations>>
  BY AbortStep, KillParentStep, GiveAgainStep
<1>2. parent'.step = parent.step \/ parent'.step = "pool"
<2>1. CASE Abort \/ KillParent
  BY <2>1, AbortStep, KillParentStep DEF TypeOK
<2>2. CASE GiveAgain
  BY <2>2, GiveAgainStep DEF NewParent
<2> QED BY <2>1, <2>2
<1>3. \A c \in Child :
        /\ child'[c].result = "summary" => child[c].result = "summary"
        /\ child'[c].outbox.type = "summary" => child[c].outbox.type = "summary"
  BY AbortStep, KillParentStep, GiveAgainStep, NoChildType
<1>4. \A v \in Universe :
        /\ outcome'[v] = "summary" => evidence[v].published
        /\ status'[v] = "summary" => evidence[v].published
  BY AbortStep, KillParentStep, GiveAgainStep DEF Truthful
<1> QED BY <1>1, <1>2, <1>3, <1>4, OthersTruthful

(* A verdict of `published` is one on universes that all are. *)
LEMMA VerdictIsTrue ==
    ASSUME TypeOK, Waiting, ToCome, Stopped, Truthful, Running,
           \A w \in Worker : worker[w] = "stopped", Verdict = "published"
    PROVE  \A u \in 1 .. scenario.universes : evidence[u].published
<1>1. ~parent.aborted /\ \A u \in Universe : status[u] # "paused" /\ status[u] # "failed"
  BY DEF Verdict
<1>2. /\ scenario.pool \subseteq Worker /\ Cardinality(scenario.pool) >= 1
      /\ scenario.universes \in Nat /\ 1 .. scenario.universes \subseteq Universe
  BY SMTT(30), PoolAssumption DEF TypeOK, Universe
<1>3. PICK w \in scenario.pool : TRUE
  BY <1>2, FS_EmptySet
<1>4. parent.next > scenario.universes
  BY <1>1, <1>2, <1>3 DEF Stopped
<1>5. ASSUME NEW u \in 1 .. scenario.universes
      PROVE  evidence[u].published
<2>1. u \in Universe /\ u < parent.next
  BY <1>2, <1>4 DEF TypeOK
<2>2. status[u] # "pending" /\ status[u] \notin Worker
  BY <2>1 DEF ToCome, Waiting
<2>3. status[u] = "summary"
  BY <1>1, <2>1, <2>2 DEF TypeOK
<2> QED BY <2>1, <2>3 DEF Truthful
<1> QED BY <1>5

(* nor the publication, which is of published universes. *)
LEMMA WritesTruthful ==
    ASSUME TypeOK, Writes, Waiting, ToCome, Stopped, Truthful
    PROVE  Truthful'
<1>1. /\ UNCHANGED <<scenario, worker, outcome, status, child, evidence>>
      /\ Running /\ \A w \in Worker : worker[w] = "stopped"
      /\ parent.step # "pool" \/ Verdict = "published"
           \/ (parent'.step = "pool" /\ UNCHANGED populations)
  BY DEF Writes
<1>2. parent.step # "pool" \/ Verdict = "published" =>
        \A u \in 1 .. scenario.universes : evidence[u].published
  BY <1>1, VerdictIsTrue DEF Truthful
<1> QED BY <1>1, <1>2 DEF Truthful

-----------------------------------------------------------------------------
(* `run` is in an inbox once. *)
LEMMA RunOnceKept ==
    ASSUME NEW c \in Child, RunOnce(c),
           \A i \in Nat : RunAt(c, i)' <=> RunAt(c, i),
           child'[c].told = "nothing" <=> child[c].told = "nothing",
           child'[c].at = child[c].at \/ child'[c].at \in {"exited", "reaped"},
           child'[c].at = "reaped" => \A i \in Nat : ~RunAt(c, i)
    PROVE  RunOnce(c)'
BY DEF RunOnce

(* An inbox that stays keeps its `run`. *)
LEMMA RunOnceSame ==
    ASSUME NEW c \in Child, child'[c].inbox = child[c].inbox
    PROVE  \A i \in Nat : RunAt(c, i)' <=> RunAt(c, i)
BY DEF RunAt

(* A cancel behind it changes nothing, *)
LEMMA RunAtAppend ==
    ASSUME TypeOK, NEW c \in Child, child'[c].inbox = Append(child[c].inbox, "cancel")
    PROVE  \A i \in Nat : RunAt(c, i)' <=> RunAt(c, i)
<1>1. child[c].inbox \in Seq({"run", "cancel"})
  BY DEF TypeOK, Process
<1> DEFINE m == "cancel"
           s == child[c].inbox
<1>2. /\ Len(s) \in Nat /\ Len(Append(s, m)) = Len(s) + 1
      /\ \A i \in 1 .. Len(s) : Append(s, m)[i] = s[i]
      /\ Append(s, m)[Len(s) + 1] = m
  BY <1>1, Sending
<1>3. child'[c].inbox = Append(s, m) /\ m # "run"
  OBVIOUS
<1> HIDE DEF m
<1>4. ASSUME NEW i \in Nat
      PROVE  RunAt(c, i)' <=> RunAt(c, i)
<2>1. i \in 1 .. Len(s) + 1 => i \in 1 .. Len(s) \/ i = Len(s) + 1
  BY <1>2
<2>2. i \in 1 .. Len(s) => i \in 1 .. Len(s) + 1 /\ i # Len(s) + 1
  BY <1>2
<2> QED BY <1>2, <1>3, <2>1, <2>2 DEF RunAt
<1> QED BY <1>4

(* and what is taken from the front of it moves it up. *)
LEMMA RunAtTail ==
    ASSUME TypeOK, NEW c \in Child, child[c].inbox # <<>>,
           child'[c].inbox = Tail(child[c].inbox)
    PROVE  /\ \A i \in Nat : RunAt(c, i)' <=> i >= 1 /\ RunAt(c, i + 1)
           /\ RunAt(c, 1) <=> Head(child[c].inbox) = "run"
           /\ Head(child[c].inbox) \in {"run", "cancel"}
<1> DEFINE s == child[c].inbox
<1>1. s \in Seq({"run", "cancel"})
  BY DEF TypeOK, Process
<1>2. /\ Len(s) \in Nat \ {0} /\ Len(Tail(s)) = Len(s) - 1
      /\ \A i \in 1 .. Len(s) - 1 : Tail(s)[i] = s[i + 1]
      /\ Head(s) = s[1] /\ Head(s) \in {"run", "cancel"}
  BY <1>1, Taking
<1>3. ASSUME NEW i \in Nat
      PROVE  RunAt(c, i)' <=> i >= 1 /\ RunAt(c, i + 1)
<2>1. i \in 1 .. Len(s) - 1 <=> i >= 1 /\ i + 1 \in 1 .. Len(s)
  BY <1>2
<2> QED BY <1>2, <2>1 DEF RunAt
<1>4. RunAt(c, 1) <=> Head(child[c].inbox) = "run"
  BY <1>2 DEF RunAt
<1> QED BY <1>2, <1>3, <1>4

(* A process that takes `run` has none left. *)
LEMMA HearRunOnce ==
    ASSUME TypeOK, NEW c \in Child, Hear(c), RunOnce(c)
    PROVE  RunOnce(c)'
<1>1. CASE Head(child[c].inbox) = "cancel"
<2>1. /\ child[c].inbox # <<>> /\ child'[c].inbox = Tail(child[c].inbox)
      /\ child'[c].at = child[c].at /\ child'[c].told = child[c].told
  BY <1>1, HearCancelStep
<2>2. /\ \A i \in Nat : RunAt(c, i)' <=> i >= 1 /\ RunAt(c, i + 1)
      /\ ~RunAt(c, 1)
  BY <1>1, <2>1, RunAtTail
<2>3. \A i, j \in Nat : RunAt(c, i)' /\ RunAt(c, j)' => i = j
<3>1. ASSUME NEW i \in Nat, NEW j \in Nat, RunAt(c, i)', RunAt(c, j)'
      PROVE  i = j
<4>1. RunAt(c, i + 1) /\ RunAt(c, j + 1) /\ i + 1 \in Nat /\ j + 1 \in Nat
  BY <2>2, <3>1
<4>2. i + 1 = j + 1
  BY <4>1 DEF RunOnce
<4> QED BY <4>2
<3> QED BY <3>1
<2>4. (\A i \in Nat : ~RunAt(c, i)) => \A i \in Nat : ~RunAt(c, i)'
  BY <2>2
<2>5. (\E i \in Nat : RunAt(c, i)) => \E i \in Nat : RunAt(c, i)'
<3>1. ASSUME NEW i \in Nat, RunAt(c, i)
      PROVE  \E j \in Nat : RunAt(c, j)'
<4>1. i # 1 /\ i >= 1
  BY <2>2, <3>1 DEF RunAt
<4>2. i - 1 \in Nat /\ i - 1 >= 1 /\ (i - 1) + 1 = i
  BY <4>1
<4>3. RunAt(c, i - 1)'
  BY <2>2, <3>1, <4>2
<4> QED BY <4>2, <4>3
<3> QED BY <3>1
<2> QED BY <2>1, <2>3, <2>4, <2>5 DEF RunOnce
<1>2. CASE Head(child[c].inbox) # "cancel"
<2>1. /\ child[c].inbox # <<>> /\ child'[c].inbox = Tail(child[c].inbox)
      /\ child'[c].at \in {"running", "reporting"} /\ child'[c].told = child[c].told
  BY <1>2, HearRunStep
<2>2. /\ \A i \in Nat : RunAt(c, i)' <=> i >= 1 /\ RunAt(c, i + 1)
      /\ RunAt(c, 1)
  BY <1>2, <2>1, RunAtTail
<2>3. \A i \in Nat : ~RunAt(c, i)'
<3>1. ASSUME NEW i \in Nat, RunAt(c, i)'
      PROVE  FALSE
<4>1. RunAt(c, i + 1) /\ i >= 1 /\ i + 1 \in Nat
  BY <2>2, <3>1
<4>2. i + 1 = 1
  BY <2>2, <4>1 DEF RunOnce
<4> QED BY <4>1, <4>2
<3> QED BY <3>1
<2>4. child[c].told # "nothing"
  BY <2>2 DEF RunOnce
<2> QED BY <2>1, <2>3, <2>4 DEF RunOnce
<1> QED BY <1>1, <1>2

(* A process that goes on keeps its inbox. *)
LEMMA ProceedsRunOnce ==
    ASSUME TypeOK, NEW c \in Child, RunOnce(c),
           Advance(c) \/ Throw(c) \/ Report(c) \/ Leave(c) \/ KillChild(c)
    PROVE  RunOnce(c)'
<1>1. CASE Advance(c) \/ Throw(c)
<2>1. /\ child[c].at = "running" /\ child'[c].at \in {"running", "reporting"}
      /\ child'[c].told = child[c].told /\ child'[c].inbox = child[c].inbox
  BY <1>1, AdvanceStep, ThrowStep
<2>2. \A i \in Nat : RunAt(c, i)' <=> RunAt(c, i)
  BY <2>1, RunOnceSame
<2> QED BY <2>1, <2>2 DEF RunOnce
<1>2. CASE Report(c)
<2>1. CASE child[c].connected
<3>1. /\ child[c].at = "reporting" /\ child'[c].at = "leaving"
      /\ child'[c].told = child[c].told /\ child'[c].inbox = child[c].inbox
  BY <1>2, <2>1, ReportStep
<3>2. \A i \in Nat : RunAt(c, i)' <=> RunAt(c, i)
  BY <3>1, RunOnceSame
<3> QED BY <3>1, <3>2 DEF RunOnce
<2>2. CASE ~child[c].connected
<3>1. child'[c] = [NoChild EXCEPT !.at = "exited", !.code = 1]
  BY <1>2, <2>2, ReportStep
<3>2. child'[c].at = "exited" /\ child'[c].told = "nothing" /\ child'[c].inbox = <<>>
  BY <3>1, NoChildType DEF Process
<3>3. \A i \in Nat : ~RunAt(c, i)'
  BY <3>2 DEF RunAt
<3> QED BY <3>2, <3>3 DEF RunOnce
<2> QED BY <2>1, <2>2
<1>3. CASE Leave(c) \/ KillChild(c)
<2>1. /\ child'[c].at = "exited"
      /\ child'[c].told = child[c].told /\ child'[c].inbox = child[c].inbox
  BY <1>3, LeaveStep, KillChildStep
<2>2. \A i \in Nat : RunAt(c, i)' <=> RunAt(c, i)
  BY <2>1, RunOnceSame
<2> QED BY <2>1, <2>2, RunOnceKept
<1> QED BY <1>1, <1>2, <1>3

(* A process that is reaped has an empty one. *)
LEMMA EndsRunOnce ==
    ASSUME NEW c \in Child, child'[c] = Reaped
    PROVE  RunOnce(c)'
<1>1. \A i \in Nat : ~RunAt(c, i)'
  BY ReapedType DEF RunAt
<1> QED BY <1>1, ReapedType DEF RunOnce

(* `run` is sent once. *)
LEMMA TellsRunOnce ==
    ASSUME TypeOK, NEW u \in Universe, NEW c \in Child, c = ChildOf(u), Accounted,
           Spawned(u) \/ Sent(u) \/ Message(u), RunOnce(c)
    PROVE  RunOnce(c)'
<1>2. c = ChildOf(u)
  OBVIOUS
<1>3. /\ child'[c].at = child[c].at /\ Awaited(u) /\ parent' = parent
  BY <1>2, SpawnedStep, SentStep, MessageStep DEF Tells
<1>5. CASE Spawned(u)
<2>1. /\ child[c].told = "nothing" /\ child'[c].told = "sending"
      /\ child'[c].inbox = Append(child[c].inbox, "run")
  BY <1>2, <1>5, SpawnedStep
<2>2. child[c].at \in {"forked", "exited"}
<3>1. child[c].at \notin {"none", "reaped"}
  BY <1>2, <1>3 DEF Accounted, Awaited, Running
<3>2. child[c].at \in At
  BY DEF TypeOK, Process
<3> QED BY <1>2, <2>1, <3>1, <3>2 DEF RunOnce, At
<2>3. \A i \in Nat : ~RunAt(c, i)
  BY <1>2, <2>1 DEF RunOnce
<2> DEFINE m == "run"
           s == child[c].inbox
<2>4. s \in Seq({"run", "cancel"})
  BY DEF TypeOK, Process
<2>5. /\ Len(s) \in Nat /\ Len(Append(s, m)) = Len(s) + 1
      /\ \A i \in 1 .. Len(s) : Append(s, m)[i] = s[i]
      /\ Append(s, m)[Len(s) + 1] = m
  BY <2>4, Sending
<2>6. ASSUME NEW i \in Nat
      PROVE  RunAt(c, i)' <=> i = Len(s) + 1
<3>1. i \in 1 .. Len(s) => ~RunAt(c, i) /\ i # Len(s) + 1
  BY <2>3, <2>5
<3>2. i \in 1 .. Len(s) + 1 <=> i \in 1 .. Len(s) \/ i = Len(s) + 1
  BY <2>5
<3> QED BY <2>1, <2>5, <3>1, <3>2 DEF RunAt
<2>7. Len(s) + 1 \in Nat
  BY <2>5
<2> QED BY <1>3, <2>1, <2>2, <2>6, <2>7 DEF RunOnce
<1>6. CASE Sent(u) \/ Message(u)
<2>1. child'[c].told = "nothing" <=> child[c].told = "nothing"
  BY <1>2, <1>6, SentStep, MessageStep
<2>2. \/ child'[c].inbox = child[c].inbox
      \/ child'[c].inbox = Append(child[c].inbox, "cancel")
  BY <1>2, <1>6, SentStep, MessageStep
<2>3. \A i \in Nat : RunAt(c, i)' <=> RunAt(c, i)
  BY <1>2, <2>2, RunAtAppend, RunOnceSame
<2>4. child[c].at # "reaped"
  BY <1>2, <1>3 DEF Accounted, Awaited, Running
<2> QED BY <1>2, <1>3, <2>1, <2>3, <2>4, RunOnceKept
<1> QED BY <1>5, <1>6

(* The steps of the command send nothing else. *)
LEMMA CommandRunOnce ==
    ASSUME TypeOK, NEW c \in Child, RunOnce(c),
           Abort \/ KillParent \/ GiveAgain \/ \E w \in Worker : Claim(w)
    PROVE  RunOnce(c)'
<1>1. CASE Abort \/ KillParent \/ GiveAgain
<2>1. /\ child'[c].told = child[c].told /\ child'[c].at = child[c].at
      /\ \/ child'[c].inbox = child[c].inbox
         \/ child'[c].inbox = Append(child[c].inbox, "cancel")
  BY <1>1, AbortStep, KillParentStep, GiveAgainStep
<2>2. \A i \in Nat : RunAt(c, i)' <=> RunAt(c, i)
  BY <2>1, RunAtAppend, RunOnceSame
<2> QED BY <2>1, <2>2 DEF RunOnce
<1>2. ASSUME NEW w \in Worker, Claim(w)
      PROVE  RunOnce(c)'
<2>1. child'[c] = child[c] \/ child'[c] = [NoChild EXCEPT !.at = "forked", !.connected = TRUE]
  BY <1>2, ClaimStep
<2>2. CASE child'[c] = child[c]
  BY <2>2 DEF RunOnce, RunAt
<2>3. CASE child'[c] = [NoChild EXCEPT !.at = "forked", !.connected = TRUE]
<3>1. child'[c].at = "forked" /\ child'[c].told = "nothing" /\ child'[c].inbox = <<>>
  BY <2>3, NoChildType DEF Process
<3>2. \A i \in Nat : ~RunAt(c, i)'
  BY <3>1 DEF RunAt
<3> QED BY <3>1, <3>2 DEF RunOnce
<2> QED BY <2>1, <2>2, <2>3
<1> QED BY <1>1, <1>2

-----------------------------------------------------------------------------
(* The channels. *)
LEMMA ConnectedKept ==
    ASSUME TypeOK, Connected, Running' => Running, parent'.run = parent.run,
           \A c \in Child : child'[c].at \in AtWork =>
               child'[c].connected \/ (child[c].at \in AtWork /\ child'[c].connected = child[c].connected)
    PROVE  Connected'
<1>1. \A u \in Universe : ChildOf(u) \in Child /\ ChildOf(u)' = ChildOf(u)
  BY Children DEF ChildOf
<1>2. ASSUME NEW u \in Universe, Running', child'[ChildOf(u)].at \in AtWork
      PROVE  child'[ChildOf(u)].connected
  BY <1>1, <1>2 DEF Connected, AtWork
<1> QED BY <1>1, <1>2 DEF Connected, AtWork

(* A process that goes on keeps its channel. *)
LEMMA ProceedsConnected ==
    ASSUME TypeOK, Connected, NEW c \in Child,
           Hear(c) \/ Advance(c) \/ Throw(c) \/ Report(c) \/ Leave(c) \/ KillChild(c)
    PROVE  Connected'
<1>1. Proceeds(c)
  BY HearCancelStep, HearRunStep, AdvanceStep, ThrowStep, ReportStep, LeaveStep, KillChildStep
<1>2. child'[c].at = "exited" \/ child'[c].connected \/ child'[c].connected = child[c].connected
<2>1. CASE Report(c)
<3>1. CASE child[c].connected
  BY <2>1, <3>1, ReportStep
<3>2. CASE ~child[c].connected
  BY <2>1, <3>2, ReportStep, NoChildType DEF Process
<3> QED BY <3>1, <3>2
<2>2. CASE ~Report(c)
  BY <2>2, HearCancelStep, HearRunStep, AdvanceStep, ThrowStep, LeaveStep, KillChildStep
<2> QED BY <2>1, <2>2
<1>3. \A b \in Child : child'[b].at \in AtWork =>
        child'[b].connected \/ (child[b].at \in AtWork /\ child'[b].connected = child[b].connected)
  BY <1>1, <1>2 DEF Proceeds, AtWork
<1> QED BY <1>1, <1>3, ConnectedKept DEF Proceeds, Running

(* A step about one universe keeps the channels of the others. *)
LEMMA UniverseConnected ==
    ASSUME TypeOK, Connected, NEW u \in Universe,
           Tells(u) \/ \E result \in {"summary", "paused", "failed"} : Ends(u, result)
    PROVE  Connected'
<1>1. UNCHANGED parent
  BY DEF Tells, Ends
<1>2. \A b \in Child : child'[b].at \in AtWork =>
        child'[b].connected \/ (child[b].at \in AtWork /\ child'[b].connected = child[b].connected)
  BY ReapedType DEF Tells, Ends, AtWork
<1> QED BY <1>1, <1>2, ConnectedKept DEF Running

(* The steps of the command close no channel of a process at work. *)
LEMMA CommandConnected ==
    ASSUME TypeOK, Connected, ToCome,
           Abort \/ KillParent \/ GiveAgain \/ \E w \in Worker : Claim(w)
    PROVE  Connected'
<1>1. CASE Abort
<2>1. /\ Running /\ parent'.run = parent.run
      /\ \A c \in Child : child'[c].at = child[c].at /\ child'[c].connected = child[c].connected
  BY <1>1, AbortStep DEF TypeOK
<2> QED BY <2>1, ConnectedKept
<1>2. CASE KillParent
  BY <1>2, KillParentStep DEF Connected, Running, TypeOK
<1>3. CASE GiveAgain
<2>1. /\ TypeOK' /\ parent'.run = parent.run + 1 /\ child' = child /\ parent.run \in Nat
  BY <1>3, GiveAgainStep, Children DEF NewParent
<2>2. parent'.run \in 1 .. Commands /\ parent'.run > parent.run
  BY <2>1 DEF TypeOK
<2>3. \A u \in Universe : ChildOf(u)' \in Child /\ ChildOf(u)'[1] > parent.run
  BY <2>2 DEF ChildOf, Child
<2>4. \A u \in Universe : child'[ChildOf(u)'].at = "none"
  BY <2>1, <2>3 DEF ToCome
<2> QED BY <2>4 DEF Connected
<1>4. ASSUME NEW w \in Worker, Claim(w)
      PROVE  Connected'
<2>1. Running /\ parent'.run = parent.run
  BY <1>4, ClaimStep DEF TypeOK
<2>2. \A c \in Child : child'[c] = child[c]
         \/ child'[c] = [NoChild EXCEPT !.at = "forked", !.connected = TRUE]
  BY <1>4, ClaimStep
<2>3. \A c \in Child : child'[c] = child[c] \/ child'[c].connected
  BY <2>2, NoChildType DEF Process
<2> QED BY <2>1, <2>3, ConnectedKept
<1> QED BY <1>1, <1>2, <1>3, <1>4

-----------------------------------------------------------------------------
(* The oracles. *)

(* A process takes `run` before it is anything but forked. *)
LEMMA HearIsFirst ==
    ASSUME TypeOK, NEW c \in Child, Hear(c), Head(child[c].inbox) # "cancel", RunOnce(c)
    PROVE  child[c].at = "forked"
<1>1. child[c].inbox # <<>> /\ child'[c].inbox = Tail(child[c].inbox)
  BY HearRunStep
<1>2. RunAt(c, 1)
  BY <1>1, RunAtTail
<1> QED BY <1>2 DEF RunOnce, Hear

(* A process that goes on is blind only where it takes up an earlier run. *)
LEMMA ProceedsSighted ==
    ASSUME TypeOK, Sighted, ToCome, NEW c \in Child, Proceeds(c),
           child'[c].blind => \/ child[c].blind
                              \/ /\ scenario.open /\ evidence[c[2]].ticks > 0
                                 /\ child[c].at = "forked"
    PROVE  Sighted'
<1>1. /\ UNCHANGED <<scenario, parent>>
      /\ child[c].at \notin {"none", "reaped"} /\ child'[c].at # "none"
      /\ \A b \in Child : b # c => child'[b] = child[b]
      /\ \A u \in Universe : u # c[2] => evidence'[u] = evidence[u]
      /\ child'[c].at = "forked" => child[c].at = "forked" /\ evidence'[c[2]] = evidence[c[2]]
  BY DEF Proceeds, AtWork
<1>2. \A u \in Universe : ChildOf(u)' = ChildOf(u) /\ ChildOf(u) \in Child
  BY <1>1, Children DEF ChildOf
<1>3. parent.run \in Nat \ {0} /\ c[1] \in Nat \ {0} /\ c[2] \in Universe
  BY DEF TypeOK, Child
<1>4. parent.run = 1 => c = ChildOf(c[2])
  <2>1. c[1] <= parent.run
    BY <1>1, <1>3 DEF ToCome
  <2> QED BY <1>3, <2>1, Children
<1>5. child'[c].blind => scenario.open /\ parent.run > 1
  <2>1. CASE child[c].blind
    BY <2>1 DEF Sighted
  <2>2. CASE scenario.open /\ evidence[c[2]].ticks > 0 /\ child[c].at = "forked"
    <3>1. parent.run # 1
      <4> SUFFICES ASSUME parent.run = 1 PROVE FALSE
        OBVIOUS
      <4>1. evidence[c[2]].ticks = 0
        BY <1>3, <1>4, <2>2 DEF Sighted
      <4> QED BY <2>2, <4>1
    <3> QED BY <1>3, <2>2, <3>1
  <2> QED BY <2>1, <2>2
<1>6. ASSUME NEW u \in Universe, parent.run = 1, child'[ChildOf(u)].at \in {"none", "forked"}
      PROVE  evidence'[u].ticks = 0
  <2>1. CASE u = c[2]
    BY <1>1, <1>3, <1>4, <1>6, <2>1 DEF Sighted
  <2>2. CASE u # c[2]
    <3>1. ChildOf(u) # c
      BY <1>2, <2>2, Children
    <3> QED BY <1>1, <1>2, <1>6, <2>2, <3>1 DEF Sighted
  <2> QED BY <2>1, <2>2
<1> QED BY <1>1, <1>2, <1>5, <1>6 DEF Sighted

(* Nobody else records a tick, or makes a process blind. *)
LEMMA OthersSighted ==
    ASSUME TypeOK, Sighted, scenario' = scenario, parent'.run = parent.run,
           \A u \in Universe : evidence'[u].ticks = evidence[u].ticks,
           \A c \in Child :
             /\ child'[c].blind => child[c].blind
             /\ child'[c].at \in {"none", "forked"} => child[c].at \in {"none", "forked"}
    PROVE  Sighted'
<1>1. \A u \in Universe : ChildOf(u)' = ChildOf(u) /\ ChildOf(u) \in Child
  BY Children DEF ChildOf
<1> QED BY <1>1 DEF Sighted

(* A step about one universe, *)
LEMMA UniverseSighted ==
    ASSUME TypeOK, Sighted, NEW u \in Universe,
           Tells(u) \/ \E result \in {"summary", "paused", "failed"} : Ends(u, result)
    PROVE  Sighted'
<1>1. UNCHANGED <<scenario, parent, evidence>>
  BY DEF Tells, Ends
<1>2. \A c \in Child :
        /\ child'[c].blind => child[c].blind
        /\ child'[c].at \in {"none", "forked"} => child[c].at \in {"none", "forked"}
  BY ReapedType DEF Tells, Ends
<1> QED BY <1>1, <1>2, OthersSighted

(* and one of the command. *)
LEMMA CommandSighted ==
    ASSUME TypeOK, Sighted, ToCome,
           Abort \/ KillParent \/ GiveAgain \/ \E w \in Worker : Claim(w)
    PROVE  Sighted'
<1>1. CASE Abort
  <2>1. parent'.run = parent.run
    BY <1>1, AbortStep DEF TypeOK
  <2> QED BY <1>1, <2>1, AbortStep, OthersSighted
<1>2. CASE KillParent
  <2>1. parent'.run = parent.run
    BY <1>2, KillParentStep DEF TypeOK
  <2> QED BY <1>2, <2>1, KillParentStep, OthersSighted
<1>3. CASE GiveAgain
  <2>1. UNCHANGED <<scenario, child, evidence>> /\ parent'.run = parent.run + 1
    BY <1>3, GiveAgainStep DEF NewParent
  <2>2. parent'.run > 1 /\ parent'.run # 1
    BY <2>1 DEF TypeOK
  <2> QED BY <2>1, <2>2 DEF Sighted
<1>4. ASSUME NEW w \in Worker, Claim(w)
      PROVE  Sighted'
  <2>1. /\ parent'.run = parent.run /\ UNCHANGED <<scenario, evidence>>
    BY <1>4, ClaimStep DEF TypeOK
  <2>2. CASE UNCHANGED child
    BY <2>1, <2>2, OthersSighted
  <2>3. CASE /\ parent.next \in Universe
             /\ child'[ChildOf(parent.next)] =
                    [NoChild EXCEPT !.at = "forked", !.connected = TRUE]
             /\ \A c \in Child : c # ChildOf(parent.next) => child'[c] = child[c]
    <3>1. ~child'[ChildOf(parent.next)].blind
      BY <2>3, NoChildType DEF Process
    <3>2. child[ChildOf(parent.next)].at = "none"
      <4>1. parent.next >= parent.next
        BY DEF TypeOK
      <4> QED BY <2>3, <4>1 DEF ToCome
    <3>3. \A c \in Child :
            /\ child'[c].blind => child[c].blind
            /\ child'[c].at \in {"none", "forked"} => child[c].at \in {"none", "forked"}
      BY <2>3, <3>1, <3>2
    <3> QED BY <2>1, <3>3, OthersSighted
  <2> QED BY <1>4, <2>2, <2>3, ClaimStep
<1> QED BY <1>1, <1>2, <1>3, <1>4

-----------------------------------------------------------------------------
(* Where nothing is killed and nothing throws. *)
LEMMA CleanLeft ==
    ASSUME TypeOK, Clean
    PROVE  left.kills = 0 /\ left.errors = 0
BY DEF TypeOK, Clean

(* The processes at work are those the command awaits. *)
LEMMA OwnChild ==
    ASSUME TypeOK, Accounted, ToCome, Harmless, Clean, NEW c \in Child,
           child[c].at \notin {"none", "reaped"}
    PROVE  /\ c = ChildOf(c[2]) /\ c[2] \in Universe
           /\ Awaited(c[2]) /\ Running
<1>1. c[1] \in Nat /\ parent.run \in Nat /\ c[2] \in Universe
  BY Children
<1>2. ~(c[1] < parent.run)
  BY DEF Harmless
<1>3. ~(c[1] > parent.run)
  BY DEF ToCome
<1>4. c = ChildOf(c[2])
  BY <1>1, <1>2, <1>3, Children
<1>5. parent.result # "killed"
  BY DEF Harmless
<1>6. Awaited(c[2])
  BY <1>1, <1>4, <1>5 DEF Accounted
<1> QED BY <1>1, <1>4, <1>6 DEF Awaited

(* A process that goes on harms nothing; *)
LEMMA ProceedsHarmless ==
    ASSUME TypeOK, Accounted, ToCome, Harmless, NEW c \in Child, Proceeds(c),
           NEW u \in Universe, u = c[2],
           Clean => /\ ~evidence'[u].sound => scenario.open /\ parent.run > 1
                    /\ evidence'[u].lease # "stale"
                    /\ evidence'[u].lease = "held" => child'[c].at = "running"
                    /\ c = ChildOf(u) => Reports(u)'
    PROVE  Harmless'
<1> SUFFICES ASSUME Clean
             PROVE  /\ parent'.result # "killed"
                    /\ parent'.result = "failed" => \E v \in Universe : ~evidence'[v].sound
                    /\ \A b \in Child : b[1] < parent'.run => child'[b].at \in {"none", "reaped"}
                    /\ \A v \in Universe :
                         /\ status'[v] = "failed" => ~evidence'[v].sound
                         /\ ~evidence'[v].sound => scenario.open /\ parent.run > 1
                         /\ evidence'[v].lease # "stale"
                         /\ evidence'[v].lease = "held" => child'[ChildOf(v)'].at = "running"
                         /\ Reports(v)'
  BY DEF Harmless, Clean, Proceeds
<1>1. /\ UNCHANGED <<scenario, parent, worker, outcome, status, populations>>
      /\ child[c].at \notin {"none", "reaped"}
      /\ \A b \in Child : b # c => child'[b] = child[b]
      /\ \A v \in Universe : v # u => evidence'[v] = evidence[v]
      /\ \A v \in Universe : ~evidence[v].sound => ~evidence'[v].sound
  BY DEF Proceeds, AtWork
<1>2. c = ChildOf(u)
  BY <1>1, OwnChild
<1>3. \A v \in Universe : ChildOf(v)' = ChildOf(v) /\ ChildOf(v) \in Child
  BY <1>1, Children DEF ChildOf
<1>4. \A b \in Child : b[1] < parent.run => child'[b].at \in {"none", "reaped"}
<2>1. \A b \in Child : b[1] < parent.run => b # c
  BY <1>2, Children
<2> QED BY <1>1, <2>1 DEF Harmless
<1>5. ASSUME NEW v \in Universe, v # u
      PROVE  /\ ~evidence'[v].sound => scenario.open /\ parent.run > 1
             /\ evidence'[v].lease # "stale"
             /\ evidence'[v].lease = "held" => child'[ChildOf(v)'].at = "running"
             /\ Reports(v)'
<2>1. ChildOf(v) # c /\ ChildOf(v) \in Child
  BY <1>2, <1>5, Children
<2>2. child'[ChildOf(v)'] = child[ChildOf(v)] /\ evidence'[v] = evidence[v]
      /\ outcome'[v] = outcome[v] /\ child'[ChildOf(v)] = child[ChildOf(v)]
      /\ ChildOf(v)' = ChildOf(v)
  BY <1>1, <1>3, <1>5, <2>1
<2>3. Reports(v)'
  BY <2>2 DEF Reports, Excused, RunAt, Harmless
<2> QED BY <2>2, <2>3 DEF Harmless
<1>6. /\ ~evidence'[u].sound => scenario.open /\ parent.run > 1
      /\ evidence'[u].lease # "stale"
      /\ evidence'[u].lease = "held" => child'[ChildOf(u)'].at = "running"
      /\ Reports(u)'
  BY <1>2, <1>3
<1> QED BY <1>1, <1>4, <1>5, <1>6 DEF Harmless

(* nor does one that takes a message, *)
LEMMA HearHarmless ==
    ASSUME TypeOK, Accounted, ToCome, Harmless, NEW c \in Child, Hear(c), RunOnce(c)
    PROVE  Harmless'
<1>1. PICK u \in Universe : u = c[2]
  BY Children
<1>2. Proceeds(c) /\ child[c].at \in {"forked", "running", "reporting"}
  BY HearCancelStep, HearRunStep DEF Hear
<1>3. ASSUME Clean
      PROVE  /\ ~evidence'[u].sound => scenario.open /\ parent.run > 1
             /\ evidence'[u].lease # "stale"
             /\ evidence'[u].lease = "held" => child'[c].at = "running"
             /\ c = ChildOf(u) => Reports(u)'
<2>1. c = ChildOf(u) /\ ChildOf(u)' = c
  BY <1>1, <1>2, <1>3, OwnChild DEF Proceeds, ChildOf
<2>2. /\ ~evidence[u].sound => scenario.open /\ parent.run > 1
      /\ evidence[u].lease # "stale"
      /\ evidence[u].lease = "held" => child[c].at = "running"
      /\ Reports(u)
  BY <1>3, <2>1 DEF Harmless
<2>3. child[c].outbox = NoReport /\ child[c].code = 0
      /\ (child[c].at = "reporting" => Excused(u, child[c].result))
  BY <1>2, <2>1, <2>2 DEF Reports
<2>4. CASE Head(child[c].inbox) = "cancel"
<3>1. /\ child'[c].at = child[c].at /\ child'[c].outbox = child[c].outbox
      /\ child'[c].result = child[c].result /\ child'[c].code = child[c].code
      /\ evidence' = evidence
  BY <2>4, HearCancelStep
<3>2. Reports(u)'
  BY <1>2, <2>1, <2>3, <3>1 DEF Reports, Excused
<3> QED BY <2>2, <3>1, <3>2
<2>5. CASE Head(child[c].inbox) # "cancel"
<3>1. /\ child'[c].outbox = child[c].outbox /\ child'[c].code = child[c].code
      /\ evidence'[u].sound = evidence[u].sound
      /\ \/ /\ child'[c].at = "running" /\ evidence'[u].lease = "held"
         \/ /\ child'[c].at = "reporting" /\ child'[c].result = "error"
            /\ evidence[u].lease # "free" \/ ~evidence[u].sound
            /\ evidence'[u].lease = evidence[u].lease
         \/ /\ child'[c].at = "reporting" /\ child'[c].result = "summary"
            /\ evidence'[u].lease = "free"
  BY <1>1, <2>5, HearRunStep
<3>2. child[c].at = "forked"
  BY <2>5, HearIsFirst
<3>3. evidence[u].lease = "free"
  BY <2>2, <3>2 DEF TypeOK
<3>4. \/ /\ child'[c].at = "running" /\ evidence'[u].lease = "held"
      \/ /\ child'[c].at = "reporting" /\ evidence'[u].lease = "free"
         /\ child'[c].result = "summary" \/ (child'[c].result = "error" /\ ~evidence'[u].sound)
  BY <2>2, <3>1, <3>3
<3>5. Reports(u)'
  BY <2>1, <2>3, <3>1, <3>4 DEF Reports, Excused
<3> QED BY <2>2, <3>1, <3>4, <3>5
<2> QED BY <2>4, <2>5
<1> QED BY <1>1, <1>2, <1>3, ProceedsHarmless

(* one that appends an event, *)
LEMMA AdvanceHarmless ==
    ASSUME TypeOK, Accounted, ToCome, Sighted, Harmless, NEW c \in Child, Advance(c)
    PROVE  Harmless'
<1>1. PICK u \in Universe : u = c[2]
  BY Children
<1>2. /\ Proceeds(c) /\ child[c].at = "running"
      /\ child'[c].outbox = child[c].outbox /\ child'[c].code = child[c].code
      /\ evidence[u].sound /\ ~evidence'[u].sound => child[c].blind
      /\ \/ /\ child'[c].at = "running" /\ child'[c].result = child[c].result
            /\ evidence'[u].lease = evidence[u].lease
         \/ /\ child'[c].at = "reporting" /\ evidence'[u].lease = "free"
            /\ \/ child'[c].result \in {"paused", "summary"}
               \/ child'[c].result = "error" /\ ~evidence'[u].sound
  BY <1>1, AdvanceStep
<1>3. ASSUME Clean
      PROVE  /\ ~evidence'[u].sound => scenario.open /\ parent.run > 1
             /\ evidence'[u].lease # "stale"
             /\ evidence'[u].lease = "held" => child'[c].at = "running"
             /\ c = ChildOf(u) => Reports(u)'
<2>1. c = ChildOf(u) /\ ChildOf(u)' = c
  BY <1>1, <1>2, <1>3, OwnChild DEF Proceeds, ChildOf
<2>2. /\ child[c].blind => scenario.open /\ parent.run > 1
      /\ ~evidence[u].sound => scenario.open /\ parent.run > 1
      /\ evidence[u].lease # "stale"
      /\ Reports(u)
  BY <1>3, <2>1 DEF Harmless, Sighted
<2>3. child[c].outbox = NoReport /\ child[c].code = 0
  BY <1>2, <2>1, <2>2 DEF Reports
<2>4. Reports(u)'
  BY <1>2, <2>1, <2>3 DEF Reports, Excused
<2> QED BY <1>2, <2>2, <2>4
<1> QED BY <1>1, <1>2, <1>3, ProceedsHarmless

(* one that reports, *)
LEMMA ReportHarmless ==
    ASSUME TypeOK, Accounted, ToCome, Harmless, Connected, NEW c \in Child, Report(c)
    PROVE  Harmless'
<1>1. PICK u \in Universe : u = c[2]
  BY Children
<1>2. Proceeds(c) /\ UNCHANGED evidence /\ child[c].at = "reporting"
  BY ReportStep
<1>3. ASSUME Clean
      PROVE  /\ ~evidence'[u].sound => scenario.open /\ parent.run > 1
             /\ evidence'[u].lease # "stale"
             /\ evidence'[u].lease = "held" => child'[c].at = "running"
             /\ c = ChildOf(u) => Reports(u)'
<2>1. c = ChildOf(u) /\ ChildOf(u)' = c /\ Running
  BY <1>1, <1>2, <1>3, OwnChild DEF Proceeds, ChildOf
<2>2. /\ ~evidence[u].sound => scenario.open /\ parent.run > 1
      /\ evidence[u].lease # "stale"
      /\ evidence[u].lease = "held" => child[c].at = "running"
      /\ Reports(u)
  BY <1>3, <2>1 DEF Harmless
<2>3. child[c].code = 0 /\ Excused(u, child[c].result) /\ child[c].connected
  BY <1>2, <2>1, <2>2 DEF Reports, Connected
<2>4. /\ child'[c].at = "leaving" /\ child'[c].code = child[c].code
      /\ child'[c].outbox = [type |-> child[c].result, universe |-> u]
  BY <1>1, <2>3, ReportStep
<2>5. child'[c].outbox.type = child[c].result /\ child'[c].outbox.universe = u
      /\ child'[c].outbox # NoReport
  BY <2>4 DEF NoReport, Universe
<2>6. Reports(u)'
  BY <1>2, <2>1, <2>3, <2>4, <2>5 DEF Reports, Excused
<2> QED BY <1>2, <2>2, <2>6
<1> QED BY <1>1, <1>2, <1>3, ProceedsHarmless

(* or one that leaves; *)
LEMMA LeaveHarmless ==
    ASSUME TypeOK, Accounted, ToCome, Harmless, Connected, NEW c \in Child, Leave(c), RunOnce(c)
    PROVE  Harmless'
<1>1. PICK u \in Universe : u = c[2]
  BY Children
<1>2. /\ Proceeds(c) /\ UNCHANGED evidence
      /\ \/ child[c].at = "leaving"
         \/ child[c].at = "forked" /\ ~child[c].connected
      /\ child'[c].at = "exited" /\ child'[c].outbox = child[c].outbox
      /\ child'[c].inbox = child[c].inbox /\ child'[c].told = child[c].told
      /\ child'[c].code = child[c].code
  BY LeaveStep
<1>3. ASSUME Clean
      PROVE  /\ ~evidence'[u].sound => scenario.open /\ parent.run > 1
             /\ evidence'[u].lease # "stale"
             /\ evidence'[u].lease = "held" => child'[c].at = "running"
             /\ c = ChildOf(u) => Reports(u)'
<2>1. c = ChildOf(u) /\ ChildOf(u)' = c /\ Running
  BY <1>1, <1>2, <1>3, OwnChild DEF Proceeds, ChildOf
<2>2. /\ ~evidence[u].sound => scenario.open /\ parent.run > 1
      /\ evidence[u].lease # "stale"
      /\ evidence[u].lease = "held" => child[c].at = "running"
      /\ Reports(u)
  BY <1>3, <2>1 DEF Harmless
<2>3. child[c].at = "leaving"
  BY <1>2, <2>1 DEF Connected
<2>4. child[c].told # "nothing" /\ \A i \in Nat : ~RunAt(c, i)'
<3>1. child[c].told # "nothing" /\ \A i \in Nat : ~RunAt(c, i)
  BY <2>3 DEF RunOnce
<3> QED BY <1>2, <3>1 DEF RunAt
<2>5. \A i \in Nat : ~RunAt(ChildOf(u), i)'
  BY <2>1, <2>4 DEF RunAt
<2>6. /\ child[c].code = 0
      /\ IF child[c].outbox = NoReport THEN Excused(u, outcome[u])
         ELSE Excused(u, child[c].outbox.type) /\ child[c].outbox.universe = u
  BY <2>1, <2>2, <2>3 DEF Reports
<2>7. outcome' = outcome /\ NoReport' = NoReport
  BY <1>2 DEF Proceeds, NoReport
<2>8. Reports(u)'
  BY <1>2, <2>1, <2>4, <2>5, <2>6, <2>7 DEF Reports, Excused
<2> QED BY <1>2, <2>2, <2>3, <2>8
<1> QED BY <1>1, <1>2, <1>3, ProceedsHarmless

(* faults do not happen where there is no harm. *)
LEMMA FaultHarmless ==
    ASSUME TypeOK, Harmless, scenario' = scenario,
           left.kills > 0 \/ left.errors > 0
    PROVE  Harmless'
BY CleanLeft DEF Harmless, Clean

(* Steps of the command that leave the evidence alone. *)
LEMMA OthersHarmless ==
    ASSUME TypeOK, Harmless, UNCHANGED <<scenario, evidence>>, parent'.run = parent.run,
           Clean => /\ parent'.result # "killed"
                    /\ parent'.result = "failed" => \E u \in Universe : ~evidence[u].sound
                    /\ \A b \in Child : b[1] < parent.run => child'[b].at = child[b].at
                    /\ \A u \in Universe :
                         /\ status'[u] = "failed" => ~evidence[u].sound
                         /\ evidence[u].lease = "held" =>
                              child'[ChildOf(u)].at = child[ChildOf(u)].at
                         /\ Reports(u)'
    PROVE  Harmless'
<1>1. \A u \in Universe : ChildOf(u)' = ChildOf(u)
  BY DEF ChildOf
<1>2. Clean' <=> Clean
  BY DEF Clean
<1> QED BY <1>1, <1>2 DEF Harmless

(* A message harms nothing, *)
LEMMA TellsHarmless ==
    ASSUME TypeOK, NEW u \in Universe, NEW c \in Child, c = ChildOf(u), Accounted, Harmless,
           Spawned(u) \/ Sent(u) \/ Message(u), RunOnce(c)
    PROVE  Harmless'
<1>1. Tells(u)
  BY SpawnedStep, SentStep, MessageStep
<1>2. /\ UNCHANGED <<scenario, parent, worker, status, evidence, populations>>
      /\ Awaited(u)
      /\ \A b \in Child : b # c => child'[b] = child[b]
      /\ child'[c].at = child[c].at
      /\ child'[c].result = child[c].result
      /\ child'[c].code = child[c].code
  BY <1>1 DEF Tells
<1>3. \A v \in Universe : ChildOf(v)' = ChildOf(v) /\ ChildOf(v) \in Child
                          /\ (v # u => ChildOf(v) # c)
  BY <1>2, Children DEF ChildOf
<1>4. child[c].at \notin {"none", "reaped"}
  BY <1>2 DEF Accounted, Awaited, Running
<1>5. ASSUME Clean, NEW v \in Universe
      PROVE  Reports(v)'
<2>1. Reports(v)
  BY <1>5 DEF Harmless
<2>2. CASE v # u
<3>1. child'[ChildOf(v)'] = child[ChildOf(v)] /\ outcome'[v] = outcome[v]
      /\ child'[ChildOf(v)] = child[ChildOf(v)] /\ ChildOf(v)' = ChildOf(v)
  BY <1>2, <1>3, <2>2, SpawnedStep, SentStep, MessageStep
<3> QED BY <1>2, <2>1, <3>1 DEF Reports, Excused, RunAt
<2>3. CASE v = u
<3>0. Reports(u) /\ c' = c /\ ChildOf(u)' = c
  BY <1>3, <2>1, <2>3
<3>1. CASE Spawned(u)
<4>1. /\ child[c].told = "nothing" /\ child'[c].outbox = child[c].outbox
  BY <3>1, SpawnedStep
<4>2. child[c].at = "forked"
<5>1. child[c].at \in At
  BY DEF TypeOK, Process
<5>2. child[c].at # "exited"
  BY <3>0, <4>1 DEF Reports
<5> QED BY <1>4, <4>1, <5>1, <5>2 DEF RunOnce, At
<4>3. child[c].outbox = NoReport /\ child[c].code = 0
  BY <3>0, <4>2 DEF Reports
<4>4. Reports(u)'
  BY <1>2, <3>0, <4>1, <4>2, <4>3 DEF Reports, Excused
<4> QED BY <2>3, <4>4
<3>2. CASE Sent(u) \/ Message(u)
<4>1. /\ child'[c].told = "nothing" <=> child[c].told = "nothing"
      /\ \/ child'[c].inbox = child[c].inbox
         \/ child'[c].inbox = Append(child[c].inbox, "cancel")
  BY <3>2, SentStep, MessageStep
<4>2. \A i \in Nat : RunAt(c, i)' <=> RunAt(c, i)
  BY <4>1, RunAtAppend, RunOnceSame
<4>3. \A i \in Nat : RunAt(ChildOf(u), i)' <=> RunAt(ChildOf(u), i)
  BY <3>0, <4>2 DEF RunAt
<4>4. child[c].at = "exited" =>
        child'[c].told # "nothing" /\ \A i \in Nat : ~RunAt(ChildOf(u), i)'
  BY <3>0, <4>1, <4>3 DEF Reports
<4>5. CASE Sent(u)
<5>1. child'[c].outbox = child[c].outbox /\ outcome' = outcome
  BY <4>5, SentStep
<5>2. Reports(u)'
  BY <1>2, <3>0, <4>4, <5>1 DEF Reports, Excused
<5> QED BY <2>3, <5>2
<4>6. CASE Message(u)
<5>1. /\ child[c].outbox # NoReport /\ child'[c].outbox = NoReport
      /\ outcome'[u] = IF child[c].outbox.universe = u THEN child[c].outbox.type ELSE "error"
  BY <4>6, MessageStep
<5>2. child[c].at \in {"leaving", "exited"}
<6>1. child[c].at \in At
  BY DEF TypeOK, Process
<6> QED BY <1>4, <3>0, <5>1, <6>1 DEF Reports, At
<5>3. Excused(u, outcome'[u]) /\ child[c].code = 0
  BY <3>0, <5>1, <5>2 DEF Reports
<5>4. Reports(u)'
  BY <1>2, <3>0, <4>4, <5>1, <5>2, <5>3 DEF Reports, Excused
<5> QED BY <2>3, <5>4
<4> QED BY <3>2, <4>5, <4>6
<3> QED BY <3>1, <3>2
<2> QED BY <2>2, <2>3
<1>6. \A b \in Child : child'[b].at = child[b].at
  BY <1>2
<1> QED BY <1>2, <1>3, <1>5, <1>6, OthersHarmless DEF Harmless

(* A universe ends as a failure only when a replay refuses it. *)
LEMMA EndsHarmless ==
    ASSUME TypeOK, NEW u \in Universe, NEW result \in {"summary", "paused", "failed"},
           Ends(u, result), Harmless,
           Clean => /\ result = "failed" => ~evidence[u].sound
                    /\ child[ChildOf(u)].at # "running"
    PROVE  Harmless'
<1>1. /\ UNCHANGED <<scenario, parent, outcome, evidence, populations>>
      /\ child'[ChildOf(u)] = Reaped
      /\ \A b \in Child : b # ChildOf(u) => child'[b] = child[b]
      /\ status'[u] = result
      /\ \A v \in Universe : v # u => status'[v] = status[v]
  BY DEF Ends
<1>2. \A v \in Universe : ChildOf(v)' = ChildOf(v) /\ ChildOf(v) \in Child
                          /\ (v # u => ChildOf(v) # ChildOf(u))
  BY <1>1, Children DEF ChildOf
<1>3. \A b \in Child : b[1] < parent.run => b # ChildOf(u)
  BY Children
<1>4. ASSUME Clean
      PROVE  /\ parent'.result # "killed"
             /\ parent'.result = "failed" => \E v \in Universe : ~evidence[v].sound
             /\ \A b \in Child : b[1] < parent.run => child'[b].at = child[b].at
             /\ \A v \in Universe :
                  /\ status'[v] = "failed" => ~evidence[v].sound
                  /\ evidence[v].lease = "held" =>
                       child'[ChildOf(v)].at = child[ChildOf(v)].at
                  /\ Reports(v)'
<2>1. /\ parent'.result # "killed"
      /\ parent'.result = "failed" => \E v \in Universe : ~evidence[v].sound
  BY <1>1, <1>4 DEF Harmless
<2>2. \A b \in Child : b[1] < parent.run => child'[b].at = child[b].at
  BY <1>1, <1>3
<2>3. \A v \in Universe : status'[v] = "failed" => ~evidence[v].sound
  BY <1>1, <1>4 DEF Harmless
<2>4. \A v \in Universe : evidence[v].lease = "held" =>
                       child'[ChildOf(v)].at = child[ChildOf(v)].at
  BY <1>1, <1>2, <1>4 DEF Harmless
<2>5. ASSUME NEW v \in Universe
      PROVE  Reports(v)'
<3>1. CASE v = u
<4>1. child'[ChildOf(v)'] = Reaped
  BY <1>1, <1>2, <3>1
<4> QED BY <4>1, ReapedType DEF Reports
<3>2. CASE v # u
<4>1. child'[ChildOf(v)'] = child[ChildOf(v)] /\ outcome' = outcome
      /\ child'[ChildOf(v)] = child[ChildOf(v)] /\ ChildOf(v)' = ChildOf(v)
  BY <1>1, <1>2, <3>2
<4>2. Reports(v)
  BY <1>4 DEF Harmless
<4> QED BY <1>1, <4>1, <4>2 DEF Reports, Excused, RunAt
<3> QED BY <3>1, <3>2
<2> QED BY <2>1, <2>2, <2>3, <2>4, <2>5
<1> QED BY <1>1, <1>4, OthersHarmless

(* nor does an exit, which finds a report, *)
LEMMA ExitHarmless ==
    ASSUME TypeOK, NEW u \in Universe, Exit(u) \/ SpawnFails(u) \/ SendFails(u), Harmless
    PROVE  Harmless'
<1>1. CASE Exit(u)
<2>1. /\ Ends(u, Resolution(u))
      /\ Resolution(u) \in {"summary", "paused", "failed"}
      /\ child[ChildOf(u)].at = "exited" /\ child[ChildOf(u)].outbox = NoReport
      /\ outcome[u] = "paused" => Resolution(u) = "paused"
      /\ outcome[u] = "summary" /\ child[ChildOf(u)].code = 0 => Resolution(u) = "summary"
  BY <1>1, ExitStep
<2>2. ASSUME Clean
      PROVE  Resolution(u) = "failed" => ~evidence[u].sound
<3>1. Reports(u)
  BY <2>2 DEF Harmless
<3>2. Excused(u, outcome[u]) /\ child[ChildOf(u)].code = 0
  BY <2>1, <3>1 DEF Reports
<3> QED BY <2>1, <3>2 DEF Excused
<2> DEFINE x == Resolution(u)
<2>3. Ends(u, x) /\ x \in {"summary", "paused", "failed"}
      /\ (Clean => /\ x = "failed" => ~evidence[u].sound
                   /\ child[ChildOf(u)].at # "running")
  BY <2>1, <2>2
<2> HIDE DEF x
<2> QED BY <2>3, EndsHarmless
<1>2. CASE SpawnFails(u) \/ SendFails(u)
<2> DEFINE x == "failed"
<2>1. /\ Ends(u, x) /\ x \in {"summary", "paused", "failed"}
      /\ \/ left.errors > 0
         \/ child[ChildOf(u)].at = "exited" /\ "run" \in ToSet(child[ChildOf(u)].inbox)
  BY <1>2, FailsStep
<2>2. ~Clean
<3>1. SUFFICES ASSUME Clean PROVE FALSE
  OBVIOUS
<3>2. child[ChildOf(u)].at = "exited" /\ "run" \in ToSet(child[ChildOf(u)].inbox)
  BY <2>1, <3>1, CleanLeft
<3>3. \A i \in Nat : ~RunAt(ChildOf(u), i)
  BY <3>1, <3>2 DEF Harmless, Reports
<3>4. ChildOf(u) \in Child
  BY Children
<3>5. child[ChildOf(u)].inbox \in Seq({"run", "cancel"})
  BY <3>4 DEF TypeOK, Process
<3>6. PICK i \in DOMAIN child[ChildOf(u)].inbox : child[ChildOf(u)].inbox[i] = "run"
  BY <3>2 DEF ToSet
<3>7. i \in Nat /\ RunAt(ChildOf(u), i)
  BY <3>5, <3>6, LenProperties DEF RunAt
<3> QED BY <3>3, <3>7
<2> HIDE DEF x
<2> QED BY <2>1, <2>2, EndsHarmless
<1> QED BY <1>1, <1>2

(* nor a claim, *)
LEMMA ClaimHarmless ==
    ASSUME TypeOK, NEW w \in Worker, Claim(w), ToCome, Harmless
    PROVE  Harmless'
<1>1. UNCHANGED <<scenario, outcome, evidence, populations>>
  BY ClaimStep
<1>2. CASE UNCHANGED <<parent, status, child>>
<2>1. \A u \in Universe : ChildOf(u)' = ChildOf(u)
  BY <1>2 DEF ChildOf
<2> QED BY <1>1, <1>2, <2>1 DEF Harmless, Clean, Reports, Excused, RunAt
<1>3. ASSUME NEW n \in Universe, n = parent.next,
             parent' = [parent EXCEPT !.next = @ + 1],
             status'[n] = w,
             \A u \in Universe : u # n => status'[u] = status[u],
             child'[ChildOf(n)] = [NoChild EXCEPT !.at = "forked", !.connected = TRUE],
             \A c \in Child : c # ChildOf(n) => child'[c] = child[c]
      PROVE  Harmless'
<2>1. parent'.run = parent.run /\ parent'.result = parent.result
  BY <1>3 DEF TypeOK
<2>2. w # "failed"
  BY PoolAssumption DEF Outcome
<2>3. child'[ChildOf(n)].at = "forked" /\ child'[ChildOf(n)].outbox = NoReport
      /\ child'[ChildOf(n)].code = 0
  BY <1>3, NoChildType DEF Process
<2>4. child[ChildOf(n)].at = "none"
  BY <1>3 DEF ToCome, TypeOK
<2>5. \A v \in Universe : ChildOf(v)' = ChildOf(v) /\ ChildOf(v) \in Child
                          /\ (v # n => ChildOf(v) # ChildOf(n))
  BY <2>1, Children DEF ChildOf
<2>6. \A b \in Child : b[1] < parent.run => b # ChildOf(n)
  BY Children
<2>7. ASSUME Clean
      PROVE  /\ parent'.result # "killed"
             /\ parent'.result = "failed" => \E v \in Universe : ~evidence[v].sound
             /\ \A b \in Child : b[1] < parent.run => child'[b].at = child[b].at
             /\ \A v \in Universe :
                  /\ status'[v] = "failed" => ~evidence[v].sound
                  /\ evidence[v].lease = "held" =>
                       child'[ChildOf(v)].at = child[ChildOf(v)].at
                  /\ Reports(v)'
<3>1. /\ parent'.result # "killed"
      /\ parent'.result = "failed" => \E v \in Universe : ~evidence[v].sound
  BY <2>1, <2>7 DEF Harmless
<3>2. \A b \in Child : b[1] < parent.run => child'[b].at = child[b].at
  BY <1>3, <2>6
<3>3. \A v \in Universe : status'[v] = "failed" => ~evidence[v].sound
  BY <1>3, <2>2, <2>7 DEF Harmless
<3>4. \A v \in Universe : evidence[v].lease = "held" =>
                       child'[ChildOf(v)].at = child[ChildOf(v)].at
  BY <1>3, <2>4, <2>5, <2>7 DEF Harmless
<3>5. ASSUME NEW v \in Universe
      PROVE  Reports(v)'
<4>1. CASE v = n
<5>1. child'[ChildOf(v)'].at = "forked" /\ child'[ChildOf(v)'].outbox = NoReport
      /\ child'[ChildOf(v)'].code = 0
  BY <2>3, <2>5, <4>1
<5> QED BY <5>1 DEF Reports
<4>2. CASE v # n
<5>1. child'[ChildOf(v)'] = child[ChildOf(v)] /\ outcome' = outcome
      /\ child'[ChildOf(v)] = child[ChildOf(v)] /\ ChildOf(v)' = ChildOf(v)
  BY <1>1, <1>3, <2>5, <4>2
<5>2. Reports(v)
  BY <2>7 DEF Harmless
<5> QED BY <1>1, <5>1, <5>2 DEF Reports, Excused, RunAt
<4> QED BY <4>1, <4>2
<3> QED BY <3>1, <3>2, <3>3, <3>4, <3>5
<2> QED BY <1>1, <2>1, <2>7, OthersHarmless
<1>4. PICK n : n = parent.next
  OBVIOUS
<1> QED BY <1>2, <1>3, <1>4, ClaimStep

(* nor an abort, *)
LEMMA AbortHarmless ==
    ASSUME TypeOK, Abort, Harmless
    PROVE  Harmless'
<1>1. /\ UNCHANGED <<scenario, worker, outcome, status, evidence, populations>>
      /\ \A c \in Child :
           /\ child'[c].at = child[c].at /\ child'[c].told = child[c].told
           /\ child'[c].outbox = child[c].outbox
           /\ child'[c].result = child[c].result /\ child'[c].code = child[c].code
           /\ \/ child'[c].inbox = child[c].inbox
              \/ child'[c].inbox = Append(child[c].inbox, "cancel")
  BY AbortStep
<1>2. parent'.run = parent.run /\ parent'.result = parent.result
  BY AbortStep DEF TypeOK
<1>3. \A v \in Universe : ChildOf(v)' = ChildOf(v) /\ ChildOf(v) \in Child
  BY <1>2, Children DEF ChildOf
<1>4. ASSUME Clean, NEW v \in Universe
      PROVE  Reports(v)'
<2>1. PICK c \in Child : c = ChildOf(v) /\ ChildOf(v)' = c
  BY <1>3
<2>2. \A i \in Nat : RunAt(c, i)' <=> RunAt(c, i)
  BY <1>1, RunAtAppend, RunOnceSame
<2>3. \A i \in Nat : RunAt(ChildOf(v), i)' <=> RunAt(ChildOf(v), i)
  BY <2>1, <2>2 DEF RunAt
<2>4. Reports(v)
  BY <1>4 DEF Harmless
<2> QED BY <1>1, <2>1, <2>3, <2>4 DEF Reports, Excused
<1> QED BY <1>1, <1>2, <1>3, <1>4, OthersHarmless DEF Harmless

(* nor a command that is given again, *)
LEMMA GiveAgainHarmless ==
    ASSUME TypeOK, GiveAgain, Accounted, ToCome, Harmless
    PROVE  Harmless'
<1>1. /\ TypeOK' /\ ~Running /\ parent' = NewParent(parent.run + 1)
      /\ UNCHANGED <<scenario, child, evidence, populations>>
      /\ \A u \in Universe : status'[u] = "pending" /\ outcome'[u] = "none"
  BY GiveAgainStep
<1>2. /\ parent'.run = parent.run + 1 /\ parent'.result = "none" /\ parent.run \in Nat
  BY <1>1, Children DEF NewParent
<1>3. \A u \in Universe : ChildOf(u)' \in Child /\ ChildOf(u)'[1] > parent.run
<2>1. parent'.run \in 1 .. Commands /\ parent'.run > parent.run
  BY <1>1, <1>2 DEF TypeOK
<2> QED BY <2>1 DEF ChildOf, Child
<1>4. \A u \in Universe : child'[ChildOf(u)'].at = "none"
  BY <1>1, <1>3 DEF ToCome
<1>5. ASSUME Clean
      PROVE  /\ \A c \in Child : c[1] < parent'.run => child'[c].at \in {"none", "reaped"}
             /\ \A u \in Universe : evidence'[u].lease \notin {"stale", "held"}
<2>1. \A u \in Universe : ~Awaited(u) /\ child[ChildOf(u)].at \in {"none", "reaped"}
  BY <1>1, <1>5 DEF Awaited, Accounted, Harmless
<2>2. ASSUME NEW c \in Child, c[1] < parent'.run
      PROVE  child'[c].at \in {"none", "reaped"}
<3>1. c[1] \in Nat /\ c[2] \in Universe
  BY Children
<3>2. c[1] < parent.run \/ c[1] = parent.run
  BY <1>2, <2>2, <3>1
<3>3. CASE c[1] = parent.run
  BY <1>1, <2>1, <3>1, <3>3, Children
<3>4. CASE c[1] < parent.run
  BY <1>1, <1>5, <3>4 DEF Harmless
<3> QED BY <3>2, <3>3, <3>4
<2>3. \A u \in Universe : evidence[u].lease # "held"
  BY <1>5, <2>1 DEF Harmless
<2> QED BY <1>1, <1>5, <2>2, <2>3 DEF Harmless
<1>6. \A u \in Universe : Reports(u)'
  BY <1>4 DEF Reports
<1>7. Clean' <=> Clean
  BY <1>1 DEF Clean
<1>8. parent.run > 1 => parent'.run > 1
  BY <1>2
<1> QED BY <1>1, <1>2, <1>5, <1>6, <1>7, <1>8 DEF Harmless

(* nor the publication, *)
LEMMA WritesHarmless ==
    ASSUME TypeOK, Writes, Harmless
    PROVE  Harmless'
<1>1. /\ UNCHANGED <<scenario, worker, outcome, status, child, evidence>>
      /\ parent'.run = parent.run /\ parent'.result # "killed"
      /\ parent'.result = "failed" => left.errors > 0 \/ Verdict = "failed"
  BY DEF Writes
<1>2. Clean /\ parent'.result = "failed" => \E u \in Universe : ~evidence[u].sound
<2>1. SUFFICES ASSUME Clean, Verdict = "failed" PROVE \E u \in Universe : ~evidence[u].sound
  BY <1>1, CleanLeft
<2>2. PICK u \in Universe : status[u] = "failed"
  BY <2>1 DEF Verdict
<2> QED BY <2>1, <2>2 DEF Harmless
<1>3. \A u \in Universe : ChildOf(u)' = ChildOf(u)
  BY <1>1 DEF ChildOf
<1>4. Clean => \A u \in Universe : Reports(u)'
  BY <1>1, <1>3 DEF Reports, Excused, RunAt, Harmless
<1> QED BY <1>1, <1>2, <1>4, OthersHarmless DEF Harmless

(* nor the removal of what is stale. *)
LEMMA RemoveHarmless ==
    ASSUME TypeOK, NEW u \in Universe, RemoveStaleLease(u), Harmless
    PROVE  Harmless'
<1>1. evidence[u].lease = "stale" /\ UNCHANGED scenario
  BY RemoveStaleLeaseStep
<1>2. ~Clean
  BY <1>1 DEF Harmless
<1> QED BY <1>1, <1>2 DEF Harmless, Clean

-----------------------------------------------------------------------------
(* An abort reaches the processes. *)
Reached(c) == child[c].told = "sent" /\ child[c].at \in {"forked", "running"} => Cancelled(child[c])

(* What has reached a process stays with it. *)
LEMMA ReachedKept ==
    ASSUME TypeOK, AbortReachesChildren, UNCHANGED <<parent, status>>,
           \A c \in Child : child'[c] = child[c] \/ (Reached(c) => Reached(c)')
    PROVE  AbortReachesChildren'
<1>1. \A u \in Universe : ChildOf(u)' = ChildOf(u) /\ ChildOf(u) \in Child
                          /\ (Awaited(u)' <=> Awaited(u))
  BY Children DEF ChildOf, Awaited, Running
<1>2. ASSUME Running', parent'.aborted, NEW u \in Universe, Awaited(u)'
      PROVE  child'[ChildOf(u)'].told = "sent" /\ child'[ChildOf(u)'].at \in {"forked", "running"}
                => Cancelled(child'[ChildOf(u)'])
<2>1. PICK c \in Child : c = ChildOf(u) /\ c = ChildOf(u)'
  BY <1>1
<2>2. Reached(c)
  BY <1>1, <1>2, <2>1 DEF AbortReachesChildren, Reached, Running
<2>3. Reached(c)'
<3>1. CASE child'[c] = child[c]
  BY <2>2, <3>1 DEF Reached, Cancelled
<3>2. CASE Reached(c) => Reached(c)'
  BY <2>2, <3>2
<3> QED BY <3>1, <3>2
<2>4. child'[c].told = "sent" /\ child'[c].at \in {"forked", "running"} => Cancelled(child'[c])
  BY <2>3 DEF Reached, Cancelled
<2> QED BY <2>1, <2>4
<1> QED BY <1>2 DEF AbortReachesChildren

(* A process that takes a cancellation is aborted. *)
LEMMA HearReached ==
    ASSUME TypeOK, NEW c \in Child, Hear(c), RunOnce(c), Reached(c)
    PROVE  Reached(c)'
<1> SUFFICES ASSUME child'[c].told = "sent", child'[c].at \in {"forked", "running"}
             PROVE  Cancelled(child'[c])
  BY DEF Reached, Cancelled
<1> DEFINE s == child[c].inbox
<1>1. s \in Seq({"run", "cancel"})
  BY DEF TypeOK, Process
<1>2. s # <<>> /\ child'[c].inbox = Tail(s) /\ child'[c].told = child[c].told
  BY HearCancelStep, HearRunStep
<1>3. /\ Len(s) \in Nat \ {0} /\ Len(Tail(s)) = Len(s) - 1
      /\ \A i \in 1 .. Len(s) - 1 : Tail(s)[i] = s[i + 1]
      /\ Head(s) = s[1] /\ Head(s) \in {"run", "cancel"}
  BY <1>1, <1>2, Taking
<1> HIDE DEF s
<1>4. ASSUME NEW i \in 2 .. Len(s)
      PROVE  i - 1 \in 1 .. Len(Tail(s)) /\ Tail(s)[i - 1] = s[i]
<2>1. i - 1 \in 1 .. Len(s) - 1 /\ (i - 1) + 1 = i
  BY <1>3
<2> QED BY <1>3, <2>1
<1>5. CASE Head(child[c].inbox) = "cancel"
<2>1. /\ child'[c].at = child[c].at
      /\ child[c].aborted \/ child[c].at = "running" => child'[c].aborted
  BY <1>5, HearCancelStep
<2>2. CASE child'[c].aborted
  BY <2>2 DEF Cancelled
<2>3. CASE ~child'[c].aborted
<3>1. child[c].at = "forked" /\ Cancelled(child[c]) /\ ~child[c].aborted
  BY <1>2, <2>1, <2>3 DEF Reached
<3>2. PICK i \in 1 .. Len(s) : s[i] = "cancel" /\ \E j \in 1 .. i - 1 : s[j] = "run"
  BY <3>1 DEF Cancelled, s
<3>3. PICK j \in 1 .. i - 1 : s[j] = "run"
  BY <3>2
<3>4. j # 1
  BY <1>3, <1>5, <3>3 DEF s
<3>5. i \in 2 .. Len(s) /\ j \in 2 .. Len(s) /\ i - 1 \in 1 .. Len(Tail(s))
      /\ j - 1 \in 1 .. (i - 1) - 1
  BY <1>3, <3>4
<3>6. Tail(s)[i - 1] = "cancel" /\ Tail(s)[j - 1] = "run"
  BY <1>4, <3>2, <3>3, <3>5
<3> QED BY <1>2, <3>5, <3>6 DEF Cancelled
<2> QED BY <2>2, <2>3
<1>6. CASE Head(child[c].inbox) # "cancel"
<2>1. /\ child'[c].at = "running" /\ child'[c].aborted = child[c].aborted
  BY <1>6, HearRunStep
<2>2. s[1] = "run"
  BY <1>3, <1>6 DEF s
<2>3. child[c].at = "forked"
<3>1. RunAt(c, 1)
  BY <1>3, <2>2 DEF RunAt, s
<3>2. child[c].at \in {"forked", "running", "reporting"}
  BY DEF Hear
<3> QED BY <3>1, <3>2 DEF RunOnce
<2>4. Cancelled(child[c])
  BY <1>2, <2>3 DEF Reached
<2>5. CASE child[c].aborted
  BY <2>1, <2>5 DEF Cancelled
<2>6. CASE ~child[c].aborted
<3>1. PICK i \in 1 .. Len(s) : s[i] = "cancel"
  BY <2>4, <2>6 DEF Cancelled, s
<3>2. i \in 2 .. Len(s)
  BY <1>3, <2>2, <3>1
<3> QED BY <1>2, <1>4, <2>1, <3>1, <3>2 DEF Cancelled
<2> QED BY <2>5, <2>6
<1> QED BY <1>5, <1>6

(* A process that goes on keeps what has reached it. *)
LEMMA ProceedsReached ==
    ASSUME TypeOK, NEW c \in Child, RunOnce(c), AbortReachesChildren,
           Hear(c) \/ Advance(c) \/ Throw(c) \/ Report(c) \/ Leave(c) \/ KillChild(c)
    PROVE  AbortReachesChildren'
<1>1. Proceeds(c)
  BY HearCancelStep, HearRunStep, AdvanceStep, ThrowStep, ReportStep, LeaveStep, KillChildStep
<1>2. Reached(c) => Reached(c)'
<2>1. CASE Hear(c)
  BY <2>1, HearReached
<2>2. CASE Advance(c)
<3>1. /\ child[c].at = "running" /\ child'[c].inbox = child[c].inbox
      /\ child'[c].told = child[c].told /\ child'[c].aborted = child[c].aborted
  BY <2>2, AdvanceStep
<3>2. child'[c].at \in {"running", "reporting"}
  BY <2>2, AdvanceStep
<3> QED BY <3>1, <3>2 DEF Reached, Cancelled
<2>3. CASE Throw(c) \/ Report(c) \/ Leave(c) \/ KillChild(c)
<3>1. child'[c].at \in {"reporting", "leaving", "exited"}
<4>1. CASE Report(c)
<5>1. CASE child[c].connected
  BY <4>1, <5>1, ReportStep
<5>2. CASE ~child[c].connected
  BY <4>1, <5>2, ReportStep, NoChildType DEF Process
<5> QED BY <5>1, <5>2
<4>2. CASE ~Report(c)
  BY <2>3, <4>2, ThrowStep, LeaveStep, KillChildStep
<4> QED BY <4>1, <4>2
<3> QED BY <3>1 DEF Reached
<2> QED BY <2>1, <2>2, <2>3
<1> QED BY <1>1, <1>2, ReachedKept DEF Proceeds

(* A cancel at the end of an inbox reaches a process that has `run` in it. *)
LEMMA CancelAppended ==
    ASSUME TypeOK, NEW c \in Child, RunOnce(c), child[c].told # "nothing",
           child'[c].inbox = Append(child[c].inbox, "cancel"), child'[c].at = child[c].at,
           child[c].at \in {"forked", "running"}
    PROVE  Cancelled(child'[c])
<1> DEFINE s == child[c].inbox
           m == "cancel"
<1>1. s \in Seq({"run", "cancel"})
  BY DEF TypeOK, Process
<1>2. /\ Len(s) \in Nat /\ Len(Append(s, m)) = Len(s) + 1
      /\ \A i \in 1 .. Len(s) : Append(s, m)[i] = s[i]
      /\ Append(s, m)[Len(s) + 1] = m
  BY <1>1, Sending
<1>3. child'[c].inbox = Append(s, m)
  OBVIOUS
<1> DEFINE n == Len(s) + 1
<1>4. n \in 1 .. Len(Append(s, m)) /\ Append(s, m)[n] = "cancel" /\ n - 1 = Len(s)
  BY <1>2
<1>5. child[c].at = "forked" => \E j \in 1 .. n - 1 : Append(s, m)[j] = "run"
<2>1. ASSUME child[c].at = "forked"
      PROVE  \E j \in 1 .. n - 1 : Append(s, m)[j] = "run"
<3>1. PICK j \in Nat : RunAt(c, j)
  BY <2>1 DEF RunOnce
<3>2. j \in 1 .. Len(s) /\ s[j] = "run"
  BY <3>1 DEF RunAt
<3> QED BY <1>2, <1>4, <3>2
<2> QED BY <2>1
<1> HIDE DEF n, m
<1> QED BY <1>3, <1>4, <1>5 DEF Cancelled

(* A message reaches it. *)
LEMMA TellsReached ==
    ASSUME TypeOK, NEW u \in Universe, NEW c \in Child, c = ChildOf(u), Connected,
           Spawned(u) \/ Sent(u) \/ Message(u), RunOnce(c), AbortReachesChildren
    PROVE  AbortReachesChildren'
<1>1. Tells(u)
  BY SpawnedStep, SentStep, MessageStep
<1>2. /\ UNCHANGED <<parent, status>> /\ Awaited(u)
      /\ \A b \in Child : b # c => child'[b] = child[b]
      /\ child'[c].at = child[c].at /\ child'[c].aborted = child[c].aborted
  BY <1>1 DEF Tells
<1>3. CASE ~parent.aborted
  BY <1>2, <1>3 DEF AbortReachesChildren
<1>4. CASE parent.aborted
<2>1. Reached(c) => Reached(c)'
<3>1. CASE Spawned(u)
  BY <3>1, SpawnedStep DEF Reached
<3>2. CASE Sent(u)
<4>1. SUFFICES ASSUME child[c].at \in {"forked", "running"}
               PROVE  Cancelled(child'[c])
  BY <1>2 DEF Reached, Cancelled
<4>2. child[c].connected
  BY <1>2, <4>1 DEF Connected, Awaited
<4>3. child[c].told = "sending" /\ child'[c].inbox = Append(child[c].inbox, "cancel")
  BY <1>4, <3>2, <4>2, SentStep
<4> QED BY <1>2, <4>1, <4>3, CancelAppended
<3>3. CASE Message(u)
<4>1. child'[c].told = child[c].told /\ child'[c].inbox = child[c].inbox
  BY <3>3, MessageStep
<4> QED BY <1>2, <4>1 DEF Reached, Cancelled
<3> QED BY <3>1, <3>2, <3>3
<2> QED BY <1>2, <2>1, ReachedKept
<1> QED BY <1>3, <1>4

(* A process that has ended need not be reached. *)
LEMMA EndsReached ==
    ASSUME TypeOK, NEW u \in Universe, NEW result \in {"summary", "paused", "failed"},
           Ends(u, result), AbortReachesChildren
    PROVE  AbortReachesChildren'
<1>1. /\ UNCHANGED parent /\ child'[ChildOf(u)] = Reaped
      /\ \A b \in Child : b # ChildOf(u) => child'[b] = child[b]
      /\ \A v \in Universe : v # u => status'[v] = status[v]
  BY DEF Ends
<1>2. \A v \in Universe : ChildOf(v)' = ChildOf(v) /\ ChildOf(v) \in Child
                          /\ (v # u => ChildOf(v) # ChildOf(u))
  BY <1>1, Children DEF ChildOf
<1>3. ASSUME NEW v \in Universe, Running', parent'.aborted, Awaited(v)'
      PROVE  child'[ChildOf(v)'].told = "sent" /\ child'[ChildOf(v)'].at \in {"forked", "running"}
                => Cancelled(child'[ChildOf(v)'])
<2>1. CASE v = u
  BY <1>1, <1>2, <2>1, ReapedType
<2>2. CASE v # u
<3>1. child'[ChildOf(v)'] = child[ChildOf(v)] /\ Awaited(v) /\ Running /\ parent.aborted
  BY <1>1, <1>2, <1>3, <2>2 DEF Awaited, Running
<3>2. child[ChildOf(v)].told = "sent" /\ child[ChildOf(v)].at \in {"forked", "running"}
                => Cancelled(child[ChildOf(v)])
  BY <3>1 DEF AbortReachesChildren
<3> QED BY <3>1, <3>2
<2> QED BY <2>1, <2>2
<1> QED BY <1>3 DEF AbortReachesChildren

(* An abort of the command is sent to whoever was told to run. *)
LEMMA CommandReached ==
    ASSUME TypeOK, AbortReachesChildren, \A c \in Child : RunOnce(c), Connected,
           Abort \/ KillParent \/ GiveAgain \/ \E w \in Worker : Claim(w)
    PROVE  AbortReachesChildren'
<1>1. CASE KillParent
  BY <1>1, KillParentStep DEF AbortReachesChildren, Running, TypeOK
<1>2. CASE GiveAgain
  BY <1>2, GiveAgainStep DEF AbortReachesChildren, NewParent
<1>3. ASSUME NEW w \in Worker, Claim(w)
      PROVE  AbortReachesChildren'
<2>1. CASE UNCHANGED <<parent, status, child>>
<3>1. \A u \in Universe : ChildOf(u)' = ChildOf(u)
  BY <2>1 DEF ChildOf
<3> QED BY <2>1, <3>1 DEF AbortReachesChildren, Awaited, Running, Cancelled
<2>2. CASE ~parent.aborted /\ parent' = [parent EXCEPT !.next = @ + 1]
<3>1. ~parent'.aborted
  BY <2>2 DEF TypeOK
<3> QED BY <3>1 DEF AbortReachesChildren
<2> QED BY <1>3, <2>1, <2>2, ClaimStep
<1>4. CASE Abort
<2>1. /\ Running /\ parent'.run = parent.run /\ UNCHANGED status
      /\ \A c \in Child : child'[c].at = child[c].at /\ child'[c].told = child[c].told
      /\ \A u \in Universe : Awaited(u) /\ child[ChildOf(u)].connected =>
           child'[ChildOf(u)].inbox = Append(child[ChildOf(u)].inbox, "cancel")
  BY <1>4, AbortStep DEF TypeOK
<2>2. \A v \in Universe : ChildOf(v)' = ChildOf(v) /\ ChildOf(v) \in Child
  BY <2>1, Children DEF ChildOf
<2>3. ASSUME NEW v \in Universe, Awaited(v)',
             child'[ChildOf(v)'].told = "sent", child'[ChildOf(v)'].at \in {"forked", "running"}
      PROVE  Cancelled(child'[ChildOf(v)'])
<3>1. PICK c \in Child : c = ChildOf(v) /\ c = ChildOf(v)'
  BY <2>2
<3>2. Awaited(v)
  BY <2>1, <2>3 DEF Awaited
<3>3. child[c].told = "sent" /\ child[c].at \in {"forked", "running"}
  BY <2>1, <2>3, <3>1
<3>4. child[c].connected
  BY <2>1, <3>1, <3>3 DEF Connected
<3>5. child'[c].inbox = Append(child[c].inbox, "cancel") /\ child'[c].at = child[c].at
  BY <2>1, <3>1, <3>2, <3>4
<3>6. RunOnce(c)
  OBVIOUS
<3> QED BY <3>1, <3>3, <3>5, <3>6, CancelAppended
<2> QED BY <2>3 DEF AbortReachesChildren
<1> QED BY <1>1, <1>2, <1>3, <1>4

(* Other steps send and take nothing. *)
LEMMA QuietReached ==
    ASSUME TypeOK, AbortReachesChildren, UNCHANGED <<child, status>>,
           parent'.run = parent.run, parent'.aborted = parent.aborted, Running' => Running
    PROVE  AbortReachesChildren'
<1>1. \A u \in Universe : ChildOf(u)' = ChildOf(u)
  BY DEF ChildOf
<1> QED BY <1>1 DEF AbortReachesChildren, Awaited, Cancelled

-----------------------------------------------------------------------------
(* The theorems. *)
LEMMA InitInv == Init => PopulationInv
<1> SUFFICES ASSUME Init PROVE PopulationInv
  OBVIOUS
<1>1. /\ scenario \in Scenarios /\ parent = NewParent(1) /\ worker = NewPool
      /\ left = [kills |-> scenario.kills, errors |-> scenario.errors, aborts |-> scenario.aborts]
      /\ status = [u \in Universe |-> "pending"] /\ outcome = [u \in Universe |-> "none"]
      /\ child = [c \in Child |-> NoChild] /\ evidence = [u \in Universe |-> NoEvidence]
      /\ populations = NoPopulation
  BY DEF Init
<1>2. /\ scenario.pool \subseteq Worker /\ scenario.universes \in Nat /\ Commands \in Nat \ {0}
      /\ scenario.kills \in Nat /\ scenario.errors \in Nat /\ scenario.aborts \in Nat
      /\ "pending" \notin Worker
  BY <1>1, PoolAssumption DEF Universe, Outcome
<1>3. /\ parent.run = 1 /\ parent.next = 1 /\ ~parent.aborted /\ parent.step = "pool"
      /\ parent.result = "none"
  BY <1>1 DEF NewParent
<1>4. TypeOK
<2>1. worker \in [Worker -> {"free", "waits", "stopped"}]
  BY <1>1 DEF NewPool
<2>2. left \in [kills : 0 .. scenario.kills, errors : 0 .. scenario.errors,
                aborts : 0 .. scenario.aborts]
  BY <1>1, <1>2
<2>3. parent \in [run : 1 .. Commands, next : 1 .. scenario.universes + 1,
                  aborted : BOOLEAN,
                  step : {"pool", "existing", "temporary", "link", "unlink"},
                  result : {"none", "published", "paused", "failed", "killed"}]
  BY <1>1, <1>2 DEF NewParent
<2>4. child \in [Child -> Process]
  BY <1>1, NoChildType
<2>5. evidence \in [Universe -> [ticks : Nat, published : BOOLEAN, sound : BOOLEAN,
                                 lease : {"free", "held", "stale"}]]
  BY <1>1 DEF NoEvidence
<2>6. populations \in [written : BOOLEAN, temporary : SUBSET (1 .. Commands)]
  BY <1>1 DEF NoPopulation
<2>7. outcome \in [Universe -> Outcome]
        /\ status \in [Universe -> Worker \union {"pending", "summary", "paused", "failed"}]
  BY <1>1 DEF Outcome
<2> QED BY <1>1, <2>1, <2>2, <2>3, <2>4, <2>5, <2>6, <2>7 DEF TypeOK
<1>5. \A u \in Universe : ChildOf(u) \in Child
  BY <1>4, Children
<1>6. \A c \in Child : child[c] = NoChild
  BY <1>1
<1>7. \A u \in Universe : child[ChildOf(u)].at = "none" /\ status[u] = "pending"
                          /\ outcome[u] = "none" /\ evidence[u] = NoEvidence
  BY <1>1, <1>5, <1>6, NoChildType
<1>8. Waiting
  BY <1>2, <1>7 DEF Waiting
<1>9. Accounted
  BY <1>2, <1>7 DEF Accounted, Awaited
<1>10. ToCome
<2>1. \A u \in Universe : ~(u < 1)
  BY DEF Universe
<2> QED BY <1>3, <1>6, <1>7, <2>1, NoChildType DEF ToCome
<1>11. Stopped
  BY <1>1, <1>2, <1>3 DEF Stopped, NewPool
<1>12. Truthful
  BY <1>1, <1>3, <1>6, <1>7, NoChildType DEF Truthful, NoPopulation
<1>13. Tidy
  BY <1>1, <1>3 DEF Tidy, NoPopulation
<1>14. \A c \in Child : RunOnce(c)
<2>1. \A c \in Child, i \in Nat : ~RunAt(c, i)
  BY <1>6, NoChildType DEF RunAt
<2> QED BY <1>6, <2>1, NoChildType DEF RunOnce
<1>15. Connected
  BY <1>7 DEF Connected
<1>16. Harmless
<2>1. \A u \in Universe : Reports(u)
  BY <1>7 DEF Reports
<2> QED BY <1>3, <1>6, <1>7, <2>1, NoChildType DEF Harmless, NoEvidence
<1>17. AbortReachesChildren
  BY <1>3 DEF AbortReachesChildren
<1>18. Sighted
  BY <1>6, <1>7, NoChildType DEF Sighted, NoEvidence
<1> QED BY <1>18, <1>4, <1>8, <1>9, <1>10, <1>11, <1>12, <1>13, <1>14, <1>15, <1>16, <1>17
        DEF PopulationInv

(* A step of a process, *)
LEMMA ProceedsInv ==
    ASSUME PopulationInv, NEW c \in Child,
           Hear(c) \/ Advance(c) \/ Throw(c) \/ Report(c) \/ Leave(c) \/ KillChild(c)
    PROVE  PopulationInv'
<1>1. /\ TypeOK /\ Waiting /\ Accounted /\ ToCome /\ Stopped /\ Truthful /\ Tidy
      /\ (\A b \in Child : RunOnce(b)) /\ Connected /\ Sighted /\ Harmless
      /\ AbortReachesChildren
  BY DEF PopulationInv
<1>2. TypeOK' /\ Proceeds(c)
  BY <1>1, HearCancelStep, HearRunStep, AdvanceStep, ThrowStep, ReportStep, LeaveStep,
     KillChildStep
<1>3. Waiting' /\ Accounted' /\ ToCome' /\ Stopped' /\ Tidy'
  BY <1>1, <1>2, ProceedsStill, StillKeeps
<1>4. Truthful'
<2>1. c[2] \in Universe
  BY <1>1, Children
<2>2. /\ child[c].result = "summary" => evidence'[c[2]].published
      /\ child[c].outbox.type = "summary" => evidence'[c[2]].published
  BY <1>1, <1>2, <2>1 DEF Truthful, Proceeds
<2>3. /\ child'[c].result = "summary" => evidence'[c[2]].published
      /\ child'[c].outbox.type = "summary" => evidence'[c[2]].published
<3>1. CASE Hear(c)
<4>1. CASE Head(child[c].inbox) = "cancel"
  BY <1>1, <2>2, <3>1, <4>1, HearCancelStep
<4>2. CASE Head(child[c].inbox) # "cancel"
<5>1. /\ child'[c].outbox = child[c].outbox
      /\ evidence'[c[2]].published = evidence[c[2]].published
      /\ child'[c].result = child[c].result \/ child'[c].result = "error"
           \/ evidence[c[2]].published
  BY <1>1, <3>1, <4>2, HearRunStep
<5> QED BY <2>2, <5>1
<4> QED BY <4>1, <4>2
<3>2. CASE Advance(c)
  BY <1>1, <2>2, <3>2, AdvanceStep
<3>3. CASE Throw(c) \/ Leave(c) \/ KillChild(c)
  BY <1>1, <2>2, <3>3, ThrowStep, LeaveStep, KillChildStep
<3>4. CASE Report(c)
<4>1. CASE child[c].connected
<5>1. /\ child'[c].outbox = [type |-> child[c].result, universe |-> c[2]]
      /\ child'[c].result = child[c].result
  BY <1>1, <3>4, <4>1, ReportStep
<5> QED BY <2>2, <5>1
<4>2. CASE ~child[c].connected
<5>1. child'[c] = [NoChild EXCEPT !.at = "exited", !.code = 1]
  BY <1>1, <3>4, <4>2, ReportStep
<5>2. child'[c].result = "none" /\ child'[c].outbox.type = "none"
  BY <5>1, NoChildType DEF Process
<5> QED BY <5>2
<4> QED BY <4>1, <4>2
<3> QED BY <3>1, <3>2, <3>3, <3>4
<2> QED BY <1>1, <1>2, <2>3, ProceedsTruthful
<1>5. \A b \in Child : RunOnce(b)'
<2>1. RunOnce(c)'
  BY <1>1, HearRunOnce, ProceedsRunOnce
<2>2. ASSUME NEW b \in Child, b # c
      PROVE  RunOnce(b)'
<3>1. child'[b] = child[b] /\ RunOnce(b)
  BY <1>1, <1>2, <2>2 DEF Proceeds
<3> QED BY <3>1 DEF RunOnce, RunAt
<2> QED BY <2>1, <2>2
<1>6. Connected'
  BY <1>1, ProceedsConnected
<1>7. Harmless'
<2>1. CASE Throw(c) \/ KillChild(c)
  BY <1>1, <1>2, <2>1, ThrowStep, KillChildStep, FaultHarmless DEF Proceeds
<2> QED BY <1>1, <2>1, HearHarmless, AdvanceHarmless, ReportHarmless, LeaveHarmless
<1>8. AbortReachesChildren'
  BY <1>1, ProceedsReached
<1>9. Sighted'
<2>1. child'[c].blind => \/ child[c].blind
                         \/ /\ scenario.open /\ evidence[c[2]].ticks > 0
                            /\ child[c].at = "forked"
<3>1. CASE Hear(c)
  BY <1>1, <3>1, HearCancelStep, HearRunStep, HearIsFirst
<3>2. CASE ~Hear(c)
  BY <1>1, <3>2, AdvanceStep, ThrowStep, ReportStep, LeaveStep, KillChildStep
<3> QED BY <3>1, <3>2
<2> QED BY <1>1, <1>2, <2>1, ProceedsSighted
<1> QED BY <1>2, <1>3, <1>4, <1>5, <1>6, <1>7, <1>8, <1>9 DEF PopulationInv

(* a step of the command for a universe it awaits, *)
LEMMA TellsInv ==
    ASSUME PopulationInv, NEW u \in Universe, Spawned(u) \/ Sent(u) \/ Message(u)
    PROVE  PopulationInv'
<1>1. /\ TypeOK /\ Waiting /\ Accounted /\ ToCome /\ Stopped /\ Truthful /\ Tidy
      /\ (\A b \in Child : RunOnce(b)) /\ Connected /\ Sighted /\ Harmless
      /\ AbortReachesChildren
  BY DEF PopulationInv
<1>2. PICK c \in Child : c = ChildOf(u)
  BY <1>1, Children
<1>3. TypeOK' /\ Tells(u)
  BY <1>1, SpawnedStep, SentStep, MessageStep
<1>4. Waiting' /\ Accounted' /\ ToCome' /\ Stopped' /\ Tidy'
  BY <1>1, <1>3, TellsStill, StillKeeps
<1>5. Truthful'
  BY <1>1, TellsTruthful
<1>6. \A b \in Child : RunOnce(b)'
<2>1. RunOnce(c)'
  BY <1>1, <1>2, TellsRunOnce
<2>2. ASSUME NEW b \in Child, b # c
      PROVE  RunOnce(b)'
<3>1. child'[b] = child[b] /\ RunOnce(b)
  BY <1>1, <1>2, <1>3, <2>2 DEF Tells
<3> QED BY <3>1 DEF RunOnce, RunAt
<2> QED BY <2>1, <2>2
<1>7. Connected'
  BY <1>1, <1>3, UniverseConnected
<1>8. Harmless'
  BY <1>1, <1>2, TellsHarmless
<1>9. AbortReachesChildren'
  BY <1>1, <1>2, TellsReached
<1>10. Sighted'
  BY <1>1, <1>3, UniverseSighted
<1> QED BY <1>3, <1>4, <1>5, <1>6, <1>7, <1>8, <1>9, <1>10 DEF PopulationInv

(* one that ends it, *)
LEMMA EndsInv ==
    ASSUME PopulationInv, NEW u \in Universe, Exit(u) \/ SpawnFails(u) \/ SendFails(u)
    PROVE  PopulationInv'
<1>1. /\ TypeOK /\ Waiting /\ Accounted /\ ToCome /\ Stopped /\ Truthful /\ Tidy
      /\ (\A b \in Child : RunOnce(b)) /\ Connected /\ Sighted /\ Harmless
      /\ AbortReachesChildren
  BY DEF PopulationInv
<1> DEFINE r == IF Exit(u) THEN Resolution(u) ELSE "failed"
<1>2. /\ TypeOK' /\ Ends(u, r) /\ r \in {"summary", "paused", "failed"}
      /\ r = "summary" => outcome[u] = "summary"
<2>1. CASE Exit(u)
  BY <1>1, <2>1, ExitStep
<2>2. CASE ~Exit(u)
<3>1. TypeOK' /\ Ends(u, "failed")
  BY <1>1, <2>2, FailsStep
<3>2. r = "failed"
  BY <2>2
<3> QED BY <3>1, <3>2
<2> QED BY <2>1, <2>2
<1> HIDE DEF r
<1>3. Waiting' /\ Accounted' /\ ToCome' /\ Stopped' /\ Tidy'
  BY <1>1, <1>2, EndsKeeps
<1>4. Truthful'
  BY <1>1, <1>2, EndsTruthful
<1>5. \A b \in Child : RunOnce(b)'
<2>1. ASSUME NEW b \in Child
      PROVE  RunOnce(b)'
<3>1. CASE b = ChildOf(u)
  BY <1>2, <3>1, EndsRunOnce DEF Ends
<3>2. CASE b # ChildOf(u)
<4>1. child'[b] = child[b] /\ RunOnce(b)
  BY <1>1, <1>2, <3>2 DEF Ends
<4> QED BY <4>1 DEF RunOnce, RunAt
<3> QED BY <3>1, <3>2
<2> QED BY <2>1
<1>6. Connected'
  BY <1>1, <1>2, UniverseConnected
<1>7. Harmless'
  BY <1>1, ExitHarmless
<1>8. AbortReachesChildren'
  BY <1>1, <1>2, EndsReached
<1>9. Sighted'
  BY <1>1, <1>2, UniverseSighted
<1> QED BY <1>2, <1>3, <1>4, <1>5, <1>6, <1>7, <1>8, <1>9 DEF PopulationInv

(* a step of the command as a whole, *)
LEMMA CommandInv ==
    ASSUME PopulationInv, Abort \/ KillParent \/ GiveAgain \/ \E w \in Worker : Claim(w)
    PROVE  PopulationInv'
<1>1. /\ TypeOK /\ Waiting /\ Accounted /\ ToCome /\ Stopped /\ Truthful /\ Tidy
      /\ (\A b \in Child : RunOnce(b)) /\ Connected /\ Sighted /\ Harmless
      /\ AbortReachesChildren
  BY DEF PopulationInv
<1>2. TypeOK'
  BY <1>1, AbortStep, KillParentStep, GiveAgainStep, ClaimStep
<1>3. Waiting' /\ Accounted' /\ ToCome' /\ Stopped' /\ Tidy'
  BY <1>1, AbortKeeps, KillParentKeeps, GiveAgainKeeps, ClaimKeeps
<1>4. Truthful'
  BY <1>1, CommandTruthful, ClaimTruthful
<1>5. \A b \in Child : RunOnce(b)'
  BY <1>1, CommandRunOnce
<1>6. Connected'
  BY <1>1, CommandConnected
<1>7. Harmless'
<2>1. CASE KillParent
  BY <1>1, <2>1, KillParentStep, FaultHarmless
<2> QED BY <1>1, <2>1, AbortHarmless, GiveAgainHarmless, ClaimHarmless
<1>8. AbortReachesChildren'
  BY <1>1, CommandReached
<1>9. Sighted'
  BY <1>1, CommandSighted
<1> QED BY <1>2, <1>3, <1>4, <1>5, <1>6, <1>7, <1>8, <1>9 DEF PopulationInv

(* and those that leave the processes alone. *)
LEMMA QuietInv ==
    ASSUME PopulationInv, WritesSummary \/ \E u \in Universe : RemoveStaleLease(u)
    PROVE  PopulationInv'
<1>1. /\ TypeOK /\ Waiting /\ Accounted /\ ToCome /\ Stopped /\ Truthful /\ Tidy
      /\ (\A b \in Child : RunOnce(b)) /\ Connected /\ Sighted /\ Harmless
      /\ AbortReachesChildren
  BY DEF PopulationInv
<1>2. CASE WritesSummary
<2>1. TypeOK' /\ Writes /\ Tidy'
  BY <1>1, <1>2, WritesStep
<2>2. Waiting' /\ Accounted' /\ ToCome' /\ Stopped'
  BY <1>1, <2>1, WritesKeeps
<2>3. Truthful'
  BY <1>1, <2>1, WritesTruthful
<2>4. \A b \in Child : RunOnce(b)'
  BY <1>1, <2>1 DEF Writes, RunOnce, RunAt
<2>5. /\ UNCHANGED <<child, status>> /\ Running
      /\ parent'.run = parent.run /\ parent'.aborted = parent.aborted
  BY <2>1 DEF Writes
<2>6. \A u \in Universe : ChildOf(u)' = ChildOf(u)
  BY <2>5 DEF ChildOf
<2>7. Connected'
  BY <1>1, <2>5, <2>6 DEF Connected
<2>8. Harmless'
  BY <1>1, <2>1, WritesHarmless
<2>9. AbortReachesChildren'
  BY <1>1, <2>5, QuietReached
<2>10. Sighted'
  BY <1>1, <2>1, <2>6 DEF Sighted, Writes
<2> QED BY <2>1, <2>2, <2>3, <2>4, <2>7, <2>8, <2>9, <2>10 DEF PopulationInv
<1>3. ASSUME NEW u \in Universe, RemoveStaleLease(u)
      PROVE  PopulationInv'
<2>1. /\ TypeOK'
      /\ UNCHANGED <<scenario, parent, worker, outcome, status, child, populations>>
      /\ \A v \in Universe : /\ evidence'[v].published = evidence[v].published
                            /\ evidence'[v].ticks = evidence[v].ticks
  BY <1>1, <1>3, RemoveStaleLeaseStep
<2>2. Waiting' /\ Accounted' /\ ToCome' /\ Stopped' /\ Tidy'
  BY <1>1, <2>1, StillKeeps DEF Still, Gone
<2>3. Truthful'
<3>1. 1 .. scenario.universes \subseteq Universe
  BY <1>1, PoolAssumption DEF TypeOK, Universe
<3>2. \A c \in Child : c[2] \in Universe
  BY <1>1, Children
<3> QED BY <1>1, <2>1, <3>1, <3>2 DEF Truthful
<2>4. \A b \in Child : RunOnce(b)'
  BY <1>1, <2>1 DEF RunOnce, RunAt
<2>5. Connected'
  BY <1>1, <2>1 DEF Connected, Running, ChildOf
<2>6. Harmless'
  BY <1>1, <1>3, RemoveHarmless
<2>7. AbortReachesChildren'
  BY <1>1, <2>1, QuietReached DEF Running
<2>8. Sighted'
  BY <1>1, <2>1, OthersSighted
<2> QED BY <2>1, <2>2, <2>3, <2>4, <2>5, <2>6, <2>7, <2>8 DEF PopulationInv
<1> QED BY <1>2, <1>3

(* Every step keeps the invariant. *)
LEMMA NextInv == PopulationInv /\ [Next]_vars => PopulationInv'
<1> SUFFICES ASSUME PopulationInv, [Next]_vars PROVE PopulationInv'
  OBVIOUS
<1>1. CASE Next
<2>1. CASE Work
  BY <2>1, ProceedsInv, TellsInv, EndsInv, CommandInv, QuietInv DEF Work, WritesSummary
<2>2. CASE Fail
  BY <2>2, ProceedsInv, EndsInv, CommandInv, QuietInv DEF Fail, WritesSummary
<2>3. CASE Abort \/ RivalPublishes \/ \E u \in Universe : RemoveStaleLease(u)
  BY <2>3, CommandInv, QuietInv DEF WritesSummary
<2> QED BY <1>1, <2>1, <2>2, <2>3 DEF Next
<1>2. CASE UNCHANGED vars
<2>1. UNCHANGED <<scenario, left, parent, worker, outcome, status, child, evidence, populations>>
  BY <1>2 DEF vars
<2>2. TypeOK'
  BY <2>1 DEF PopulationInv, TypeOK
<2>3. \A u \in Universe : ChildOf(u)' = ChildOf(u)
  BY <2>1 DEF ChildOf
<2>4. Waiting' /\ Stopped' /\ Truthful' /\ Tidy'
  BY <2>1 DEF PopulationInv, Waiting, Stopped, Truthful, Tidy, Running
<2>5. Accounted' /\ ToCome' /\ Connected'
  BY <2>1, <2>3 DEF PopulationInv, Accounted, ToCome, Connected, Awaited, Running
<2>6. (\A c \in Child : RunOnce(c))'
  BY <2>1 DEF PopulationInv, RunOnce, RunAt
<2>7. Harmless'
  BY <2>1, <2>3 DEF PopulationInv, Harmless, Clean, Reports, Excused, RunAt
<2>8. AbortReachesChildren'
  BY <2>1, <2>3 DEF PopulationInv, AbortReachesChildren, Awaited, Running, Cancelled
<2>9. Sighted'
  BY <2>1, <2>3 DEF PopulationInv, Sighted
<2> QED BY <2>2, <2>4, <2>5, <2>6, <2>7, <2>8, <2>9 DEF PopulationInv
<1> QED BY <1>1, <1>2

(* The types, what the command knows of its processes and its processes of   *)
(* their universes, and what each inbox holds, in every state of every run.  *)
THEOREM PopulationInvariant == Spec => []PopulationInv
BY InitInv, NextInv, PTL DEF Spec

(* An abort reaches every process that has been sent its options, however the *)
(* two messages, the start and the abort are interleaved                      *)
(* (src/lab/population.ts:208 and :240).                                      *)
THEOREM AbortsReachChildren == Spec => []AbortReachesChildren
<1>1. PopulationInv => AbortReachesChildren
  BY DEF PopulationInv
<1> QED BY <1>1, PopulationInvariant, PTL

(* A command that returns leaves no process at work and no temporary file; what *)
(* it has published is a summary of published universes.  Without a kill or     *)
(* another error it leaves no lease, and fails only for a universe that its     *)
(* replay refuses, one that was taken up again with tasks open                  *)
(* (src/lab/population.ts:156, src/lab/world.ts:251).                           *)
THEOREM SettledQuietly == Spec => []SettledIsQuiet
<1>1. PopulationInv => SettledIsQuiet
<2> SUFFICES ASSUME PopulationInv, ~Running, parent.result # "killed"
             PROVE  SettledIsQuiet
  BY DEF SettledIsQuiet
<2>1. /\ TypeOK /\ Accounted /\ Truthful /\ Tidy /\ Harmless
  BY DEF PopulationInv
<2>2. \A u \in Universe : child[ChildOf(u)].at \in {"none", "reaped"}
  BY <2>1 DEF Accounted, Awaited
<2>3. /\ parent.run \notin populations.temporary
      /\ parent.result = "published" => populations.written
  BY <2>1 DEF Tidy
<2>4. populations.written => \A u \in 1 .. scenario.universes : evidence[u].published
  BY <2>1 DEF Truthful
<2>5. scenario.kills = 0 /\ scenario.errors = 0 =>
        /\ parent.result = "failed" => \E u \in Universe : ~evidence[u].sound
        /\ \A u \in Universe :
             /\ evidence[u].lease = "free"
             /\ ~evidence[u].sound => scenario.open /\ parent.run > 1
  BY <2>1, <2>2 DEF Harmless, Clean, TypeOK
<2> QED BY <2>2, <2>3, <2>4, <2>5 DEF SettledIsQuiet
<1> QED BY <1>1, PopulationInvariant, PTL
=============================================================================
