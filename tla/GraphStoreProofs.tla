--------------------------- MODULE GraphStoreProofs ---------------------------
(* Safety of GraphStore for every set of commands, every checkpoint interval, *)
(* every log and all faults, and that it implements CommandLog.               *)
EXTENDS GraphStore, WellFoundedInduction, SequenceTheorems, TLAPS

Line == Record \cup {Torn}

TypeOK ==
    /\ faults \in SUBSET AllFaults
    /\ wal \in Seq(Line)
    /\ snapshot \in Image \cup {None}
    /\ up \in BOOLEAN
    /\ store \in [sequence : Nat, lastHash : Seq(Command)]
    /\ state \in Seq(Command)
    /\ commit \in {Idle} \cup [step : {"append", "written", "checkpoint", "reply"},
                               command : Command]
    /\ closing \in [step : {"open", "captured", "built", "done"}, state : Seq(Command),
                    snapshot : Image \cup {None}]
    /\ closing.step = "built" => closing.snapshot \in Image
    /\ acked \in SUBSET Command
    /\ ~ up => commit = Idle /\ closing = Open

-----------------------------------------------------------------------------
(* The inductive invariant. *)

Commands(lines, k) == [i \in 1 .. k |-> lines[i].command]

\* The first k lines are records, numbered and chained.
Chained(lines, k) ==
    \A i \in 1 .. k :
        /\ lines[i] \in Record
        /\ lines[i].sequence = i
        /\ lines[i].previousHash = Commands(lines, i - 1)

Whole == Chained(wal, Len(wal))

Anchored(snap) ==
    snap.sequence <= Len(wal) /\ snap.lastHash = Commands(wal, snap.sequence)

\* Every sync succeeds: the store is at the end of the log, or one line before
\* it while a record is being synced, and so are the snapshots taken of it.
Aligned ==
    "syncFails" \notin faults =>
        /\ snapshot # None => Anchored(snapshot)
        /\ closing.step = "built" => Anchored(closing.snapshot)
        /\ up => /\ store.lastHash = Commands(wal, store.sequence)
                 /\ IF commit.step = "written"
                    THEN Len(wal) = store.sequence + 1 /\ wal[Len(wal)].command = commit.command
                    ELSE Len(wal) = store.sequence

\* What recovery holds after k lines.
After(k) == Replayed(wal, snapshot)[k]

Holds(k, s) == After(k).ok => After(k).state = s

\* No shutdown handler: as long as the log is whole, the state in memory is what
\* the lines up to the store's sequence replay to, and has what was acknowledged.
Followed ==
    /\ up => /\ store.sequence \in {Len(wal), Len(wal) - 1}
             /\ store.lastHash = Commands(wal, store.sequence)
             /\ Anchor(snapshot).sequence <= store.sequence
             /\ Holds(store.sequence, state)
             /\ acked \subseteq ToSet(state)
             /\ commit.step = "written" =>
                  store.sequence = Len(wal) - 1 /\ wal[Len(wal)].command = commit.command
             /\ commit.step \in {"checkpoint", "reply"} =>
                  store.sequence = Len(wal) /\ commit.command \in ToSet(state)
    /\ ~ up => (After(Len(wal)).ok => acked \subseteq ToSet(After(Len(wal)).state))

Following ==
    "shutdown" \notin faults => closing = Open /\ (Whole => Followed)

\* Nothing but crashes: every line can be replayed.
Replayable ==
    faults \subseteq {"crash"} =>
        /\ Whole
        /\ After(Len(wal)).ok
        /\ commit.step \in {"append", "written"} =>
             ~ Throws(state, commit.command) /\ commit.command \notin ToSet(state)

\* The state recovery gives back is the one after the last line.
Returned == Recovered.state = After(Len(wal)).state

StoreInv == TypeOK /\ Aligned /\ Following /\ Replayable /\ Returned

-----------------------------------------------------------------------------
(* Induction over the lines of a log: the library's induction rules take an   *)
(* operator, this one a set.                                                  *)

(* A set with zero and every successor has all the natural numbers. *)
LEMMA NatSetInduction ==
    ASSUME NEW S, 0 \in S, \A n \in Nat : n \in S => n + 1 \in S
    PROVE  Nat \subseteq S
<1> DEFINE outside == {n \in Nat : n \notin S}
<1> DEFINE less == OpToRel(<, Nat)
<1>1. IsWellFoundedOn(less, Nat)
  BY NatLessThanWellFounded
<1>2. \A x, y \in Nat : y < x => <<y, x>> \in less
  BY DEF OpToRel
<1> SUFFICES ASSUME outside # {} PROVE FALSE
  OBVIOUS
<1>3. \E x \in outside : \A y \in outside : ~ (<<y, x>> \in less)
  <2>1. outside \subseteq Nat
    OBVIOUS
  <2> HIDE DEF outside, less
  <2> QED BY <1>1, <2>1, WFMin
<1>4. PICK x \in outside : \A y \in outside : ~ (<<y, x>> \in less)
  BY <1>3
<1> HIDE DEF less
<1>5. x # 0 /\ x - 1 \in Nat /\ x - 1 < x /\ (x - 1) + 1 = x
  OBVIOUS
<1>6. x - 1 \in outside
  BY <1>5
<1> QED BY <1>2, <1>4, <1>5, <1>6

-----------------------------------------------------------------------------
(* The loop of recover. *)

AtFirst(snap) ==
    [ok |-> TRUE, sequence |-> 0, lastHash |-> <<>>, state |-> Anchor(snap).state]

OneMore(lines, snap, acc, i) ==
    IF acc.ok THEN Replay(Anchor(snap), acc, lines[i]) ELSE acc

(* The loop is well defined: it holds AtFirst at first, and each line takes it *)
(* one further.                                                                *)
LEMMA ReplayedUnfolds ==
    ASSUME NEW lines \in Seq(Line), NEW snap
    PROVE  /\ Replayed(lines, snap)[0] = AtFirst(snap)
           /\ \A i \in 1 .. Len(lines) :
                Replayed(lines, snap)[i] = OneMore(lines, snap, Replayed(lines, snap)[i - 1], i)
<1> DEFINE Loop(g, n) ==
      g = [i \in 0 .. n |-> IF i = 0 THEN AtFirst(snap) ELSE OneMore(lines, snap, g[i - 1], i)]
<1> DEFINE lengths == {n \in Nat : \E g : Loop(g, n)}
<1>1. 0 \in lengths
  <2> DEFINE g == [i \in 0 .. 0 |-> AtFirst(snap)]
  <2>1. Loop(g, 0)
    OBVIOUS
  <2> QED BY <2>1
<1>2. ASSUME NEW n \in Nat, n \in lengths
      PROVE  n + 1 \in lengths
  <2>1. PICK g : Loop(g, n)
    BY <1>2
  <2> DEFINE h == [i \in 0 .. n + 1 |-> IF i = n + 1 THEN OneMore(lines, snap, g[n], n + 1) ELSE g[i]]
  <2>2. \A i \in 0 .. n : h[i] = g[i]
    OBVIOUS
  <2>3. ASSUME NEW i \in 0 .. n + 1
        PROVE  h[i] = IF i = 0 THEN AtFirst(snap) ELSE OneMore(lines, snap, h[i - 1], i)
    <3>1. CASE i = n + 1
      <4>1. h[i] = OneMore(lines, snap, g[n], n + 1)
        BY <3>1
      <4>2. i # 0 /\ i - 1 = n /\ h[i - 1] = g[n]
        BY <2>2, <3>1
      <4> QED BY <3>1, <4>1, <4>2
    <3>2. CASE i # n + 1
      <4>1. i \in 0 .. n /\ h[i] = g[i]
        BY <3>2
      <4>2. g[i] = IF i = 0 THEN AtFirst(snap) ELSE OneMore(lines, snap, g[i - 1], i)
        <5> HIDE DEF h
        <5> QED BY <2>1, <4>1
      <4>3. i # 0 => h[i - 1] = g[i - 1]
        BY <2>2, <4>1
      <4> HIDE DEF h
      <4> QED BY <4>1, <4>2, <4>3
    <3> QED BY <3>1, <3>2
  <2>4. Loop(h, n + 1)
    BY <2>3
  <2> HIDE DEF h, Loop
  <2> QED BY <2>4
<1>3. Len(lines) \in lengths
  <2> HIDE DEF lengths
  <2> QED BY <1>1, <1>2, NatSetInduction
<1>4. Loop(Replayed(lines, snap), Len(lines))
  <2>1. Replayed(lines, snap) = CHOOSE g : Loop(g, Len(lines))
    BY DEF Replayed, AtFirst, OneMore
  <2>2. \E g : Loop(g, Len(lines))
    BY <1>3
  <2> HIDE DEF Loop
  <2> QED BY <2>1, <2>2
<1>5. Len(lines) \in Nat
  OBVIOUS
<1> DEFINE r == Replayed(lines, snap)
<1>6. r = [i \in 0 .. Len(lines) |-> IF i = 0 THEN AtFirst(snap) ELSE OneMore(lines, snap, r[i - 1], i)]
  BY <1>4
<1> HIDE DEF r
<1>7. r[0] = AtFirst(snap)
  BY <1>5, <1>6
<1>8. ASSUME NEW i \in 1 .. Len(lines)
      PROVE  r[i] = OneMore(lines, snap, r[i - 1], i)
  BY <1>5, <1>6
<1> QED BY <1>7, <1>8 DEF r

-----------------------------------------------------------------------------
(* Lines and their commands. *)

(* The commands of the first records form a sequence. *)
LEMMA CommandsType ==
    ASSUME NEW lines \in Seq(Line), NEW k \in 0 .. Len(lines), Chained(lines, k)
    PROVE  Commands(lines, k) \in Seq(Command) /\ Len(Commands(lines, k)) = k
<1>1. \A i \in 1 .. k : lines[i].command \in Command
  BY DEF Chained, Record
<1> QED BY <1>1 DEF Commands

(* A line more is a command more. *)
LEMMA CommandsNext ==
    ASSUME NEW lines \in Seq(Line), NEW k \in 0 .. Len(lines), k + 1 <= Len(lines),
           Commands(lines, k) \in Seq(Command)
    PROVE  Commands(lines, k + 1) = Append(Commands(lines, k), lines[k + 1].command)
<1>1. Len(Commands(lines, k)) = k
  BY DEF Commands
<1>2. k + 1 \in Nat /\ Len(lines) \in Nat
  OBVIOUS
<1> QED BY <1>1, <1>2 DEF Commands

(* An appended line leaves those before it. *)
LEMMA AppendedLine ==
    ASSUME NEW lines \in Seq(Line), NEW line \in Line
    PROVE  LET longer == Append(lines, line)
           IN  /\ longer \in Seq(Line) /\ Len(longer) = Len(lines) + 1
               /\ longer[Len(lines) + 1] = line
               /\ \A i \in 1 .. Len(lines) : longer[i] = lines[i]
               /\ \A k \in 0 .. Len(lines) : Commands(longer, k) = Commands(lines, k)
               /\ \A k \in 0 .. Len(lines) : Chained(longer, k) <=> Chained(lines, k)
<1> DEFINE longer == Append(lines, line)
<1>1. /\ longer \in Seq(Line) /\ Len(longer) = Len(lines) + 1
      /\ longer[Len(lines) + 1] = line
      /\ \A i \in 1 .. Len(lines) : longer[i] = lines[i]
  OBVIOUS
<1> HIDE DEF longer
<1>2. Len(lines) \in Nat
  OBVIOUS
<1>3. \A k \in 0 .. Len(lines) : Commands(longer, k) = Commands(lines, k)
  BY <1>1, <1>2 DEF Commands
<1>4. ASSUME NEW k \in 0 .. Len(lines)
      PROVE  Chained(longer, k) <=> Chained(lines, k)
  <2>1. \A i \in 1 .. k : /\ i \in 1 .. Len(lines) /\ i - 1 \in 0 .. Len(lines)
                          /\ longer[i] = lines[i]
                          /\ Commands(longer, i - 1) = Commands(lines, i - 1)
    BY <1>1, <1>2, <1>3
  <2> QED BY <2>1 DEF Chained
<1> QED BY <1>1, <1>3, <1>4 DEF longer

-----------------------------------------------------------------------------
(* What the loop holds. *)

Progress == [ok : BOOLEAN, sequence : Nat, lastHash : Seq(Command), state : Seq(Command)]

(* Recovery starts from a snapshot or from nothing. *)
LEMMA AnchorType ==
    ASSUME NEW snap \in Image \cup {None}
    PROVE  Anchor(snap) \in Image
<1>1. <<>> \in Seq(Command)
  BY EmptySeq
<1> QED BY <1>1 DEF Anchor, Image

LEMMA ReduceType ==
    ASSUME NEW s \in Seq(Command), NEW cmd \in Command
    PROVE  reduceRuntimeState(s, cmd) \in Seq(Command)
BY DEF reduceRuntimeState

LEMMA ReplayType ==
    ASSUME NEW anchor \in Image, NEW acc \in Progress, NEW line \in Line
    PROVE  Replay(anchor, acc, line) \in Progress
<1>1. CASE Breaks(anchor, acc, line)
  BY <1>1 DEF Replay, Progress
<1>2. CASE ~ Breaks(anchor, acc, line)
  <2>1. line \in Record
    BY <1>2 DEF Breaks, Line
  <2>2. line.sequence \in Nat /\ line.command \in Command /\ line.previousHash \in Seq(Command)
    BY <2>1 DEF Record
  <2>3. recordHash(line) \in Seq(Command)
    BY <2>2 DEF recordHash
  <2>4. acc.state \in Seq(Command) /\ acc.ok \in BOOLEAN
    BY DEF Progress
  <2>5. reduceRuntimeState(acc.state, line.command) \in Seq(Command)
    BY <2>2, <2>4, ReduceType
  <2> QED BY <1>2, <2>2, <2>3, <2>4, <2>5 DEF Replay, Progress
<1> QED BY <1>1, <1>2

LEMMA ReplayedType ==
    ASSUME NEW lines \in Seq(Line), NEW snap \in Image \cup {None}
    PROVE  \A i \in 0 .. Len(lines) : Replayed(lines, snap)[i] \in Progress
<1> DEFINE r == Replayed(lines, snap)
<1> DEFINE typed == {i \in Nat : i <= Len(lines) => r[i] \in Progress}
<1>1. Len(lines) \in Nat /\ Anchor(snap) \in Image
  BY AnchorType
<1>2. 0 \in typed
  <2>1. AtFirst(snap) \in Progress
    BY <1>1, EmptySeq DEF AtFirst, Progress, Image
  <2> QED BY <2>1, ReplayedUnfolds
<1>3. ASSUME NEW i \in Nat, i \in typed
      PROVE  i + 1 \in typed
  <2>1. CASE i + 1 <= Len(lines)
    <3>1. i + 1 \in 1 .. Len(lines) /\ (i + 1) - 1 = i /\ r[i] \in Progress
      BY <1>1, <1>3, <2>1
    <3>2. r[i + 1] = OneMore(lines, snap, r[i], i + 1)
      BY <3>1, ReplayedUnfolds
    <3>3. lines[i + 1] \in Line
      BY <3>1, ElementOfSeq
    <3>4. Replay(Anchor(snap), r[i], lines[i + 1]) \in Progress
      BY <1>1, <3>1, <3>3, ReplayType
    <3>5. r[i + 1] \in Progress
      BY <3>1, <3>2, <3>4 DEF OneMore
    <3> HIDE DEF r
    <3> QED BY <3>5
  <2>2. CASE ~ (i + 1 <= Len(lines))
    BY <2>2
  <2> QED BY <2>1, <2>2
<1>4. Nat \subseteq typed
  <2> HIDE DEF typed
  <2> QED BY <1>2, <1>3, NatSetInduction
<1> HIDE DEF r
<1> QED BY <1>1, <1>4 DEF r

(* A loop that has come so far without throwing has seen a chain, and holds its *)
(* number and hash.                                                             *)
LEMMA ReplayedChain ==
    ASSUME NEW lines \in Seq(Line), NEW snap \in Image \cup {None}
    PROVE  \A i \in 0 .. Len(lines) : Replayed(lines, snap)[i].ok =>
             /\ Chained(lines, i)
             /\ Replayed(lines, snap)[i].sequence = i
             /\ Replayed(lines, snap)[i].lastHash = Commands(lines, i)
             /\ \A j \in 0 .. i : Replayed(lines, snap)[j].ok
<1> DEFINE r == Replayed(lines, snap)
<1> DEFINE Good(i) == /\ Chained(lines, i)
                      /\ r[i].sequence = i
                      /\ r[i].lastHash = Commands(lines, i)
                      /\ \A j \in 0 .. i : r[j].ok
<1> DEFINE chained == {i \in Nat : i <= Len(lines) /\ r[i].ok => Good(i)}
<1>1. Len(lines) \in Nat /\ \A i \in 0 .. Len(lines) : r[i] \in Progress
  BY ReplayedType
<1>2. r[0] = AtFirst(snap) /\ \A i \in 1 .. Len(lines) : r[i] = OneMore(lines, snap, r[i - 1], i)
  BY ReplayedUnfolds
<1> HIDE DEF r
<1>3. 0 \in chained
  <2>1. Chained(lines, 0)
    BY DEF Chained
  <2>2. r[0].sequence = 0 /\ r[0].lastHash = <<>> /\ r[0].ok
    BY <1>2 DEF AtFirst
  <2>3. Commands(lines, 0) = <<>>
    BY DEF Commands
  <2>4. \A j \in 0 .. 0 : r[j].ok
    BY <2>2
  <2> QED BY <2>1, <2>2, <2>3, <2>4
<1>4. ASSUME NEW i \in Nat, i \in chained
      PROVE  i + 1 \in chained
  <2> DEFINE line == lines[i + 1]
  <2> SUFFICES ASSUME i + 1 <= Len(lines), r[i + 1].ok
               PROVE  Good(i + 1)
    OBVIOUS
  <2>1. /\ i \in 0 .. Len(lines) /\ i + 1 \in 1 .. Len(lines) /\ (i + 1) - 1 = i
        /\ r[i] \in Progress /\ r[i + 1] = OneMore(lines, snap, r[i], i + 1)
    BY <1>1, <1>2
  <2>2. r[i].ok
    BY <2>1 DEF OneMore
  <2>3. Good(i)
    BY <1>4, <2>1, <2>2
  <2>4. r[i + 1] = Replay(Anchor(snap), r[i], line)
    BY <2>1, <2>2 DEF OneMore
  <2> HIDE DEF line
  <2>5. ~ Breaks(Anchor(snap), r[i], line)
    <3>1. SUFFICES ASSUME Breaks(Anchor(snap), r[i], line) PROVE FALSE
      OBVIOUS
    <3>2. r[i + 1].ok = FALSE
      BY <2>1, <2>4, <3>1 DEF Replay, Progress
    <3> QED BY <3>2
  <2>6. line \in Record
    BY <2>1, <2>5, ElementOfSeq DEF Breaks, Line, line
  <2>7. line.sequence = i + 1 /\ line.previousHash = Commands(lines, i)
    BY <2>3, <2>5 DEF Breaks
  <2>8. Chained(lines, i + 1)
    <3>1. ASSUME NEW k \in 1 .. i + 1
          PROVE  /\ lines[k] \in Record
                 /\ lines[k].sequence = k
                 /\ lines[k].previousHash = Commands(lines, k - 1)
      <4>1. CASE k = i + 1
        BY <2>1, <2>6, <2>7, <4>1 DEF line
      <4>2. CASE k # i + 1
        <5>1. k \in 1 .. i
          BY <4>2
        <5> QED BY <2>3, <5>1 DEF Chained
      <4> QED BY <4>1, <4>2
    <3> QED BY <3>1 DEF Chained
  <2>9. r[i + 1].sequence = i + 1 /\ r[i + 1].lastHash = recordHash(line)
    BY <2>4, <2>5, <2>7 DEF Replay
  <2>10. recordHash(line) = Commands(lines, i + 1)
    <3>1. Commands(lines, i) \in Seq(Command)
      BY <2>1, <2>3, CommandsType
    <3> QED BY <2>1, <2>7, <3>1, CommandsNext DEF recordHash, line
  <2>11. \A j \in 0 .. i + 1 : r[j].ok
    BY <2>3
  <2> QED BY <2>8, <2>9, <2>10, <2>11
<1>5. Nat \subseteq chained
  <2> HIDE DEF chained
  <2> QED BY <1>3, <1>4, NatSetInduction
<1>6. ASSUME NEW i \in 0 .. Len(lines), r[i].ok
      PROVE  Good(i)
  <2>1. i \in chained /\ i <= Len(lines)
    BY <1>1, <1>5
  <2> QED BY <1>6, <2>1
<1> QED BY <1>6 DEF r

(* The loop over a longer log begins as the loop over the log. *)
LEMMA ReplayedAppended ==
    ASSUME NEW lines \in Seq(Line), NEW snap, NEW line \in Line
    PROVE  \A i \in 0 .. Len(lines) :
             Replayed(Append(lines, line), snap)[i] = Replayed(lines, snap)[i]
<1> DEFINE longer == Append(lines, line)
<1> DEFINE r == Replayed(lines, snap)
<1> DEFINE q == Replayed(longer, snap)
<1> DEFINE same == {i \in Nat : i <= Len(lines) => q[i] = r[i]}
<1>1. /\ longer \in Seq(Line) /\ Len(longer) = Len(lines) + 1 /\ Len(lines) \in Nat
      /\ \A i \in 1 .. Len(lines) : longer[i] = lines[i]
  BY AppendedLine
<1> HIDE DEF longer
<1>2. /\ r[0] = AtFirst(snap)
      /\ \A i \in 1 .. Len(lines) : r[i] = OneMore(lines, snap, r[i - 1], i)
  BY ReplayedUnfolds
<1>3. /\ q[0] = AtFirst(snap)
      /\ \A i \in 1 .. Len(longer) : q[i] = OneMore(longer, snap, q[i - 1], i)
  BY <1>1, ReplayedUnfolds
<1> HIDE DEF r, q
<1>4. 0 \in same
  BY <1>2, <1>3
<1>5. ASSUME NEW i \in Nat, i \in same
      PROVE  i + 1 \in same
  <2> SUFFICES ASSUME i + 1 <= Len(lines) PROVE q[i + 1] = r[i + 1]
    OBVIOUS
  <2>1. i + 1 \in 1 .. Len(lines) /\ i + 1 \in 1 .. Len(longer) /\ (i + 1) - 1 = i
    BY <1>1
  <2>2. q[i] = r[i] /\ longer[i + 1] = lines[i + 1]
    BY <1>1, <1>5, <2>1
  <2>3. OneMore(longer, snap, q[i], i + 1) = OneMore(lines, snap, r[i], i + 1)
    BY <2>2 DEF OneMore
  <2> QED BY <1>2, <1>3, <2>1, <2>3
<1>6. Nat \subseteq same
  <2> HIDE DEF same
  <2> QED BY <1>4, <1>5, NatSetInduction
<1> QED BY <1>1, <1>6 DEF r, q, longer

(* Up to the snapshot the state is the snapshot's, and a chain does not throw. *)
LEMMA ReplayedBelowAnchor ==
    ASSUME NEW lines \in Seq(Line), NEW snap \in Image \cup {None}
    PROVE  \A i \in 0 .. Len(lines) : i <= Anchor(snap).sequence =>
             /\ Replayed(lines, snap)[i].state = Anchor(snap).state
             /\ Chained(lines, i) => Replayed(lines, snap)[i].ok
<1> DEFINE r == Replayed(lines, snap)
<1> DEFINE anchor == Anchor(snap)
<1> DEFINE below == {i \in Nat : i <= Len(lines) /\ i <= anchor.sequence =>
                       r[i].state = anchor.state /\ (Chained(lines, i) => r[i].ok)}
<1>1. Len(lines) \in Nat /\ \A i \in 0 .. Len(lines) : r[i] \in Progress
  BY ReplayedType
<1>2. /\ r[0] = AtFirst(snap)
      /\ \A i \in 1 .. Len(lines) : r[i] = OneMore(lines, snap, r[i - 1], i)
  BY ReplayedUnfolds
<1>3. \A i \in 0 .. Len(lines) : r[i].ok =>
        r[i].sequence = i /\ r[i].lastHash = Commands(lines, i)
  BY ReplayedChain
<1>4. anchor.sequence \in Nat
  BY AnchorType DEF Image
<1> HIDE DEF r
<1>5. 0 \in below
  BY <1>2 DEF AtFirst
<1>6. ASSUME NEW i \in Nat, i \in below
      PROVE  i + 1 \in below
  <2> DEFINE line == lines[i + 1]
  <2> SUFFICES ASSUME i + 1 <= Len(lines), i + 1 <= anchor.sequence
               PROVE  /\ r[i + 1].state = anchor.state
                      /\ Chained(lines, i + 1) => r[i + 1].ok
    OBVIOUS
  <2>1. /\ i \in 0 .. Len(lines) /\ i + 1 \in 1 .. Len(lines) /\ (i + 1) - 1 = i
        /\ i <= anchor.sequence
        /\ r[i] \in Progress /\ r[i + 1] = OneMore(lines, snap, r[i], i + 1)
    BY <1>1, <1>2, <1>4
  <2>2. r[i].state = anchor.state /\ (Chained(lines, i) => r[i].ok)
    BY <1>6, <2>1
  <2>3. Chained(lines, i + 1) => Chained(lines, i) /\ line \in Record
           /\ line.sequence = i + 1 /\ line.previousHash = Commands(lines, i)
    BY <2>1 DEF Chained
  <2>4. r[i + 1] = IF r[i].ok THEN Replay(anchor, r[i], line) ELSE r[i]
    BY <2>1 DEF OneMore
  <2> HIDE DEF line
  <2>5. CASE ~ r[i].ok
    BY <2>2, <2>3, <2>4, <2>5
  <2>6. CASE r[i].ok /\ Breaks(anchor, r[i], line)
    <3>1. r[i + 1] = [r[i] EXCEPT !.ok = FALSE]
      BY <2>4, <2>6 DEF Replay
    <3>2. r[i + 1].state = r[i].state
      BY <2>1, <3>1 DEF Progress
    <3>3. ~ Chained(lines, i + 1)
      <4>1. SUFFICES ASSUME Chained(lines, i + 1) PROVE FALSE
        OBVIOUS
      <4>2. line # Torn
        BY <2>3, <4>1, StoreAssumption
      <4>3. ~ (line.sequence > anchor.sequence)
        BY <1>4, <2>3, <4>1
      <4> QED BY <1>3, <2>1, <2>3, <2>6, <4>1, <4>2, <4>3 DEF Breaks
    <3> QED BY <2>2, <3>2, <3>3
  <2>7. CASE r[i].ok /\ ~ Breaks(anchor, r[i], line)
    <3>1. line.sequence = i + 1
      BY <1>3, <2>1, <2>7 DEF Breaks
    <3>2. ~ (line.sequence > anchor.sequence)
      BY <1>4, <3>1
    <3>3. r[i + 1].ok = r[i].ok /\ r[i + 1].state = r[i].state
      BY <2>4, <2>7, <3>2 DEF Replay
    <3> QED BY <2>2, <2>7, <3>3
  <2> QED BY <2>5, <2>6, <2>7
<1>7. Nat \subseteq below
  <2> HIDE DEF below
  <2> QED BY <1>5, <1>6, NatSetInduction
<1> QED BY <1>1, <1>7 DEF r

(* One line further along a chain: beyond the snapshot its command is reduced, *)
(* unless the reducer throws.                                                  *)
LEMMA ReplayedNext ==
    ASSUME NEW lines \in Seq(Line), NEW snap \in Image \cup {None},
           NEW k \in 0 .. Len(lines), k + 1 <= Len(lines),
           Chained(lines, k + 1), k >= Anchor(snap).sequence
    PROVE  LET before == Replayed(lines, snap)[k]
               now == Replayed(lines, snap)[k + 1]
           IN  /\ now.ok <=> before.ok /\ ~ Throws(before.state, lines[k + 1].command)
               /\ now.ok => now.state = reduceRuntimeState(before.state, lines[k + 1].command)
<1> DEFINE r == Replayed(lines, snap)
<1> DEFINE anchor == Anchor(snap)
<1> DEFINE line == lines[k + 1]
<1>1. k + 1 \in 1 .. Len(lines) /\ (k + 1) - 1 = k /\ Len(lines) \in Nat /\ k \in Nat
  OBVIOUS
<1>2. r[k] \in Progress /\ r[k + 1] = OneMore(lines, snap, r[k], k + 1)
  BY <1>1, ReplayedType, ReplayedUnfolds
<1>3. r[k].ok => r[k].sequence = k /\ r[k].lastHash = Commands(lines, k)
  BY ReplayedChain
<1>4. line \in Record /\ line.sequence = k + 1 /\ line.previousHash = Commands(lines, k)
  BY <1>1 DEF Chained
<1>5. r[k + 1] = IF r[k].ok THEN Replay(anchor, r[k], line) ELSE r[k]
  BY <1>2 DEF OneMore
<1>6. line # Torn /\ line.sequence > anchor.sequence
  <2>1. anchor.sequence \in Nat
    BY AnchorType DEF Image
  <2>2. line # Torn
    BY <1>4, StoreAssumption
  <2> HIDE DEF line, anchor
  <2> QED BY <1>1, <1>4, <2>1, <2>2 DEF anchor
<1> HIDE DEF r, line, anchor
<1>7. r[k].ok => (Breaks(anchor, r[k], line) <=> Throws(r[k].state, line.command))
  BY <1>3, <1>4, <1>6 DEF Breaks
<1>8. CASE ~ r[k].ok
  BY <1>5, <1>8 DEF r, line
<1>9. CASE r[k].ok /\ Breaks(anchor, r[k], line)
  <2>1. r[k + 1].ok = FALSE
    BY <1>2, <1>5, <1>9 DEF Replay, Progress
  <2> QED BY <1>7, <1>9, <2>1 DEF r, line
<1>10. CASE r[k].ok /\ ~ Breaks(anchor, r[k], line)
  <2>1. r[k + 1].ok = r[k].ok /\ r[k + 1].state = reduceRuntimeState(r[k].state, line.command)
    BY <1>5, <1>6, <1>10 DEF Replay
  <2> QED BY <1>7, <1>10, <2>1 DEF r, line
<1> QED BY <1>8, <1>9, <1>10

-----------------------------------------------------------------------------
(* Recovery from the files of a state. *)

LEMMA RecoveredIs ==
    ASSUME TypeOK
    PROVE  /\ After(Len(wal)) \in Progress
           /\ Recovered.state = After(Len(wal)).state
           /\ Recovered.ok <=>
                /\ After(Len(wal)).ok
                /\ Anchor(snapshot).sequence <= Len(wal)
                /\ Anchor(snapshot).sequence > 0 =>
                     recordHash(wal[Anchor(snapshot).sequence]) = Anchor(snapshot).lastHash
           /\ After(Len(wal)).ok => Whole
           /\ Recovered.ok => /\ Recovered = After(Len(wal))
                              /\ Recovered.sequence = Len(wal)
                              /\ Recovered.lastHash = Commands(wal, Len(wal))
<1> DEFINE end == After(Len(wal))
<1>1. Len(wal) \in Nat /\ Len(wal) \in 0 .. Len(wal) /\ wal \in Seq(Line)
      /\ snapshot \in Image \cup {None}
  BY DEF TypeOK
<1>2. end \in Progress
  BY <1>1, ReplayedType DEF After
<1>3. end.ok => Whole /\ end.sequence = Len(wal) /\ end.lastHash = Commands(wal, Len(wal))
  BY <1>1, ReplayedChain DEF After, Whole
<1> DEFINE anchored ==
      /\ Anchor(snapshot).sequence <= end.sequence
      /\ Anchor(snapshot).sequence > 0 =>
           recordHash(wal[Anchor(snapshot).sequence]) = Anchor(snapshot).lastHash
<1>4. Recovered = IF end.ok /\ anchored THEN end ELSE [end EXCEPT !.ok = FALSE]
  BY DEF Recovered, Recover, After
<1> HIDE DEF end, anchored
<1>5. CASE end.ok /\ anchored
  <2>1. Recovered = end
    BY <1>4, <1>5
  <2> QED BY <1>2, <1>3, <1>5, <2>1 DEF end, anchored
<1>6. CASE ~ (end.ok /\ anchored)
  <2>1. Recovered = [end EXCEPT !.ok = FALSE]
    BY <1>4, <1>6
  <2>2. Recovered.ok = FALSE /\ Recovered.state = end.state
    BY <1>2, <2>1 DEF Progress
  <2> QED BY <1>2, <1>3, <1>6, <2>2 DEF end, anchored
<1> QED BY <1>5, <1>6

LEMMA TypedReturned == TypeOK => Returned
BY RecoveredIs DEF Returned

-----------------------------------------------------------------------------
(* Types. *)

LEMMA CommitType ==
    ASSUME TypeOK
    PROVE  /\ commit = Idle => commit.step = "idle"
           /\ commit.step \in {"append", "written", "checkpoint", "reply"} =>
                up /\ commit.command \in Command
           /\ commit.step \in {"idle", "append", "written", "checkpoint", "reply"}
           /\ commit.step = "idle" => commit = Idle
BY DEF TypeOK, Idle

LEMMA TypeInit == Init => TypeOK
<1> SUFFICES ASSUME Init PROVE TypeOK
  OBVIOUS
<1>1. <<>> \in Seq(Command) /\ <<>> \in Seq(Line)
  BY EmptySeq
<1>2. closing = Open /\ Open \in [step : {"open", "captured", "built", "done"},
                  state : Seq(Command), snapshot : Image \cup {None}]
  BY <1>1 DEF Open, Init
<1>3. closing.step = "open"
  BY <1>2 DEF Open
<1>4. faults \in SUBSET AllFaults
  BY StoreAssumption DEF Init
<1> QED BY <1>1, <1>2, <1>3, <1>4 DEF Init, TypeOK, Genesis

LEMMA TypeStep == TypeOK /\ [Next]_vars => TypeOK'
<1> SUFFICES ASSUME TypeOK, [Next]_vars PROVE TypeOK'
  OBVIOUS
<1>1. <<>> \in Seq(Command) /\ Torn \in Line
  BY EmptySeq DEF Line
<1>2. ASSUME LoseMemory, UNCHANGED <<faults, snapshot, acked>>, wal' \in Seq(Line)
      PROVE  TypeOK'
  <2>1. Open \in [step : {"open", "captured", "built", "done"},
                  state : Seq(Command), snapshot : Image \cup {None}]
    BY <1>1 DEF Open
  <2>2. closing'.step = "open"
    BY <1>2 DEF LoseMemory, Open
  <2> QED BY <1>1, <1>2, <2>1, <2>2 DEF LoseMemory, Genesis, TypeOK
<1>3. CASE Start
  <2>1. Recovered = After(Len(wal)) /\ Recovered \in Progress
    BY <1>3, RecoveredIs DEF Start
  <2> QED BY <1>3, <2>1 DEF Start, TypeOK, Progress
<1>4. CASE Crash
  BY <1>2, <1>4 DEF Crash, TypeOK
<1>5. CASE CrashInWrite
  <2>1. wal' \in Seq(Line)
    BY <1>1, <1>5, AppendProperties DEF CrashInWrite, TypeOK
  <2> QED BY <1>2, <1>5, <2>1 DEF CrashInWrite
<1>6. CASE Begin
  BY <1>6 DEF Begin, TypeOK
<1>7. CASE Write
  <2> DEFINE line == [sequence |-> store.sequence + 1, previousHash |-> store.lastHash,
                      command |-> commit.command]
  <2>1. commit.command \in Command /\ up
    BY <1>7, CommitType DEF Write
  <2>2. line \in Line
    BY <2>1 DEF TypeOK, Line, Record
  <2>3. wal' \in Seq(Line)
    BY <1>7, <2>2, AppendProperties DEF Write, TypeOK
  <2>4. commit' \in [step : {"append", "written", "checkpoint", "reply"}, command : Command]
    BY <1>7, <2>1 DEF Write, TypeOK, Idle
  <2> QED BY <1>7, <2>1, <2>3, <2>4 DEF Write, TypeOK
<1>8. CASE Sync
  <2>1. commit.command \in Command /\ up
    BY <1>8, CommitType DEF Sync
  <2>2. store' \in [sequence : Nat, lastHash : Seq(Command)]
    BY <1>8, <2>1, AppendProperties DEF Sync, TypeOK
  <2>3. state' \in Seq(Command)
    BY <1>8, <2>1, ReduceType DEF Sync, TypeOK
  <2>4. commit' \in {Idle} \cup [step : {"append", "written", "checkpoint", "reply"},
                                 command : Command]
    BY <1>8, <2>1 DEF Sync, TypeOK, Idle
  <2> QED BY <1>8, <2>1, <2>2, <2>3, <2>4 DEF Sync, TypeOK
<1>9. CASE SyncFails
  <2>1. up
    BY <1>9, CommitType DEF SyncFails
  <2> QED BY <1>9, <2>1 DEF SyncFails, TypeOK
<1>10. CASE Checkpoint
  <2>1. commit.command \in Command /\ up
    BY <1>10, CommitType DEF Checkpoint
  <2>2. snapshot' \in Image
    BY <1>10 DEF Checkpoint, TypeOK, Image
  <2>3. commit' \in [step : {"append", "written", "checkpoint", "reply"}, command : Command]
    BY <1>10, <2>1 DEF Checkpoint, TypeOK, Idle
  <2> QED BY <1>10, <2>1, <2>2, <2>3 DEF Checkpoint, TypeOK
<1>11. CASE Reply
  <2>1. commit.command \in Command /\ up
    BY <1>11, CommitType DEF Reply
  <2> QED BY <1>11, <2>1 DEF Reply, TypeOK
<1>12. CASE Shutdown
  <2>1. closing' \in [step : {"open", "captured", "built", "done"}, state : Seq(Command),
                      snapshot : Image \cup {None}] /\ closing'.step = "captured"
    BY <1>12 DEF Shutdown, TypeOK
  <2> QED BY <1>12, <2>1 DEF Shutdown, TypeOK
<1>13. CASE BuildSnapshot
  <2>1. up
    BY <1>13 DEF BuildSnapshot, TypeOK, Open
  <2>2. [sequence |-> store.sequence, lastHash |-> store.lastHash, state |-> closing.state]
          \in Image
    BY DEF TypeOK, Image
  <2>3. /\ closing' \in [step : {"open", "captured", "built", "done"}, state : Seq(Command),
                         snapshot : Image \cup {None}]
        /\ closing'.snapshot \in Image
    BY <1>13, <2>2 DEF BuildSnapshot, TypeOK
  <2> QED BY <1>13, <2>1, <2>3 DEF BuildSnapshot, TypeOK
<1>14. CASE RenameSnapshot
  <2>1. up
    BY <1>14 DEF RenameSnapshot, TypeOK, Open
  <2>2. /\ closing' \in [step : {"open", "captured", "built", "done"}, state : Seq(Command),
                         snapshot : Image \cup {None}]
        /\ closing'.step = "done"
    BY <1>14 DEF RenameSnapshot, TypeOK
  <2> QED BY <1>14, <2>1, <2>2 DEF RenameSnapshot, TypeOK
<1>15. CASE Exit
  BY <1>2, <1>15 DEF Exit, TypeOK
<1>16. CASE UNCHANGED vars
  BY <1>16 DEF vars, TypeOK
<1> QED BY <1>3, <1>4, <1>5, <1>6, <1>7, <1>8, <1>9, <1>10, <1>11, <1>12, <1>13, <1>14,
           <1>15, <1>16 DEF Next

-----------------------------------------------------------------------------
(* The snapshots and the store are cut from the log. *)

(* What lies in the log stays there. *)
LEMMA LogGrows ==
    ASSUME TypeOK, NEW line \in Line, wal' = Append(wal, line)
    PROVE  /\ Len(wal') = Len(wal) + 1 /\ wal'[Len(wal')] = line
           /\ \A k \in 0 .. Len(wal) : Commands(wal', k) = Commands(wal, k)
           /\ \A snap \in Image : Anchored(snap) => Anchored(snap)'
<1>1. wal \in Seq(Line) /\ Len(wal) \in Nat
  BY DEF TypeOK
<1>2. /\ Len(wal') = Len(wal) + 1 /\ wal'[Len(wal) + 1] = line
      /\ \A k \in 0 .. Len(wal) : Commands(wal', k) = Commands(wal, k)
  BY <1>1, AppendedLine
<1>3. ASSUME NEW snap \in Image, Anchored(snap)
      PROVE  Anchored(snap)'
  <2>1. snap.sequence \in 0 .. Len(wal)
    BY <1>1, <1>3 DEF Image, Anchored
  <2>2. Commands(wal', snap.sequence) = Commands(wal, snap.sequence)
    BY <1>2, <2>1
  <2>3. snap.sequence <= Len(wal')
    BY <1>1, <1>2, <2>1
  <2> QED BY <1>3, <2>2, <2>3 DEF Anchored
<1> QED BY <1>2, <1>3

(* The line that is written when append comes to its end. *)
LEMMA WriteLine ==
    ASSUME TypeOK, Write
    PROVE  \E line \in Record :
             /\ line.sequence = store.sequence + 1 /\ line.previousHash = store.lastHash
             /\ line.command = commit.command
             /\ wal' = Append(wal, line)
<1> DEFINE line == [sequence |-> store.sequence + 1, previousHash |-> store.lastHash,
                    command |-> commit.command]
<1>1. commit.command \in Command
  BY CommitType DEF Write
<1>2. line \in Record
  BY <1>1 DEF TypeOK, Record
<1>3. wal' = Append(wal, line)
  BY DEF Write
<1> QED BY <1>2, <1>3

LEMMA AlignedInit == Init => Aligned
BY DEF Init, Aligned, Open

LEMMA AlignedStep == TypeOK /\ Aligned /\ [Next]_vars => Aligned'
<1> SUFFICES ASSUME TypeOK, Aligned, [Next]_vars, "syncFails" \notin faults'
             PROVE  /\ snapshot' # None => Anchored(snapshot)'
                    /\ closing'.step = "built" => Anchored(closing.snapshot)'
                    /\ up' => /\ store'.lastHash = Commands(wal', store'.sequence)
                              /\ IF commit'.step = "written"
                                 THEN /\ Len(wal') = store'.sequence + 1
                                      /\ wal'[Len(wal')].command = commit'.command
                                 ELSE Len(wal') = store'.sequence
  BY DEF Aligned
<1>1. faults' = faults
  BY DEF Next, vars, Start, Crash, CrashInWrite, Begin, Write, Sync, SyncFails, Checkpoint,
         Reply, Shutdown, BuildSnapshot, RenameSnapshot, Exit
<1>2. /\ snapshot # None => snapshot \in Image /\ Anchored(snapshot)
      /\ closing.step = "built" => closing.snapshot \in Image /\ Anchored(closing.snapshot)
      /\ up => /\ store.lastHash = Commands(wal, store.sequence)
               /\ IF commit.step = "written"
                  THEN Len(wal) = store.sequence + 1 /\ wal[Len(wal)].command = commit.command
                  ELSE Len(wal) = store.sequence
  BY <1>1 DEF Aligned, TypeOK
<1>3. wal \in Seq(Line) /\ Len(wal) \in Nat /\ store.sequence \in Nat
  BY DEF TypeOK
<1>4. ASSUME wal' = wal, snapshot' = snapshot, closing' = closing
      PROVE  /\ snapshot' # None => Anchored(snapshot)'
             /\ closing'.step = "built" => Anchored(closing.snapshot)'
  BY <1>2, <1>4 DEF Anchored
<1>5. ASSUME LoseMemory, snapshot' = snapshot,
             \/ wal' = wal
             \/ wal' = Append(wal, Torn)
      PROVE  /\ snapshot' # None => Anchored(snapshot)'
             /\ closing'.step = "built" => Anchored(closing.snapshot)'
             /\ ~ up'
  <2>1. closing'.step # "built" /\ ~ up'
    BY <1>5 DEF LoseMemory, Open
  <2>2. CASE wal' = wal
    BY <1>2, <1>5, <2>1, <2>2 DEF Anchored
  <2>3. CASE wal' = Append(wal, Torn)
    <3>1. Torn \in Line
      BY DEF Line
    <3>2. \A snap \in Image : Anchored(snap) => Anchored(snap)'
      BY <2>3, <3>1, LogGrows
    <3>3. snapshot' # None => Anchored(snapshot)'
      BY <1>2, <1>5, <3>2 DEF Anchored
    <3> QED BY <2>1, <3>3
  <2> QED BY <1>5, <2>2, <2>3
<1>6. CASE Start
  <2>1. ~ up /\ commit = Idle
    BY <1>6 DEF Start, TypeOK
  <2>2. store'.sequence = Len(wal) /\ store'.lastHash = Commands(wal, Len(wal))
    BY <1>6, RecoveredIs DEF Start
  <2>3. commit'.step = "idle" /\ wal' = wal
    BY <1>6, <2>1 DEF Start, Idle
  <2> QED BY <1>4, <1>6, <2>2, <2>3 DEF Start
<1>7. CASE Crash
  BY <1>5, <1>7 DEF Crash
<1>8. CASE CrashInWrite
  BY <1>5, <1>8 DEF CrashInWrite
<1>9. CASE Begin
  <2>1. commit.step = "idle" /\ commit'.step = "append"
    BY <1>9, CommitType DEF Begin
  <2> QED BY <1>2, <1>4, <1>9, <2>1 DEF Begin
<1>10. CASE Write
  <2>1. commit.step = "append" /\ up /\ store' = store
    BY <1>10, CommitType DEF Write
  <2>2. commit'.step = "written" /\ commit'.command = commit.command
    BY <1>10, <2>1 DEF Write, TypeOK, Idle
  <2>3. PICK line \in Record : line.command = commit.command /\ wal' = Append(wal, line)
    BY <1>10, WriteLine
  <2>4. /\ Len(wal') = Len(wal) + 1 /\ wal'[Len(wal')] = line
        /\ \A k \in 0 .. Len(wal) : Commands(wal', k) = Commands(wal, k)
        /\ \A snap \in Image : Anchored(snap) => Anchored(snap)'
    BY <2>3, LogGrows DEF Line
  <2>5. Len(wal) = store.sequence
    BY <1>2, <2>1
  <2>6. store'.lastHash = Commands(wal', store'.sequence)
    BY <1>2, <1>3, <2>1, <2>4, <2>5
  <2>7. snapshot' # None => Anchored(snapshot)'
    BY <1>2, <1>10, <2>4 DEF Write, Anchored
  <2>8. closing'.step = "built" => Anchored(closing.snapshot)'
    BY <1>2, <1>10, <2>4 DEF Write, Anchored
  <2> QED BY <2>1, <2>2, <2>3, <2>4, <2>5, <2>6, <2>7, <2>8
<1>11. CASE Sync
  <2>1. commit.step = "written" /\ up /\ commit.command \in Command
    BY <1>11, CommitType DEF Sync
  <2>2. commit'.step # "written"
    BY <1>11, <2>1 DEF Sync, Idle, TypeOK
  <2>3. /\ store'.sequence = store.sequence + 1
        /\ store'.lastHash = Append(store.lastHash, commit.command)
    BY <1>11 DEF Sync
  <2>4. Len(wal) = store.sequence + 1 /\ wal[Len(wal)].command = commit.command
    BY <1>2, <2>1
  <2>5. Commands(wal, store.sequence + 1) = Append(Commands(wal, store.sequence), commit.command)
    <3>1. Commands(wal, store.sequence) \in Seq(Command)
      BY <1>2, <2>1 DEF TypeOK
    <3>2. store.sequence \in 0 .. Len(wal) /\ store.sequence + 1 <= Len(wal)
      BY <1>3, <2>4
    <3> QED BY <1>3, <2>4, <3>1, <3>2, CommandsNext
  <2>6. wal' = wal
    BY <1>11 DEF Sync
  <2>7. store'.lastHash = Commands(wal', store'.sequence) /\ Len(wal') = store'.sequence
    BY <1>2, <2>1, <2>3, <2>4, <2>5, <2>6
  <2> QED BY <1>4, <1>11, <2>2, <2>6, <2>7 DEF Sync
<1>12. CASE SyncFails
  BY <1>1, <1>12 DEF SyncFails
<1>13. CASE Checkpoint
  <2>1. commit.step = "checkpoint" /\ up /\ commit'.step = "reply"
    BY <1>13, CommitType DEF Checkpoint, TypeOK, Idle
  <2>2. Len(wal) = store.sequence /\ store.lastHash = Commands(wal, store.sequence)
    BY <1>2, <2>1
  <2>3. Anchored(snapshot)'
    BY <1>3, <1>13, <2>2 DEF Checkpoint, Anchored
  <2>4. closing'.step = "built" => Anchored(closing.snapshot)'
    BY <1>2, <1>13 DEF Checkpoint, Anchored
  <2> QED BY <1>13, <2>1, <2>2, <2>3, <2>4 DEF Checkpoint
<1>14. CASE Reply
  <2>1. commit.step # "written" /\ commit'.step # "written"
    BY <1>14 DEF Reply, Idle
  <2> QED BY <1>2, <1>4, <1>14, <2>1 DEF Reply
<1>15. CASE Shutdown
  <2>1. closing'.step # "built"
    BY <1>15 DEF Shutdown, TypeOK
  <2>2. snapshot' # None => Anchored(snapshot)'
    BY <1>2, <1>15 DEF Shutdown, Anchored
  <2> QED BY <1>2, <1>15, <2>1, <2>2 DEF Shutdown
<1>16. CASE BuildSnapshot
  <2>1. up
    BY <1>16 DEF BuildSnapshot, TypeOK, Open
  <2>2. store.sequence <= Len(wal) /\ store.lastHash = Commands(wal, store.sequence)
    BY <1>2, <1>3, <2>1
  <2>3. closing'.snapshot.sequence = store.sequence /\ closing'.snapshot.lastHash = store.lastHash
    BY <1>16 DEF BuildSnapshot, TypeOK
  <2>4. Anchored(closing.snapshot)'
    BY <1>16, <2>2, <2>3 DEF BuildSnapshot, Anchored
  <2>5. snapshot' # None => Anchored(snapshot)'
    BY <1>2, <1>16 DEF BuildSnapshot, Anchored
  <2> QED BY <1>2, <1>16, <2>4, <2>5 DEF BuildSnapshot
<1>17. CASE RenameSnapshot
  <2>1. closing'.step = "done"
    BY <1>17 DEF RenameSnapshot, TypeOK
  <2>2. Anchored(snapshot)'
    BY <1>2, <1>17 DEF RenameSnapshot, Anchored
  <2> QED BY <1>2, <1>17, <2>1, <2>2 DEF RenameSnapshot
<1>18. CASE Exit
  BY <1>5, <1>18 DEF Exit
<1>19. CASE UNCHANGED vars
  BY <1>2, <1>4, <1>19 DEF vars
<1> QED BY <1>6, <1>7, <1>8, <1>9, <1>10, <1>11, <1>12, <1>13, <1>14, <1>15, <1>16, <1>17,
           <1>18, <1>19 DEF Next

-----------------------------------------------------------------------------
(* The state in memory follows the log. *)

(* The reducer only adds to a state, and adds what it reduces. *)
LEMMA ReduceGrows ==
    ASSUME NEW s \in Seq(Command), NEW cmd \in Command
    PROVE  /\ ToSet(s) \cup {cmd} \subseteq ToSet(reduceRuntimeState(s, cmd))
           /\ IsPrefix(s, reduceRuntimeState(s, cmd))
<1> DEFINE t == reduceRuntimeState(s, cmd)
<1>1. CASE cmd \in ToSet(s)
  <2>1. t = s
    BY <1>1 DEF reduceRuntimeState
  <2> QED BY <1>1, <2>1 DEF IsPrefix
<1>2. CASE cmd \notin ToSet(s)
  <2>1. t = Append(s, cmd)
    BY <1>2 DEF reduceRuntimeState
  <2>2. /\ t \in Seq(Command) /\ Len(t) = Len(s) + 1 /\ Len(s) \in Nat
        /\ t[Len(s) + 1] = cmd /\ \A i \in 1 .. Len(s) : t[i] = s[i]
    BY <2>1, AppendProperties
  <2> HIDE DEF t
  <2>3. ToSet(s) \subseteq ToSet(t)
    BY <2>2 DEF ToSet
  <2>4. cmd \in ToSet(t)
    BY <2>2 DEF ToSet
  <2>5. SubSeq(s, 1, Len(s)) = SubSeq(t, 1, Len(s))
    <3>1. \A i \in 1 .. Len(s) : s[i] \in Command /\ t[i] \in Command
      BY <2>2, ElementOfSeq
    <3>2. /\ SubSeq(s, 1, Len(s)) \in Seq(Command)
          /\ Len(SubSeq(s, 1, Len(s))) = IF 1 <= Len(s) THEN Len(s) - 1 + 1 ELSE 0
          /\ \A i \in 1 .. Len(s) - 1 + 1 : SubSeq(s, 1, Len(s))[i] = s[1 + i - 1]
      BY <2>2, <3>1, SubSeqProperties
    <3>3. /\ SubSeq(t, 1, Len(s)) \in Seq(Command)
          /\ Len(SubSeq(t, 1, Len(s))) = IF 1 <= Len(s) THEN Len(s) - 1 + 1 ELSE 0
          /\ \A i \in 1 .. Len(s) - 1 + 1 : SubSeq(t, 1, Len(s))[i] = t[1 + i - 1]
      BY <2>2, <3>1, SubSeqProperties
    <3>4. \A i \in 1 .. Len(s) : SubSeq(s, 1, Len(s))[i] = SubSeq(t, 1, Len(s))[i]
      BY <2>2, <3>2, <3>3
    <3>5. Len(SubSeq(s, 1, Len(s))) = Len(s) /\ Len(SubSeq(t, 1, Len(s))) = Len(s)
      BY <2>2, <3>2, <3>3
    <3> QED BY <3>2, <3>3, <3>4, <3>5, SeqEqual
  <2>6. IsPrefix(s, t)
    BY <2>2, <2>5 DEF IsPrefix
  <2> QED BY <2>3, <2>4, <2>6 DEF t
<1> QED BY <1>1, <1>2

(* A process that comes back finds at least what it had in memory. *)
LEMMA MemoryInLog ==
    ASSUME TypeOK, up, Whole, Followed, After(Len(wal)).ok
    PROVE  /\ IsPrefix(state, After(Len(wal)).state)
           /\ acked \subseteq ToSet(After(Len(wal)).state)
<1>1. /\ wal \in Seq(Line) /\ Len(wal) \in Nat /\ snapshot \in Image \cup {None}
      /\ state \in Seq(Command)
      /\ store.sequence \in Nat
  BY DEF TypeOK
<1>2. /\ store.sequence \in {Len(wal), Len(wal) - 1}
      /\ Anchor(snapshot).sequence <= store.sequence
      /\ Holds(store.sequence, state)
      /\ acked \subseteq ToSet(state)
  BY DEF Followed
<1>3. After(store.sequence).ok
  <2>1. Len(wal) \in 0 .. Len(wal) /\ store.sequence \in 0 .. Len(wal)
    BY <1>1, <1>2
  <2> QED BY <1>1, <2>1, ReplayedChain DEF After
<1>4. After(store.sequence).state = state
  BY <1>2, <1>3 DEF Holds
<1>5. CASE store.sequence = Len(wal)
  BY <1>1, <1>2, <1>4, <1>5 DEF IsPrefix
<1>6. CASE store.sequence = Len(wal) - 1
  <2> DEFINE k == store.sequence
  <2>1. k \in 0 .. Len(wal) /\ k + 1 <= Len(wal) /\ Len(wal) = k + 1
    BY <1>1, <1>6
  <2>2. Anchor(snapshot).sequence <= k /\ k >= Anchor(snapshot).sequence
    <3>1. Anchor(snapshot).sequence \in Nat
      BY <1>1, AnchorType DEF Image
    <3> QED BY <1>1, <1>2, <3>1
  <2>3. Chained(wal, k + 1)
    BY <2>1 DEF Whole
  <2>4. After(k + 1).state = reduceRuntimeState(After(k).state, wal[k + 1].command)
    <3> HIDE DEF k
    <3>1. After(k + 1).ok
      BY <2>1
    <3> QED BY <1>1, <2>1, <2>2, <2>3, <3>1, ReplayedNext DEF After
  <2>5. wal[k + 1].command \in Command
    <3>1. k + 1 \in 1 .. k + 1
      BY <2>1
    <3> QED BY <2>3, <3>1 DEF Chained, Record
  <2>6. After(Len(wal)).state = reduceRuntimeState(state, wal[k + 1].command)
    BY <1>4, <2>1, <2>4
  <2> QED BY <1>1, <1>2, <2>5, <2>6, ReduceGrows
<1> QED BY <1>2, <1>5, <1>6

LEMMA FollowingInit == Init => Following
<1> SUFFICES ASSUME Init PROVE Following
  OBVIOUS
<1>1. ~ up /\ closing = Open /\ acked = {}
  BY DEF Init
<1> QED BY <1>1 DEF Following, Followed

(* A log that is whole with a line more was whole without. *)
LEMMA WholeBefore ==
    ASSUME TypeOK, NEW line \in Line, wal' = Append(wal, line), Whole'
    PROVE  /\ Whole
           /\ line \in Record /\ line.sequence = Len(wal) + 1
           /\ \A k \in 0 .. Len(wal) : snapshot' = snapshot => After(k)' = After(k)
<1>1. wal \in Seq(Line) /\ Len(wal) \in Nat
  BY DEF TypeOK
<1>2. /\ Len(wal') = Len(wal) + 1 /\ wal'[Len(wal) + 1] = line
      /\ Chained(wal', Len(wal)) <=> Chained(wal, Len(wal))
  BY <1>1, AppendedLine
<1>3. Chained(wal', Len(wal) + 1)
  BY <1>2 DEF Whole
<1>4. Chained(wal', Len(wal))
  BY <1>1, <1>3 DEF Chained
<1>5. line \in Record /\ line.sequence = Len(wal) + 1
  BY <1>1, <1>2, <1>3 DEF Chained
<1>6. \A k \in 0 .. Len(wal) : snapshot' = snapshot => After(k)' = After(k)
  BY <1>1, ReplayedAppended DEF After
<1> QED BY <1>2, <1>4, <1>5, <1>6 DEF Whole

LEMMA FollowingStep == TypeOK /\ Following /\ [Next]_vars => Following'
<1> SUFFICES ASSUME TypeOK, Following, [Next]_vars, "shutdown" \notin faults'
             PROVE  closing' = Open /\ (Whole' => Followed')
  BY DEF Following
<1>1. faults' = faults
  BY DEF Next, vars, Start, Crash, CrashInWrite, Begin, Write, Sync, SyncFails, Checkpoint,
         Reply, Shutdown, BuildSnapshot, RenameSnapshot, Exit
<1>2. "shutdown" \notin faults /\ closing = Open /\ (Whole => Followed)
  BY <1>1 DEF Following
<1>3. closing.step = "open"
  BY <1>2 DEF Open
<1>4. /\ wal \in Seq(Line) /\ Len(wal) \in Nat /\ store.sequence \in Nat
      /\ state \in Seq(Command) /\ snapshot \in Image \cup {None}
      /\ Anchor(snapshot).sequence \in Nat
  BY AnchorType DEF TypeOK, Image
<1>5. ASSUME wal' = wal, snapshot' = snapshot
      PROVE  Whole' = Whole /\ \A k : After(k)' = After(k)
  BY <1>5 DEF Whole, After
<1>6. CASE Start
  <2>1. ~ up /\ up' /\ commit = Idle /\ commit' = commit /\ wal' = wal /\ snapshot' = snapshot
        /\ closing' = closing /\ acked' = acked
    BY <1>6 DEF Start, TypeOK
  <2>2. /\ Recovered.ok /\ Recovered = After(Len(wal)) /\ Recovered.sequence = Len(wal)
        /\ Recovered.lastHash = Commands(wal, Len(wal)) /\ Whole
        /\ Anchor(snapshot).sequence <= Len(wal)
    BY <1>6, RecoveredIs DEF Start
  <2>3. /\ store'.sequence = Len(wal) /\ store'.lastHash = Commands(wal, Len(wal))
        /\ state' = After(Len(wal)).state
    BY <1>6, <2>2 DEF Start
  <2>4. acked \subseteq ToSet(After(Len(wal)).state)
    BY <1>2, <2>1, <2>2 DEF Followed
  <2>5. commit'.step = "idle"
    BY <2>1 DEF Idle
  <2>6. After(Len(wal))' = After(Len(wal)) /\ Anchor(snapshot)' = Anchor(snapshot)
    BY <2>1 DEF After
  <2>7. Holds(store.sequence, state)'
    BY <1>5, <2>1, <2>3 DEF Holds
  <2>8. Followed'
    BY <2>1, <2>2, <2>3, <2>4, <2>5, <2>6, <2>7 DEF Followed
  <2> QED BY <1>2, <2>1, <2>8
<1>7. CASE Crash
  <2>1. ~ up' /\ wal' = wal /\ snapshot' = snapshot /\ acked' = acked /\ closing' = Open /\ up
    BY <1>7 DEF Crash, LoseMemory
  <2>2. Whole /\ After(Len(wal)).ok => acked \subseteq ToSet(After(Len(wal)).state)
    BY <1>2, <2>1, MemoryInLog
  <2>3. After(Len(wal))' = After(Len(wal)) /\ Whole' = Whole
    BY <2>1 DEF After, Whole
  <2> QED BY <2>1, <2>2, <2>3 DEF Followed
<1>8. CASE CrashInWrite
  <2>1. wal' = Append(wal, Torn) /\ closing' = Open
    BY <1>8 DEF CrashInWrite, LoseMemory
  <2>2. Whole' => Torn \in Record
    BY <2>1, WholeBefore DEF Line
  <2> QED BY <2>1, <2>2, StoreAssumption
<1>9. CASE Begin
  <2>1. /\ wal' = wal /\ snapshot' = snapshot /\ closing' = closing /\ acked' = acked
        /\ up' = up /\ up /\ store' = store /\ state' = state
    BY <1>9 DEF Begin
  <2>2. commit'.step = "append"
    BY <1>9 DEF Begin
  <2>3. Anchor(snapshot)' = Anchor(snapshot) /\ Whole' = Whole
        /\ Holds(store.sequence, state)' = Holds(store.sequence, state)
    BY <2>1 DEF Whole, Holds, After
  <2> QED BY <1>2, <2>1, <2>2, <2>3 DEF Followed
<1>10. CASE Write
  <2>1. /\ snapshot' = snapshot /\ closing' = closing /\ acked' = acked
        /\ up' = up /\ store' = store /\ state' = state
        /\ commit.step = "append" /\ up
    BY <1>10, CommitType DEF Write
  <2>2. commit'.step = "written" /\ commit'.command = commit.command
    BY <1>10, <2>1 DEF Write, TypeOK, Idle
  <2>3. PICK line \in Record :
          /\ line.sequence = store.sequence + 1
          /\ line.command = commit.command /\ wal' = Append(wal, line)
    BY <1>10, WriteLine
  <2>4. Len(wal') = Len(wal) + 1 /\ wal'[Len(wal')] = line
        /\ \A k \in 0 .. Len(wal) : Commands(wal', k) = Commands(wal, k)
    BY <2>3, LogGrows DEF Line
  <2>5. ASSUME Whole'
        PROVE  Followed'
    <3>1. /\ Whole /\ line.sequence = Len(wal) + 1
          /\ \A k \in 0 .. Len(wal) : After(k)' = After(k)
      BY <2>1, <2>3, <2>5, WholeBefore DEF Line
    <3>2. Followed
      BY <1>2, <3>1
    <3>3. store.sequence = Len(wal)
      BY <1>4, <2>3, <3>1
    <3>4. store'.sequence = Len(wal') - 1 /\ store'.sequence \in {Len(wal'), Len(wal') - 1}
      BY <1>4, <2>1, <2>4, <3>3
    <3>5. store'.lastHash = Commands(wal', store'.sequence)
      BY <1>4, <2>1, <2>4, <3>2, <3>3 DEF Followed
    <3>6. Anchor(snapshot)'.sequence <= store'.sequence /\ acked' \subseteq ToSet(state')
      BY <2>1, <3>2 DEF Followed
    <3>7. Holds(store.sequence, state)'
      <4>1. Holds(store.sequence, state)
        BY <2>1, <3>2 DEF Followed
      <4>2. After(store.sequence)' = After(store.sequence)
        <5>1. store.sequence \in 0 .. Len(wal) /\ store' = store
          BY <1>4, <2>1, <3>3
        <5>2. Replayed(wal', snapshot')[store.sequence] = Replayed(wal, snapshot)[store.sequence]
          BY <1>4, <2>1, <2>3, <5>1, ReplayedAppended DEF Line
        <5> QED BY <5>1, <5>2 DEF After
      <4> QED BY <2>1, <4>1, <4>2 DEF Holds
    <3> QED BY <2>1, <2>2, <2>3, <2>4, <3>4, <3>5, <3>6, <3>7 DEF Followed
  <2> QED BY <1>2, <2>1, <2>5
<1>11. CASE Sync
  <2> DEFINE k == store.sequence
  <2> DEFINE cmd == commit.command
  <2>1. /\ commit.step = "written" /\ up /\ cmd \in Command
        /\ wal' = wal /\ snapshot' = snapshot /\ up' = up /\ closing' = closing /\ acked' = acked
    BY <1>11, CommitType DEF Sync
  <2>2. store'.sequence = k + 1 /\ store'.lastHash = Append(store.lastHash, cmd)
    BY <1>11 DEF Sync
  <2>3. IF Throws(state, cmd) THEN state' = state /\ commit'.step = "idle"
        ELSE /\ state' = reduceRuntimeState(state, cmd)
             /\ commit'.step \in {"checkpoint", "reply"} /\ commit'.command = cmd
    BY <1>11, <2>1 DEF Sync, Idle, TypeOK
  <2>4. ASSUME Whole
        PROVE  Followed'
    <3>1. /\ k = Len(wal) - 1 /\ wal[Len(wal)].command = cmd
          /\ store.lastHash = Commands(wal, k)
          /\ Anchor(snapshot).sequence <= k
          /\ Holds(k, state)
          /\ acked \subseteq ToSet(state)
      BY <1>2, <2>1, <2>4 DEF Followed
    <3>2. /\ k \in 0 .. Len(wal) /\ k + 1 <= Len(wal) /\ k + 1 = Len(wal)
          /\ k >= Anchor(snapshot).sequence /\ Anchor(snapshot).sequence <= k + 1
      BY <1>4, <3>1
    <3>3. store'.sequence = Len(wal') /\ store'.lastHash = Commands(wal', store'.sequence)
      <4>1. Commands(wal, k) \in Seq(Command)
        BY <3>1 DEF TypeOK
      <4>2. Commands(wal, k + 1) = Append(Commands(wal, k), wal[k + 1].command)
        BY <1>4, <3>2, <4>1, CommandsNext
      <4> QED BY <2>1, <2>2, <3>1, <3>2, <4>2
    <3>4. Holds(store.sequence, state)'
      <4>1. /\ After(k + 1).ok <=> After(k).ok /\ ~ Throws(After(k).state, cmd)
            /\ After(k + 1).ok => After(k + 1).state = reduceRuntimeState(After(k).state, cmd)
        <5>1. Chained(wal, k + 1) /\ wal[k + 1].command = cmd
          BY <2>4, <3>1, <3>2 DEF Whole
        <5> HIDE DEF k, cmd
        <5> QED BY <1>4, <3>2, <5>1, ReplayedNext DEF After
      <4>2. After(k + 1).ok => After(k + 1).state = state'
        BY <2>3, <3>1, <4>1 DEF Holds
      <4>3. After(store.sequence)' = After(k + 1)
        BY <2>1, <2>2 DEF After
      <4> QED BY <4>2, <4>3 DEF Holds
    <3>5. /\ acked' \subseteq ToSet(state')
          /\ commit'.step \in {"checkpoint", "reply"} => commit'.command \in ToSet(state')
      BY <1>4, <2>1, <2>3, <3>1, ReduceGrows
    <3>6. Anchor(snapshot)'.sequence <= store'.sequence /\ commit'.step # "written"
      BY <2>1, <2>2, <2>3, <3>2
    <3> QED BY <2>1, <3>3, <3>4, <3>5, <3>6 DEF Followed
  <2>5. Whole' = Whole
    BY <2>1 DEF Whole
  <2> QED BY <1>2, <2>1, <2>4, <2>5
<1>12. CASE SyncFails
  <2>1. /\ wal' = wal /\ snapshot' = snapshot /\ closing' = closing /\ acked' = acked
        /\ up' = up /\ store' = store /\ state' = state /\ up
    BY <1>12, CommitType DEF SyncFails
  <2>2. commit'.step = "idle"
    BY <1>12 DEF SyncFails, Idle
  <2>3. Anchor(snapshot)' = Anchor(snapshot) /\ Whole' = Whole
        /\ Holds(store.sequence, state)' = Holds(store.sequence, state)
    BY <2>1 DEF Whole, Holds, After
  <2> QED BY <1>2, <2>1, <2>2, <2>3 DEF Followed
<1>13. CASE Checkpoint
  <2> DEFINE snap == [sequence |-> store.sequence, lastHash |-> store.lastHash, state |-> state]
  <2>1. /\ wal' = wal /\ snapshot' = snap /\ closing' = closing /\ acked' = acked
        /\ up' = up /\ store' = store /\ state' = state /\ up /\ commit.step = "checkpoint"
    BY <1>13, CommitType DEF Checkpoint
  <2>2. commit'.step = "reply" /\ commit'.command = commit.command
    BY <1>13, <2>1 DEF Checkpoint, TypeOK, Idle
  <2>3. snap \in Image /\ Anchor(snap) = snap
    BY StoreAssumption DEF TypeOK, Image, Anchor
  <2>4. ASSUME Whole
        PROVE  Followed'
    <3>1. Followed
      BY <1>2, <2>4
    <3>2. store.sequence = Len(wal) /\ commit.command \in ToSet(state)
      BY <2>1, <3>1 DEF Followed
    <3>3. Holds(store.sequence, state)'
      <4>1. Replayed(wal, snap)[store.sequence].state = state
        <5>1. store.sequence \in 0 .. Len(wal) /\ store.sequence <= Anchor(snap).sequence
              /\ Anchor(snap).state = state
          BY <1>4, <2>3, <3>2
        <5> HIDE DEF snap
        <5> QED BY <1>4, <2>3, <5>1, ReplayedBelowAnchor
      <4> HIDE DEF snap
      <4> QED BY <2>1, <4>1 DEF Holds, After
    <3>4. Anchor(snapshot)'.sequence <= store'.sequence
      BY <1>4, <2>1, <2>3
    <3>5. store'.lastHash = Commands(wal', store'.sequence) /\ acked' \subseteq ToSet(state')
      BY <2>1, <3>1 DEF Followed
    <3> QED BY <2>1, <2>2, <3>2, <3>3, <3>4, <3>5 DEF Followed
  <2>5. Whole' = Whole
    BY <2>1 DEF Whole
  <2> QED BY <1>2, <2>1, <2>4, <2>5
<1>14. CASE Reply
  <2>1. /\ wal' = wal /\ snapshot' = snapshot /\ closing' = closing
        /\ acked' = acked \cup {commit.command} /\ commit.step = "reply"
        /\ up' = up /\ store' = store /\ state' = state /\ up
    BY <1>14, CommitType DEF Reply
  <2>2. commit'.step = "idle"
    BY <1>14 DEF Reply, Idle
  <2>3. Anchor(snapshot)' = Anchor(snapshot) /\ Whole' = Whole
        /\ Holds(store.sequence, state)' = Holds(store.sequence, state)
    BY <2>1 DEF Whole, Holds, After
  <2>4. Whole => acked' \subseteq ToSet(state')
    BY <1>2, <2>1 DEF Followed
  <2> QED BY <1>2, <2>1, <2>2, <2>3, <2>4 DEF Followed
<1>15. CASE Shutdown \/ BuildSnapshot \/ RenameSnapshot
  BY <1>2, <1>3, <1>15 DEF Shutdown, BuildSnapshot, RenameSnapshot
<1>16. CASE Exit
  BY <1>3, <1>16 DEF Exit
<1>17. CASE UNCHANGED vars
  <2>1. /\ wal' = wal /\ snapshot' = snapshot /\ closing' = closing /\ acked' = acked
        /\ up' = up /\ store' = store /\ state' = state /\ commit' = commit
    BY <1>17 DEF vars
  <2>2. Anchor(snapshot)' = Anchor(snapshot) /\ Whole' = Whole
        /\ Holds(store.sequence, state)' = Holds(store.sequence, state)
        /\ After(Len(wal))' = After(Len(wal))
    BY <2>1 DEF Whole, Holds, After
  <2> QED BY <1>2, <2>1, <2>2 DEF Followed
<1> QED BY <1>6, <1>7, <1>8, <1>9, <1>10, <1>11, <1>12, <1>13, <1>14, <1>15, <1>16, <1>17
        DEF Next

-----------------------------------------------------------------------------
(* With crashes alone the log can always be replayed. *)

LEMMA ReplayableInit == Init => Replayable
<1> SUFFICES ASSUME Init PROVE Replayable
  OBVIOUS
<1>1. wal = <<>> /\ snapshot = None /\ commit.step = "idle"
  BY DEF Init, Idle
<1>2. Whole
  BY <1>1 DEF Whole, Chained
<1>3. After(Len(wal)).ok
  <2>1. <<>> \in Seq(Line) /\ Len(<<>>) = 0
    BY EmptySeq
  <2>2. Replayed(<<>>, None)[0] = AtFirst(None)
    BY <2>1, ReplayedUnfolds
  <2>3. After(Len(wal)) = AtFirst(None)
    BY <1>1, <2>1, <2>2 DEF After
  <2> QED BY <2>3 DEF AtFirst
<1> QED BY <1>1, <1>2, <1>3 DEF Replayable

(* A record that is written can be replayed, onto the state it was checked with. *)
LEMMA WriteReplays ==
    ASSUME TypeOK, Aligned, Following, Replayable, faults \subseteq {"crash"}, Write
    PROVE  /\ Whole'
           /\ After(Len(wal))'.ok
           /\ After(Len(wal)).state = state
           /\ commit.command \in Command \ ToSet(state)
           /\ After(Len(wal))'.state = Append(state, commit.command)
<1>1. /\ wal \in Seq(Line) /\ Len(wal) \in Nat /\ snapshot \in Image \cup {None}
      /\ Anchor(snapshot).sequence \in Nat
  BY AnchorType DEF TypeOK, Image
<1>2. /\ commit.step = "append" /\ up /\ commit.command \in Command /\ snapshot' = snapshot
  BY CommitType DEF Write
<1>3. /\ Whole /\ After(Len(wal)).ok
      /\ ~ Throws(state, commit.command) /\ commit.command \notin ToSet(state)
  BY <1>2 DEF Replayable
<1>4. Len(wal) = store.sequence /\ store.lastHash = Commands(wal, store.sequence)
  BY <1>2 DEF Aligned
<1>5. Anchor(snapshot).sequence <= Len(wal) /\ After(Len(wal)).state = state
  <2>1. Followed
    BY <1>3 DEF Following
  <2> QED BY <1>2, <1>3, <1>4, <2>1 DEF Followed, Holds
<1>6. PICK line \in Record :
        /\ line.sequence = store.sequence + 1 /\ line.previousHash = store.lastHash
        /\ line.command = commit.command /\ wal' = Append(wal, line)
  BY WriteLine
<1> DEFINE n == Len(wal)
<1> DEFINE longer == Append(wal, line)
<1>7. /\ longer \in Seq(Line) /\ Len(longer) = n + 1 /\ longer[n + 1] = line
      /\ Commands(longer, n) = Commands(wal, n)
      /\ Chained(longer, n) <=> Chained(wal, n)
      /\ n \in 0 .. Len(longer) /\ n + 1 <= Len(longer) /\ n \in 0 .. Len(wal) /\ n \in Nat
  BY <1>1, AppendedLine DEF Line
<1>8. Replayed(longer, snapshot)[n] = After(n)
  BY <1>1, <1>7, ReplayedAppended DEF Line, After
<1> HIDE DEF longer, n
<1>9. Chained(longer, n + 1)
  <2>1. Chained(longer, n)
    BY <1>3, <1>7 DEF Whole, n
  <2>2. line.sequence = n + 1 /\ line.previousHash = Commands(longer, n)
    BY <1>4, <1>6, <1>7 DEF n
  <2>3. ASSUME NEW i \in 1 .. n + 1
        PROVE  /\ longer[i] \in Record
               /\ longer[i].sequence = i
               /\ longer[i].previousHash = Commands(longer, i - 1)
    <3>1. CASE i = n + 1
      <4>1. i - 1 = n
        BY <1>7, <3>1
      <4> QED BY <1>7, <2>2, <3>1, <4>1
    <3>2. CASE i # n + 1
      <4>1. i \in 1 .. n
        BY <1>7, <3>2
      <4> QED BY <2>1, <4>1 DEF Chained
    <3> QED BY <3>1, <3>2
  <2> QED BY <2>3 DEF Chained
<1>10. /\ Replayed(longer, snapshot)[n + 1].ok
       /\ Replayed(longer, snapshot)[n + 1].state = reduceRuntimeState(state, commit.command)
  <2>1. n >= Anchor(snapshot).sequence
    BY <1>1, <1>5 DEF n
  <2>2. /\ Replayed(longer, snapshot)[n].ok /\ Replayed(longer, snapshot)[n].state = state
        /\ longer[n + 1].command = commit.command
    BY <1>3, <1>5, <1>6, <1>7, <1>8 DEF n
  <2> QED BY <1>1, <1>3, <1>7, <1>9, <2>1, <2>2, ReplayedNext
<1>11. Len(wal') = n + 1 /\ wal' = longer
  BY <1>6, <1>7 DEF longer
<1>12. reduceRuntimeState(state, commit.command) = Append(state, commit.command)
  BY <1>3 DEF reduceRuntimeState
<1> QED BY <1>2, <1>3, <1>5, <1>9, <1>10, <1>11, <1>12 DEF Whole, After

(* A checkpoint leaves recovery with the state it saved. *)
LEMMA CheckpointReplays ==
    ASSUME TypeOK, Aligned, Following, Replayable, faults \subseteq {"crash"}, Checkpoint
    PROVE  /\ Whole'
           /\ After(Len(wal))'.ok
           /\ After(Len(wal)).state = state
           /\ After(Len(wal))'.state = state
<1> DEFINE snap == [sequence |-> store.sequence, lastHash |-> store.lastHash, state |-> state]
<1>1. /\ commit.step = "checkpoint" /\ up /\ snapshot' = snap /\ wal' = wal
  BY CommitType DEF Checkpoint
<1>2. wal \in Seq(Line) /\ Len(wal) \in Nat
  BY DEF TypeOK
<1>3. snap \in Image /\ Anchor(snap) = snap
  BY StoreAssumption DEF TypeOK, Image, Anchor
<1>4. Whole /\ After(Len(wal)).ok
  BY DEF Replayable
<1>5. store.sequence = Len(wal) /\ After(Len(wal)).state = state
  <2>1. Followed
    BY <1>4 DEF Following
  <2> QED BY <1>1, <1>4, <2>1 DEF Followed, Holds
<1>6. Len(wal) \in 0 .. Len(wal) /\ Len(wal) <= Anchor(snap).sequence /\ Anchor(snap).state = state
  BY <1>2, <1>3, <1>5
<1> HIDE DEF snap
<1>7. Replayed(wal, snap)[Len(wal)].ok /\ Replayed(wal, snap)[Len(wal)].state = state
  BY <1>2, <1>3, <1>4, <1>6, ReplayedBelowAnchor DEF Whole
<1> QED BY <1>1, <1>4, <1>5, <1>7 DEF Whole, After

LEMMA ReplayableStep ==
    TypeOK /\ Aligned /\ Following /\ Replayable /\ [Next]_vars => Replayable'
<1> SUFFICES ASSUME TypeOK, Aligned, Following, Replayable, [Next]_vars,
                    faults' \subseteq {"crash"}
             PROVE  /\ Whole'
                    /\ After(Len(wal))'.ok
                    /\ commit'.step \in {"append", "written"} =>
                         /\ ~ Throws(state', commit'.command)
                         /\ commit'.command \notin ToSet(state')
  BY DEF Replayable, Throws
<1>1. faults' = faults
  BY DEF Next, vars, Start, Crash, CrashInWrite, Begin, Write, Sync, SyncFails, Checkpoint,
         Reply, Shutdown, BuildSnapshot, RenameSnapshot, Exit
<1>2. /\ faults \subseteq {"crash"} /\ Whole /\ After(Len(wal)).ok
      /\ commit.step \in {"append", "written"} =>
           ~ Throws(state, commit.command) /\ commit.command \notin ToSet(state)
  BY <1>1 DEF Replayable
<1>3. closing.step = "open"
  BY <1>2 DEF Following, Open
<1>4. ASSUME wal' = wal, snapshot' = snapshot
      PROVE  Whole' /\ After(Len(wal))'.ok
  BY <1>2, <1>4 DEF Whole, After
<1>5. ASSUME commit' = Idle
      PROVE  commit'.step \notin {"append", "written"}
  BY <1>5 DEF Idle
<1>6. CASE Start
  <2>1. commit' = Idle
    BY <1>6 DEF Start, TypeOK
  <2> QED BY <1>4, <1>5, <1>6, <2>1 DEF Start
<1>7. CASE Crash
  BY <1>4, <1>5, <1>7 DEF Crash, LoseMemory
<1>8. CASE Begin
  <2>1. PICK cmd \in Command \ ToSet(state) :
          /\ Throws(state, cmd) => "overdraft" \in faults
          /\ commit' = [step |-> "append", command |-> cmd]
    BY <1>8 DEF Begin
  <2>2. state' = state /\ wal' = wal /\ snapshot' = snapshot /\ commit'.command = cmd
    BY <1>8, <2>1 DEF Begin
  <2>3. ~ Throws(state', cmd)
    BY <1>2, <2>1, <2>2 DEF Throws
  <2> QED BY <1>4, <2>1, <2>2, <2>3
<1>9. CASE Write
  <2>1. Whole' /\ After(Len(wal))'.ok
    BY <1>2, <1>9, WriteReplays
  <2>2. commit.step = "append" /\ commit'.command = commit.command /\ state' = state
    BY <1>9 DEF Write, TypeOK, Idle
  <2> QED BY <1>2, <2>1, <2>2 DEF Throws
<1>10. CASE Sync
  <2>1. commit'.step \notin {"append", "written"}
    BY <1>10 DEF Sync, TypeOK, Idle
  <2> QED BY <1>4, <1>10, <2>1 DEF Sync
<1>11. CASE Checkpoint
  <2>1. Whole' /\ After(Len(wal))'.ok
    BY <1>2, <1>11, CheckpointReplays
  <2>2. commit'.step = "reply"
    BY <1>11 DEF Checkpoint, TypeOK, Idle
  <2> QED BY <2>1, <2>2
<1>12. CASE Reply
  BY <1>4, <1>5, <1>12 DEF Reply
<1>13. CASE CrashInWrite \/ SyncFails \/ Shutdown
  BY <1>2, <1>13 DEF CrashInWrite, SyncFails, Shutdown
<1>14. CASE BuildSnapshot \/ RenameSnapshot \/ Exit
  BY <1>3, <1>14 DEF BuildSnapshot, RenameSnapshot, Exit
<1>15. CASE UNCHANGED vars
  BY <1>2, <1>4, <1>15 DEF vars, Throws
<1> QED BY <1>6, <1>7, <1>8, <1>9, <1>10, <1>11, <1>12, <1>13, <1>14, <1>15 DEF Next

-----------------------------------------------------------------------------
(* The results. *)

(* Through every interleaving of commits, checkpoints, shutdown, crashes and   *)
(* failures, the files, the store and the memory stand as StoreInv says: with  *)
(* crashes alone the log is one chain that can be replayed (Replayable); while *)
(* every sync succeeds store and snapshot are at places of the log (Aligned);  *)
(* and without a shutdown handler the memory is what the log replays to, as    *)
(* long as the log is one chain (Following).  After a failed sync it may not   *)
(* be: the next record repeats the number (src/v1/distributed-node.ts:229).    *)
THEOREM StoreInvariant == Spec => []StoreInv
<1>1. Init => StoreInv
  BY TypeInit, AlignedInit, FollowingInit, ReplayableInit, TypedReturned DEF StoreInv
<1>2. StoreInv /\ [Next]_vars => StoreInv'
  <2>1. TypeOK' => Returned'
    BY TypedReturned, PTL
  <2> QED BY <2>1, TypeStep, AlignedStep, FollowingStep, ReplayableStep DEF StoreInv
<1> QED BY <1>1, <1>2, PTL DEF Spec

(* The snapshot never runs ahead of the log or beside it, even when the shutdown *)
(* handler wrote it beside a commit.                                             *)
THEOREM SnapshotIsAnchored == Spec => []SnapshotAnchored
<1>1. StoreInv => SnapshotAnchored
  BY DEF StoreInv, Aligned, Anchored, Commands, SnapshotAnchored
<1> QED BY <1>1, StoreInvariant, PTL

(* Where nothing worse happens than that the process ends, at any await, it can *)
(* be started again from its files.                                             *)
THEOREM RecoveryAlwaysSucceeds == Spec => []RecoverySucceeds
<1>1. StoreInv => RecoverySucceeds
  <2> SUFFICES ASSUME StoreInv, faults \subseteq {"crash"} PROVE Recovered.ok
    BY DEF RecoverySucceeds, Restartable
  <2> DEFINE anchor == Anchor(snapshot)
  <2>1. /\ TypeOK /\ Whole /\ After(Len(wal)).ok
        /\ snapshot # None => snapshot \in Image /\ Anchored(snapshot)
    BY DEF StoreInv, Aligned, Replayable, TypeOK
  <2>2. wal \in Seq(Line) /\ Len(wal) \in Nat
    BY <2>1 DEF TypeOK
  <2>3. CASE snapshot = None
    <3>1. anchor.sequence = 0
      BY <2>3 DEF Anchor
    <3> HIDE DEF anchor
    <3>2. anchor.sequence <= Len(wal) /\ ~ (anchor.sequence > 0)
      BY <2>2, <3>1
    <3> QED BY <2>1, <3>2, RecoveredIs DEF anchor
  <2>4. CASE snapshot # None
    <3>1. /\ anchor = snapshot /\ anchor.sequence \in Nat
          /\ anchor.sequence <= Len(wal) /\ anchor.lastHash = Commands(wal, anchor.sequence)
      BY <2>1, <2>4 DEF Anchor, Image, Anchored
    <3>2. ASSUME anchor.sequence > 0
          PROVE  recordHash(wal[anchor.sequence]) = anchor.lastHash
      <4> DEFINE k == anchor.sequence - 1
      <4>1. k \in 0 .. Len(wal) /\ k + 1 <= Len(wal) /\ k + 1 = anchor.sequence
        BY <2>2, <3>1, <3>2
      <4> HIDE DEF k, anchor
      <4>2. Chained(wal, k) /\ wal[k + 1].previousHash = Commands(wal, k)
        <5>1. k + 1 \in 1 .. Len(wal) /\ (k + 1) - 1 = k /\ \A i \in 1 .. k : i \in 1 .. Len(wal)
          BY <2>2, <4>1
        <5> QED BY <2>1, <5>1 DEF Whole, Chained
      <4>3. Commands(wal, k) \in Seq(Command)
        BY <2>2, <4>1, <4>2, CommandsType
      <4>4. Commands(wal, k + 1) = Append(Commands(wal, k), wal[k + 1].command)
        BY <2>2, <4>1, <4>3, CommandsNext
      <4> QED BY <3>1, <4>1, <4>2, <4>4 DEF recordHash
    <3> HIDE DEF anchor
    <3> QED BY <2>1, <3>1, <3>2, RecoveredIs DEF anchor
  <2> QED BY <2>3, <2>4
<1> QED BY <1>1, StoreInvariant, PTL

(* Without a shutdown handler, a recovery that succeeds gives back every        *)
(* acknowledged command and the state in memory, through crashes, torn lines,   *)
(* failed syncs and commits whose reducer threw.                                *)
THEOREM RecoveryIsFaithful == Spec => []RecoveryFaithful
<1>1. StoreInv => RecoveryFaithful
  <2> SUFFICES ASSUME StoreInv, "shutdown" \notin faults, Recovered.ok
               PROVE  /\ acked \subseteq ToSet(Recovered.state)
                      /\ up => IsPrefix(state, Recovered.state)
    BY DEF RecoveryFaithful, Faithful
  <2>1. TypeOK /\ After(Len(wal)).ok /\ Whole /\ Recovered.state = After(Len(wal)).state
    BY RecoveredIs DEF StoreInv
  <2>2. Followed
    BY <2>1 DEF StoreInv, Following
  <2>3. CASE up
    BY <2>1, <2>2, <2>3, MemoryInLog
  <2>4. CASE ~ up
    BY <2>1, <2>2, <2>4 DEF Followed
  <2> QED BY <2>3, <2>4
<1> QED BY <1>1, StoreInvariant, PTL

(* What a process would come back with changes by the command of a write, and *)
(* by nothing else.                                                           *)
LEMMA RecoveredKept ==
    ASSUME wal' = wal, snapshot' = snapshot
    PROVE  Recovered.state' = Recovered.state
BY DEF Recovered

LEMMA SameToSet == \A s : Log!ToSet(s) = ToSet(s)
BY DEF Log!ToSet, ToSet

LEMMA CommandLogStep ==
    ASSUME StoreInv, StoreInv', [Next]_vars
    PROVE  \/ Log!Next
           \/ UNCHANGED <<Durable(Recovered.state, <<>>), Durable(acked, {})>>
<1>1. faults' = faults
  BY DEF Next, vars, Start, Crash, CrashInWrite, Begin, Write, Sync, SyncFails, Checkpoint,
         Reply, Shutdown, BuildSnapshot, RenameSnapshot, Exit
<1>2. CASE ~ (faults \subseteq {"crash"})
  BY <1>1, <1>2 DEF Durable
<1>3. CASE faults \subseteq {"crash"}
  <2>1. /\ Durable(Recovered.state, <<>>) = Recovered.state /\ Durable(acked, {}) = acked
        /\ Durable(Recovered.state, <<>>)' = Recovered.state' /\ Durable(acked, {})' = acked'
    BY <1>1, <1>3 DEF Durable
  <2>2. /\ TypeOK /\ TypeOK' /\ Aligned /\ Following /\ Replayable /\ Whole
        /\ Recovered.state = After(Len(wal)).state
        /\ Recovered.state' = After(Len(wal))'.state
    BY <1>3 DEF StoreInv, Replayable, Returned
  <2>3. CASE Write
    <3>1. /\ commit.command \in Command \ ToSet(Recovered.state)
          /\ Recovered.state' = Append(Recovered.state, commit.command)
      BY <1>3, <2>2, <2>3, WriteReplays
    <3>2. acked' = acked
      BY <2>3 DEF Write
    <3>3. Log!Accept
      BY <2>1, <3>1, <3>2, SameToSet DEF Log!Accept
    <3> QED BY <3>3 DEF Log!Next
  <2>4. CASE Checkpoint
    <3>1. Recovered.state' = Recovered.state
      BY <1>3, <2>2, <2>4, CheckpointReplays
    <3> QED BY <2>1, <2>4, <3>1 DEF Checkpoint
  <2>5. CASE Reply
    <3>1. Recovered.state' = Recovered.state
      BY <2>5, RecoveredKept DEF Reply
    <3>2. commit.command \in ToSet(Recovered.state)
      <4>1. commit.step = "reply" /\ up
        BY <2>2, <2>5, CommitType DEF Reply
      <4>2. Followed /\ After(Len(wal)).ok
        BY <1>3, <2>2 DEF Following, Replayable
      <4>3. store.sequence = Len(wal) /\ commit.command \in ToSet(state)
        BY <4>1, <4>2 DEF Followed
      <4> QED BY <2>2, <4>1, <4>2, <4>3 DEF Followed, Holds
    <3>3. Log!Acknowledge
      BY <2>1, <2>5, <3>1, <3>2, SameToSet DEF Log!Acknowledge, Reply
    <3> QED BY <3>3 DEF Log!Next
  <2>6. CASE Start \/ Crash \/ Begin \/ Sync \/ Shutdown \/ BuildSnapshot \/ Exit
    <3>1. wal' = wal /\ snapshot' = snapshot /\ acked' = acked
      BY <2>6 DEF Start, Crash, Begin, Sync, Shutdown, BuildSnapshot, Exit
    <3> QED BY <2>1, <3>1, RecoveredKept
  <2>7. CASE CrashInWrite \/ SyncFails
    BY <1>3, <2>7 DEF CrashInWrite, SyncFails
  <2>8. CASE RenameSnapshot
    BY <1>3, <2>2, <2>8 DEF RenameSnapshot, Following, Open
  <2>9. CASE UNCHANGED vars
    <3>1. wal' = wal /\ snapshot' = snapshot /\ acked' = acked
      BY <2>9 DEF vars
    <3> QED BY <2>1, <3>1, RecoveredKept
  <2> QED BY <2>3, <2>4, <2>5, <2>6, <2>7, <2>8, <2>9 DEF Next
<1> QED BY <1>2, <1>3

(* A durable replica keeps the promise of CommandLog, with the log its files *)
(* hold, when nothing worse happens than that its process ends.              *)
THEOREM ReplicaImplementsCommandLog == Spec => ImplementsCommandLog
<1>1. Init => Log!Init
  <2> SUFFICES ASSUME Init PROVE Recovered.state = <<>> /\ acked = {}
    BY DEF Log!Init, Durable
  <2>1. TypeOK /\ wal = <<>> /\ snapshot = None
    BY TypeInit DEF Init
  <2>2. <<>> \in Seq(Line) /\ Len(<<>>) = 0
    BY EmptySeq
  <2>3. After(Len(wal)) = AtFirst(None)
    BY <2>1, <2>2, ReplayedUnfolds DEF After
  <2>4. AtFirst(None).state = <<>>
    BY DEF AtFirst, Anchor
  <2> QED BY <2>1, <2>3, <2>4, RecoveredIs DEF Init
<1>2. StoreInv /\ StoreInv' /\ [Next]_vars
        => [Log!Next]_<<Durable(Recovered.state, <<>>), Durable(acked, {})>>
  BY CommandLogStep
<1> QED BY <1>1, <1>2, StoreInvariant, PTL DEF Spec, ImplementsCommandLog, Log!Spec
=============================================================================
