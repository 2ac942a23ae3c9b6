-------------------------- MODULE AccountingProofs --------------------------
(***************************************************************************)
(* What is paid, held and given.  First of MeteredThought, for every       *)
(* number of thoughts, every reservation, every usage a completion may     *)
(* have, all funds and all faults: what a thought reserves is settled or   *)
(* given back, and what is delivered is paid for.  Then of                 *)
(* LogicalUniverse, for every number of agents, every configuration and    *)
(* everything agents choose: what they and the treasury hold is what they  *)
(* were given, a run that pauses can be resumed, and no event the engine   *)
(* determines is refused.                                                  *)
(***************************************************************************)
EXTENDS MeteredThought, LogicalUniverse, FiniteSetTheorems, SequenceTheorems,
        WellFoundedInduction, TLAPS

-----------------------------------------------------------------------------
(* MeteredThought. *)


Await == {"reserve tokens", "reserve credits", "complete", "reconcile tokens",
          "settle tokens", "reconcile credits", "settle credits", "decide",
          "catch", "catch credits", "done", "failed"}

TypeOK ==
    /\ policy \in {"topUp", "reject"}
    /\ faults \in SUBSET AllFaults
    /\ purse \in Amounts
    /\ reserved \in [Thought -> Amounts]
    /\ paid \in [Thought -> Amounts]
    /\ at \in [Thought -> Await]
    /\ delivered \in [Thought -> Amounts]
    /\ settled \in [Thought -> SUBSET Resource]
    /\ unbilled \in [Thought -> SUBSET Resource]

-----------------------------------------------------------------------------
(* The inductive invariant: what a thought has reserved, settled and paid is  *)
(* determined by the await it is at.                                          *)

\* Nothing was delivered, and nothing was paid for or settled.
Unanswered(t) == delivered[t] = Nothing /\ paid[t] = Nothing /\ settled[t] = {}

\* The reservation of a resource, once it has been reconciled.
Reconciled(t, r) == IF TopsUp(t, r) THEN delivered[t][r] ELSE Reserve[t][r]

\* Of a resource with a reservation no more is delivered than may be charged.
Covered(t, r) == HasReservation(t, r) /\ policy = "reject" => delivered[t][r] <= Reserve[t][r]

TokensSettled(t) ==
    /\ Answered(t)
    /\ settled[t] = {"tokens"}
    /\ reserved[t]["tokens"] = 0
    /\ paid[t]["tokens"] = delivered[t]["tokens"]
    /\ Covered(t, "tokens")

\* Tokens were billed as far as they may be, or nothing was.
TokensBilled(t) ==
    /\ reserved[t]["tokens"] = 0
    /\ IF Answered(t)
       THEN /\ paid[t]["tokens"] >= Min({delivered[t]["tokens"], Reserve[t]["tokens"]})
            /\ paid[t]["tokens"] < delivered[t]["tokens"] => "tokens" \in unbilled[t]
       ELSE paid[t] = Nothing

\* What the catch clause finds: tokens that are settled, or a reservation that
\* pays for them as far as it goes.
TokensCaught(t) ==
    IF "tokens" \in settled[t]
    THEN Answered(t) /\ TokensBilled(t)
    ELSE /\ paid[t] = Nothing
         /\ reserved[t]["tokens"] >= Reserve[t]["tokens"]

CreditsCaught(t) == "credits" \in settled[t] => Answered(t) /\ reserved[t]["credits"] = 0

\* Paid as agreed, as far as it has come.
Agreed(t) ==
    \A r \in Resource :
        /\ paid[t][r] <= delivered[t][r]
        /\ policy = "reject" /\ HasReservation(t, r) => paid[t][r] <= Reserve[t][r]

AwaitInv(t) ==
    /\ at[t] = "reserve tokens" => Unanswered(t) /\ reserved[t] = Nothing
    /\ at[t] = "reserve credits" =>
         /\ Unanswered(t)
         /\ reserved[t]["tokens"] = Reserve[t]["tokens"] /\ reserved[t]["credits"] = 0
    /\ at[t] = "complete" => Unanswered(t) /\ reserved[t] = Reserve[t]
    /\ at[t] = "reconcile tokens" =>
         /\ Answered(t) /\ paid[t] = Nothing /\ settled[t] = {}
         /\ reserved[t] = Reserve[t]
    /\ at[t] = "settle tokens" =>
         /\ Answered(t) /\ paid[t] = Nothing /\ settled[t] = {}
         /\ reserved[t]["tokens"] = Reconciled(t, "tokens")
         /\ reserved[t]["credits"] = Reserve[t]["credits"]
    /\ at[t] = "reconcile credits" =>
         /\ TokensSettled(t)
         /\ paid[t]["credits"] = 0 /\ reserved[t]["credits"] = Reserve[t]["credits"]
    /\ at[t] = "settle credits" =>
         /\ TokensSettled(t)
         /\ paid[t]["credits"] = 0 /\ reserved[t]["credits"] = Reconciled(t, "credits")
    /\ at[t] \in {"decide", "done"} =>
         /\ Answered(t) /\ "tokens" \in settled[t]
         /\ paid[t] = delivered[t] /\ reserved[t] = Nothing
    /\ at[t] = "catch" => TokensCaught(t) /\ CreditsCaught(t)
    /\ at[t] = "catch credits" => TokensBilled(t) /\ CreditsCaught(t)
    /\ at[t] = "failed" /\ "storageFails" \notin faults =>
         TokensBilled(t) /\ reserved[t]["credits"] = 0

ThoughtInv == TypeOK /\ \A t \in Thought : AwaitInv(t) /\ Agreed(t)

-----------------------------------------------------------------------------
(* Amounts, and what the calls of the economy do to them. *)

(* The lesser of two amounts. *)
LEMMA MinOfTwo ==
    ASSUME NEW m \in Nat, NEW n \in Nat
    PROVE  Min({m, n}) = IF m <= n THEN m ELSE n
<1>1. \E x \in {m, n} : \A y \in {m, n} : x <= y
  OBVIOUS
<1>2. Min({m, n}) \in {m, n} /\ \A y \in {m, n} : Min({m, n}) <= y
  BY <1>1 DEF Min
<1> QED BY <1>2

(* Amounts are equal when both resources are. *)
LEMMA AmountsEqual ==
    ASSUME NEW m \in Amounts, NEW n \in Amounts
    PROVE  m = n <=> m["tokens"] = n["tokens"] /\ m["credits"] = n["credits"]
<1>1. m \in [Resource -> Nat] /\ n \in [Resource -> Nat]
  BY DEF Amounts
<1>2. m = n <=> \A r \in Resource : m[r] = n[r]
  BY <1>1
<1> QED BY <1>2 DEF Resource

(* No amount is nothing of both resources. *)
LEMMA NothingType ==
    Nothing \in Amounts /\ Nothing["tokens"] = 0 /\ Nothing["credits"] = 0
BY DEF Nothing, Amounts, Resource

(* A call of the economy keeps amounts natural, and leaves every other thought *)
(* and every other resource alone.                                             *)
LEMMA CallType ==
    ASSUME TypeOK, NEW t \in Thought, NEW r \in Resource, NEW n \in Nat,
           \/ SetAside(t, r, n)
           \/ SettleReservation(t, r, n)
           \/ RefundReservation(t, r)
           \/ UNCHANGED <<purse, reserved, paid>>
    PROVE  /\ purse' \in Amounts
           /\ reserved' \in [Thought -> Amounts]
           /\ paid' \in [Thought -> Amounts]
           /\ \A u \in Thought \ {t} : reserved'[u] = reserved[u] /\ paid'[u] = paid[u]
           /\ \A s \in Resource \ {r} :
                reserved'[t][s] = reserved[t][s] /\ paid'[t][s] = paid[t][s]
<1> USE DEF TypeOK, Amounts
<1>1. CASE SetAside(t, r, n)
  BY <1>1 DEF SetAside
<1>2. CASE SettleReservation(t, r, n)
  BY <1>2 DEF SettleReservation
<1>3. CASE RefundReservation(t, r)
  BY <1>3 DEF RefundReservation
<1>4. CASE UNCHANGED <<purse, reserved, paid>>
  BY <1>4
<1> QED BY <1>1, <1>2, <1>3, <1>4

(* What each of them makes of the reservation and of what was paid. *)
LEMMA SetAsideEffect ==
    ASSUME TypeOK, NEW t \in Thought, NEW r \in Resource, NEW n \in Nat,
           SetAside(t, r, n)
    PROVE  reserved'[t][r] = reserved[t][r] + n /\ paid' = paid
<1>1. reserved \in [Thought -> [Resource -> Nat]]
  BY DEF TypeOK, Amounts
<1> QED BY <1>1 DEF SetAside

LEMMA SettleEffect ==
    ASSUME TypeOK, NEW t \in Thought, NEW r \in Resource, NEW n \in Nat,
           SettleReservation(t, r, n)
    PROVE  reserved'[t][r] = 0 /\ paid'[t][r] = paid[t][r] + n /\ n <= reserved[t][r]
<1>1. reserved \in [Thought -> [Resource -> Nat]] /\ paid \in [Thought -> [Resource -> Nat]]
  BY DEF TypeOK, Amounts
<1> QED BY <1>1 DEF SettleReservation

LEMMA RefundEffect ==
    ASSUME TypeOK, NEW t \in Thought, NEW r \in Resource, RefundReservation(t, r)
    PROVE  reserved'[t][r] = 0 /\ paid' = paid
<1>1. reserved \in [Thought -> [Resource -> Nat]]
  BY DEF TypeOK, Amounts
<1> QED BY <1>1 DEF RefundReservation

(* The amounts of one thought are natural numbers. *)
LEMMA ThoughtType ==
    ASSUME TypeOK, NEW t \in Thought
    PROVE  /\ reserved[t] \in Amounts /\ paid[t] \in Amounts
           /\ delivered[t] \in Amounts /\ Reserve[t] \in Amounts
           /\ \A r \in Resource :
                /\ reserved[t][r] \in Nat /\ paid[t][r] \in Nat
                /\ delivered[t][r] \in Nat /\ Reserve[t][r] \in Nat
           /\ Reserve[t]["tokens"] > 0
           /\ "tokens" \in Resource /\ "credits" \in Resource
BY ThoughtAssumption DEF TypeOK, Amounts, Resource

-----------------------------------------------------------------------------
(* The steps of a thought. *)

\* A step of t leaves the other thoughts as they are.
Alone(t) ==
    /\ UNCHANGED given
    /\ \A u \in Thought \ {t} :
         /\ reserved'[u] = reserved[u] /\ paid'[u] = paid[u]
         /\ at'[u] = at[u] /\ delivered'[u] = delivered[u]
         /\ settled'[u] = settled[u] /\ unbilled'[u] = unbilled[u]

(* What is known of a thought does not depend on the others. *)
LEMMA OthersKept ==
    ASSUME ThoughtInv, NEW t \in Thought, Alone(t), NEW u \in Thought \ {t}
    PROVE  AwaitInv(u)' /\ Agreed(u)'
<1>1. /\ policy' = policy /\ faults' = faults
      /\ reserved'[u] = reserved[u] /\ paid'[u] = paid[u]
      /\ at'[u] = at[u] /\ delivered'[u] = delivered[u]
      /\ settled'[u] = settled[u] /\ unbilled'[u] = unbilled[u]
  BY DEF Alone, given
<1>2. Agreed(u)'
  BY <1>1 DEF ThoughtInv, Agreed
<1>3. /\ Answered(u)' = Answered(u) /\ Unanswered(u)' = Unanswered(u)
      /\ \A r : Reconciled(u, r)' = Reconciled(u, r)
      /\ Covered(u, "tokens")' = Covered(u, "tokens")
      /\ CreditsCaught(u)' = CreditsCaught(u)
  BY <1>1 DEF Answered, Unanswered, Reconciled, Covered, CreditsCaught, TopsUp,
              HasReservation, Overrun
<1>4. TokensSettled(u)' = TokensSettled(u) /\ TokensBilled(u)' = TokensBilled(u)
  BY <1>1, <1>3 DEF TokensSettled, TokensBilled
<1>5. TokensCaught(u)' = TokensCaught(u)
  BY <1>1, <1>3, <1>4 DEF TokensCaught
<1>6. AwaitInv(u)
  BY DEF ThoughtInv
<1>7. AwaitInv(u)'
  BY <1>1, <1>3, <1>4, <1>5, <1>6 DEF AwaitInv
<1> QED BY <1>2, <1>7

(* The reserve of tokens. *)
LEMMA ReserveTokensStep ==
    ASSUME ThoughtInv, NEW t \in Thought, ReserveTokens(t)
    PROVE  TypeOK' /\ Alone(t) /\ AwaitInv(t)' /\ Agreed(t)'
<1> USE ThoughtAssumption DEF ThoughtInv
<1>1. Reserve[t] \in Amounts /\ Reserve[t]["tokens"] \in Nat
  BY DEF Amounts, Resource
<1>2. /\ purse' \in Amounts /\ reserved' \in [Thought -> Amounts]
      /\ paid' \in [Thought -> Amounts]
      /\ \A u \in Thought \ {t} : reserved'[u] = reserved[u] /\ paid'[u] = paid[u]
      /\ reserved'[t]["credits"] = reserved[t]["credits"]
      /\ paid'[t]["credits"] = paid[t]["credits"]
  <2>1. \/ SetAside(t, "tokens", Reserve[t]["tokens"])
        \/ UNCHANGED <<purse, reserved, paid>>
    BY DEF ReserveTokens, Refuse
  <2> QED BY <1>1, <2>1, CallType DEF Resource
<1>3. TypeOK'
  BY <1>2 DEF ReserveTokens, Goto, given, TypeOK, Await
<1>4. Alone(t)
  BY <1>2 DEF ReserveTokens, Goto, Alone, TypeOK
<1>5. Unanswered(t) /\ reserved[t] = Nothing
  BY DEF AwaitInv, ReserveTokens
<1>6. delivered'[t] = Nothing /\ settled'[t] = {} /\ policy' = policy
  BY <1>5 DEF ReserveTokens, Unanswered, given
<1>7. CASE SetAside(t, "tokens", Reserve[t]["tokens"]) /\ Goto(t, "reserve credits")
  <2>1. at'[t] = "reserve credits"
    BY <1>7 DEF Goto, TypeOK
  <2>2. paid'[t] = Nothing /\ reserved'[t]["tokens"] = Reserve[t]["tokens"]
    <3>1. reserved \in [Thought -> [Resource -> Nat]] /\ "tokens" \in Resource
      BY DEF TypeOK, Amounts, Resource
    <3>2. reserved'[t]["tokens"] = reserved[t]["tokens"] + Reserve[t]["tokens"]
      BY <1>7, <3>1 DEF SetAside
    <3>3. reserved[t]["tokens"] = 0
      BY <1>5, NothingType
    <3>4. paid' = paid
      BY <1>7 DEF SetAside
    <3> QED BY <1>1, <1>5, <3>2, <3>3, <3>4 DEF Unanswered
  <2>3. reserved'[t]["credits"] = 0
    BY <1>2, <1>5, NothingType
  <2>4. AwaitInv(t)'
    BY <2>1, <2>2, <2>3, <1>6 DEF AwaitInv, Unanswered
  <2> QED BY <1>1, <1>3, <1>4, <1>6, <2>2, <2>4 DEF Agreed, Nothing, Amounts
<1>8. CASE Refuse(Reserve[t]["tokens"] > purse["tokens"]) /\ Goto(t, "failed")
  <2>1. at'[t] = "failed"
    BY <1>8 DEF Goto, TypeOK
  <2>2. paid'[t] = Nothing /\ reserved'[t] = Nothing
    BY <1>5, <1>8 DEF Refuse, Unanswered
  <2>3. AwaitInv(t)'
    <3>1. reserved'[t]["tokens"] = 0 /\ reserved'[t]["credits"] = 0
      BY <2>2, NothingType
    <3>2. ~ Answered(t)'
      BY <1>6, NothingType DEF Answered
    <3> QED BY <2>1, <2>2, <3>1, <3>2 DEF AwaitInv, TokensBilled
  <2> QED BY <1>1, <1>3, <1>4, <1>6, <2>2, <2>3 DEF Agreed, Nothing, Amounts
<1> QED BY <1>7, <1>8 DEF ReserveTokens

(* The reserve of credits. *)
LEMMA ReserveCreditsStep ==
    ASSUME ThoughtInv, NEW t \in Thought, ReserveCredits(t)
    PROVE  TypeOK' /\ Alone(t) /\ AwaitInv(t)' /\ Agreed(t)'
<1> USE DEF ThoughtInv
<1>1. /\ reserved[t]["credits"] \in Nat /\ Reserve[t]["credits"] \in Nat
      /\ Reserve[t] \in Amounts /\ "credits" \in Resource
  BY ThoughtType
<1>2. /\ purse' \in Amounts /\ reserved' \in [Thought -> Amounts]
      /\ paid' \in [Thought -> Amounts]
      /\ \A u \in Thought \ {t} : reserved'[u] = reserved[u] /\ paid'[u] = paid[u]
      /\ reserved'[t]["tokens"] = reserved[t]["tokens"]
  <2>1. \/ SetAside(t, "credits", Reserve[t]["credits"])
        \/ UNCHANGED <<purse, reserved, paid>>
    BY DEF ReserveCredits, Refuse
  <2> QED BY <1>1, <2>1, CallType DEF Resource
<1>3. TypeOK'
  BY <1>2 DEF ReserveCredits, Goto, given, TypeOK, Await
<1>4. Alone(t)
  BY <1>2 DEF ReserveCredits, Goto, Alone, TypeOK
<1>5. /\ Unanswered(t)
      /\ reserved[t]["tokens"] = Reserve[t]["tokens"] /\ reserved[t]["credits"] = 0
  BY DEF AwaitInv, ReserveCredits
<1>6. paid' = paid
  BY DEF ReserveCredits, SetAside, Refuse
<1>7. Unanswered(t)'
  BY <1>5, <1>6 DEF ReserveCredits, Unanswered
<1>8. Agreed(t)'
  <2>1. \A r \in Resource : paid'[t][r] = 0 /\ delivered'[t][r] = 0
    BY <1>7 DEF Unanswered, Nothing
  <2>2. \A r \in Resource : Reserve[t][r] \in Nat
    BY ThoughtType
  <2> QED BY <2>1, <2>2 DEF Agreed
<1>9. CASE SetAside(t, "credits", Reserve[t]["credits"]) /\ Goto(t, "complete")
  <2>1. at'[t] = "complete"
    BY <1>9 DEF Goto, TypeOK
  <2>2. reserved'[t]["credits"] = Reserve[t]["credits"]
    BY <1>1, <1>5, <1>9, SetAsideEffect
  <2>3. reserved'[t] = Reserve[t]
    BY <1>1, <1>2, <1>5, <2>2, AmountsEqual
  <2>4. AwaitInv(t)'
    BY <1>7, <2>1, <2>3 DEF AwaitInv
  <2> QED BY <1>3, <1>4, <1>8, <2>4
<1>10. CASE Refuse(Reserve[t]["credits"] > purse["credits"]) /\ Goto(t, "catch")
  <2>1. at'[t] = "catch" /\ reserved' = reserved
    BY <1>10 DEF Goto, TypeOK, Refuse
  <2>2. TokensCaught(t)'
    <3>1. reserved'[t]["tokens"] = Reserve[t]["tokens"] /\ Reserve[t]["tokens"] \in Nat
      BY <1>5, <2>1, ThoughtType
    <3> QED BY <1>7, <3>1 DEF TokensCaught, Unanswered
  <2>3. CreditsCaught(t)'
    BY <1>7 DEF CreditsCaught, Unanswered
  <2>4. AwaitInv(t)'
    BY <2>1, <2>2, <2>3 DEF AwaitInv
  <2> QED BY <1>3, <1>4, <1>8, <2>4
<1> QED BY <1>9, <1>10 DEF ReserveCredits

(* The answer of the provider. *)
LEMMA CompleteStep ==
    ASSUME ThoughtInv, NEW t \in Thought, Complete(t)
    PROVE  TypeOK' /\ Alone(t) /\ AwaitInv(t)' /\ Agreed(t)'
<1> USE DEF ThoughtInv
<1>1. Unanswered(t) /\ reserved[t] = Reserve[t]
  BY DEF AwaitInv, Complete
<1>2. TypeOK'
  BY ThoughtAssumption DEF Complete, Goto, given, TypeOK, Await
<1>3. Alone(t)
  BY DEF Complete, Goto, Alone, TypeOK
<1>4. Agreed(t)'
  <2>1. \A r \in Resource : delivered'[t][r] \in Nat
    BY <1>2 DEF TypeOK, Amounts
  <2>2. \A r \in Resource : paid'[t][r] = 0
    BY <1>1 DEF Complete, Unanswered, Nothing
  <2>3. \A r \in Resource : Reserve[t][r] \in Nat
    BY ThoughtType
  <2> QED BY <2>1, <2>2, <2>3 DEF Agreed
<1>5. paid'[t] = Nothing /\ settled'[t] = {} /\ reserved'[t] = Reserve[t]
  BY <1>1 DEF Complete, Unanswered
<1>6. ASSUME NEW used \in Usage, delivered' = [delivered EXCEPT ![t] = used],
             Goto(t, "reconcile tokens")
      PROVE  AwaitInv(t)'
  <2>1. at'[t] = "reconcile tokens" /\ delivered'[t] = used
    BY <1>6 DEF Goto, TypeOK
  <2>2. Answered(t)'
    BY <2>1, ThoughtAssumption DEF Answered
  <2> QED BY <1>5, <2>1, <2>2 DEF AwaitInv
<1>7. ASSUME UNCHANGED delivered, Goto(t, "catch")
      PROVE  AwaitInv(t)'
  <2>1. at'[t] = "catch"
    BY <1>7 DEF Goto, TypeOK
  <2>2. TokensCaught(t)'
    <3>1. reserved'[t]["tokens"] = Reserve[t]["tokens"] /\ Reserve[t]["tokens"] \in Nat
      BY <1>5, ThoughtType
    <3> QED BY <1>5, <3>1 DEF TokensCaught
  <2>3. CreditsCaught(t)'
    BY <1>5 DEF CreditsCaught
  <2> QED BY <2>1, <2>2, <2>3 DEF AwaitInv
<1>8. AwaitInv(t)'
  <2>1. \/ \E used \in Usage : /\ delivered' = [delivered EXCEPT ![t] = used]
                               /\ Goto(t, "reconcile tokens")
        \/ UNCHANGED delivered /\ Goto(t, "catch")
    BY DEF Complete
  <2>2. CASE \E used \in Usage : /\ delivered' = [delivered EXCEPT ![t] = used]
                                /\ Goto(t, "reconcile tokens")
    <3>1. PICK used \in Usage : /\ delivered' = [delivered EXCEPT ![t] = used]
                               /\ Goto(t, "reconcile tokens")
      BY <2>2
    <3> QED BY <3>1, <1>6
  <2> QED BY <2>1, <2>2, <1>7
<1> QED BY <1>2, <1>3, <1>4, <1>8

(* Reconciling a resource draws its shortfall from the purse, or fails. *)
LEMMA ReconcileEffect ==
    ASSUME TypeOK, NEW t \in Thought, NEW r \in Resource, NEW settle \in Await,
           Reconcile(t, r, settle), reserved[t][r] = Reserve[t][r]
    PROVE  /\ TypeOK' /\ Alone(t)
           /\ policy' = policy
           /\ UNCHANGED <<paid, delivered, settled, unbilled>>
           /\ \A s \in Resource \ {r} : reserved'[t][s] = reserved[t][s]
           /\ \/ at'[t] = settle /\ reserved'[t][r] = Reconciled(t, r)
              \/ at'[t] = "catch" /\ reserved' = reserved
<1> DEFINE shortfall == delivered[t][r] - Reserve[t][r]
<1>1. delivered[t][r] \in Nat /\ Reserve[t][r] \in Nat
  BY ThoughtType
<1>2. TopsUp(t, r) => shortfall \in Nat
  BY <1>1 DEF TopsUp, Overrun
<1>3. \/ TopsUp(t, r) /\ SetAside(t, r, shortfall) /\ Goto(t, settle)
      \/ TopsUp(t, r) /\ UNCHANGED <<purse, reserved, paid>> /\ Goto(t, "catch")
      \/ ~ TopsUp(t, r) /\ UNCHANGED <<purse, reserved, paid>> /\ Goto(t, settle)
  BY DEF Reconcile, Refuse
<1>4. /\ purse' \in Amounts /\ reserved' \in [Thought -> Amounts]
      /\ paid' \in [Thought -> Amounts]
      /\ \A u \in Thought \ {t} : reserved'[u] = reserved[u] /\ paid'[u] = paid[u]
      /\ \A s \in Resource \ {r} : reserved'[t][s] = reserved[t][s]
  <2> HIDE DEF shortfall
  <2>1. CASE TopsUp(t, r) /\ SetAside(t, r, shortfall)
    BY <1>2, <2>1, CallType
  <2>2. CASE UNCHANGED <<purse, reserved, paid>>
    BY <2>2 DEF TypeOK
  <2> QED BY <1>3, <2>1, <2>2
<1>5. \E await \in Await : Goto(t, await)
  BY <1>3 DEF Await
<1>6. TypeOK'
  BY <1>4, <1>5 DEF Reconcile, Goto, given, TypeOK
<1>7. Alone(t)
  BY <1>4, <1>5 DEF Reconcile, Goto, Alone, TypeOK
<1>8. paid' = paid
  BY <1>3 DEF SetAside
<1>9. \/ at'[t] = settle /\ reserved'[t][r] = Reconciled(t, r)
      \/ at'[t] = "catch" /\ reserved' = reserved
  <2>1. CASE TopsUp(t, r) /\ SetAside(t, r, shortfall) /\ Goto(t, settle)
    <3>1. reserved'[t][r] = reserved[t][r] + shortfall
      <4> HIDE DEF shortfall
      <4> QED BY <1>2, <2>1, SetAsideEffect
    <3>2. reserved'[t][r] = delivered[t][r]
      BY <1>1, <3>1
    <3> QED BY <2>1, <3>2 DEF Goto, TypeOK, Reconciled
  <2>2. CASE TopsUp(t, r) /\ UNCHANGED <<purse, reserved, paid>> /\ Goto(t, "catch")
    BY <2>2 DEF Goto, TypeOK
  <2>3. CASE ~ TopsUp(t, r) /\ UNCHANGED <<purse, reserved, paid>> /\ Goto(t, settle)
    BY <2>3 DEF Goto, TypeOK, Reconciled
  <2> QED BY <1>3, <2>1, <2>2, <2>3
<1> QED BY <1>4, <1>6, <1>7, <1>8, <1>9 DEF Reconcile, given

LEMMA ReconcileTokensStep ==
    ASSUME ThoughtInv, NEW t \in Thought, ReconcileTokens(t)
    PROVE  TypeOK' /\ Alone(t) /\ AwaitInv(t)' /\ Agreed(t)'
<1> USE DEF ThoughtInv
<1>1. /\ Answered(t) /\ paid[t] = Nothing /\ settled[t] = {}
      /\ reserved[t] = Reserve[t]
  BY DEF AwaitInv, ReconcileTokens
<1>2. /\ TypeOK' /\ Alone(t) /\ policy' = policy
      /\ UNCHANGED <<paid, delivered, settled, unbilled>>
      /\ reserved'[t]["credits"] = reserved[t]["credits"]
      /\ \/ at'[t] = "settle tokens" /\ reserved'[t]["tokens"] = Reconciled(t, "tokens")
         \/ at'[t] = "catch" /\ reserved' = reserved
  BY <1>1, ReconcileEffect DEF ReconcileTokens, Resource, Await
<1>3. Agreed(t)'
  BY <1>2 DEF Agreed
<1>4. Answered(t)' /\ Reconciled(t, "tokens")' = Reconciled(t, "tokens")
  BY <1>1, <1>2 DEF Answered, Reconciled, TopsUp, Overrun, HasReservation
<1>5. CASE at'[t] = "settle tokens" /\ reserved'[t]["tokens"] = Reconciled(t, "tokens")
  <2>1. AwaitInv(t)'
    BY <1>1, <1>2, <1>4, <1>5 DEF AwaitInv
  <2> QED BY <1>2, <1>3, <2>1
<1>6. CASE at'[t] = "catch" /\ reserved' = reserved
  <2>1. TokensCaught(t)'
    <3>1. Reserve[t]["tokens"] \in Nat
      BY ThoughtType
    <3> QED BY <1>1, <1>2, <1>6, <3>1 DEF TokensCaught
  <2>2. CreditsCaught(t)'
    BY <1>1, <1>2 DEF CreditsCaught
  <2>3. AwaitInv(t)'
    BY <1>6, <2>1, <2>2 DEF AwaitInv
  <2> QED BY <1>2, <1>3, <2>3
<1> QED BY <1>2, <1>5, <1>6

LEMMA ReconcileCreditsStep ==
    ASSUME ThoughtInv, NEW t \in Thought, ReconcileCredits(t)
    PROVE  TypeOK' /\ Alone(t) /\ AwaitInv(t)' /\ Agreed(t)'
<1> USE DEF ThoughtInv
<1>1. /\ TokensSettled(t)
      /\ paid[t]["credits"] = 0 /\ reserved[t]["credits"] = Reserve[t]["credits"]
  BY DEF AwaitInv, ReconcileCredits
<1>2. /\ TypeOK' /\ Alone(t) /\ policy' = policy
      /\ UNCHANGED <<paid, delivered, settled, unbilled>>
      /\ reserved'[t]["tokens"] = reserved[t]["tokens"]
      /\ \/ at'[t] = "settle credits" /\ reserved'[t]["credits"] = Reconciled(t, "credits")
         \/ at'[t] = "catch" /\ reserved' = reserved
  BY <1>1, ReconcileEffect DEF ReconcileCredits, Resource, Await
<1>3. Agreed(t)'
  BY <1>2 DEF Agreed
<1>4. TokensSettled(t)' /\ Reconciled(t, "credits")' = Reconciled(t, "credits")
  BY <1>1, <1>2 DEF TokensSettled, Answered, Covered, Reconciled, TopsUp, Overrun, HasReservation
<1>5. CASE at'[t] = "settle credits" /\ reserved'[t]["credits"] = Reconciled(t, "credits")
  <2>1. AwaitInv(t)'
    BY <1>1, <1>2, <1>4, <1>5 DEF AwaitInv
  <2> QED BY <1>2, <1>3, <2>1
<1>6. CASE at'[t] = "catch" /\ reserved' = reserved
  <2>1. TokensBilled(t)'
    <3>1. delivered'[t]["tokens"] \in Nat /\ Reserve[t]["tokens"] \in Nat
      BY <1>2, ThoughtType
    <3>2. Min({delivered'[t]["tokens"], Reserve[t]["tokens"]}) <= delivered'[t]["tokens"]
      BY <3>1, MinOfTwo
    <3> QED BY <1>4, <3>1, <3>2 DEF TokensBilled, TokensSettled
  <2>2. TokensCaught(t)' /\ CreditsCaught(t)'
    BY <1>4, <2>1 DEF TokensCaught, CreditsCaught, TokensSettled
  <2>3. AwaitInv(t)'
    BY <1>6, <2>2 DEF AwaitInv
  <2> QED BY <1>2, <1>3, <2>3
<1> QED BY <1>2, <1>5, <1>6

(* Settling a resource pays what may be charged and empties the reservation, *)
(* or fails and changes nothing.                                             *)
LEMMA ResourceSettled ==
    ASSUME TypeOK, NEW t \in Thought, NEW r \in Resource, NEW next \in Await,
           Settle(t, r, next), UNCHANGED <<given, delivered>>
    PROVE  /\ TypeOK' /\ Alone(t)
           /\ \A s \in Resource \ {r} :
                reserved'[t][s] = reserved[t][s] /\ paid'[t][s] = paid[t][s]
           /\ \/ /\ settled'[t] = settled[t] \cup {r}
                 /\ reserved'[t][r] = 0
                 /\ paid'[t][r] = paid[t][r] + Charged(t, r)
                 /\ IF Rejected(t, r)
                    THEN at'[t] = "catch" /\ unbilled'[t] = unbilled[t] \cup {r}
                    ELSE at'[t] = next /\ unbilled'[t] = unbilled[t]
              \/ /\ "storageFails" \in faults
                 /\ at'[t] = "catch"
                 /\ UNCHANGED <<reserved, paid, settled, unbilled>>
<1>1. Charged(t, r) \in Nat /\ paid[t][r] \in Nat
  BY ThoughtType DEF Charged
<1>2. \/ /\ SettleReservation(t, r, Charged(t, r)) \/ (RefundReservation(t, r) /\ Charged(t, r) = 0)
         /\ settled' = [settled EXCEPT ![t] = @ \cup {r}]
         /\ IF Rejected(t, r)
            THEN unbilled' = [unbilled EXCEPT ![t] = @ \cup {r}] /\ Goto(t, "catch")
            ELSE Goto(t, next) /\ UNCHANGED unbilled
      \/ /\ "storageFails" \in faults
         /\ UNCHANGED <<purse, reserved, paid>>
         /\ Goto(t, "catch")
         /\ UNCHANGED <<settled, unbilled>>
  <2>1. ~ (Charged(t, r) > 0) => Charged(t, r) = 0
    BY <1>1
  <2>2. (IF Charged(t, r) > 0 THEN SettleReservation(t, r, Charged(t, r)) ELSE RefundReservation(t, r))
          => SettleReservation(t, r, Charged(t, r)) \/ (RefundReservation(t, r) /\ Charged(t, r) = 0)
    BY <2>1
  <2> QED BY <2>2 DEF Settle, Refuse
<1>3. /\ purse' \in Amounts /\ reserved' \in [Thought -> Amounts]
      /\ paid' \in [Thought -> Amounts]
      /\ \A u \in Thought \ {t} : reserved'[u] = reserved[u] /\ paid'[u] = paid[u]
      /\ \A s \in Resource \ {r} :
           reserved'[t][s] = reserved[t][s] /\ paid'[t][s] = paid[t][s]
  <2>1. \/ SettleReservation(t, r, Charged(t, r))
        \/ RefundReservation(t, r)
        \/ UNCHANGED <<purse, reserved, paid>>
    BY <1>2
  <2> QED BY <1>1, <2>1, CallType
<1>4. \E await \in Await : Goto(t, await)
  BY <1>2 DEF Await
<1>5. /\ settled' = settled \/ settled' = [settled EXCEPT ![t] = @ \cup {r}]
      /\ unbilled' = unbilled \/ unbilled' = [unbilled EXCEPT ![t] = @ \cup {r}]
  BY <1>2
<1>6. TypeOK'
  <2>1. at' \in [Thought -> Await]
    BY <1>4 DEF Goto, TypeOK
  <2>2. settled' \in [Thought -> SUBSET Resource]
    BY <1>5 DEF TypeOK
  <2>3. unbilled' \in [Thought -> SUBSET Resource]
    BY <1>5 DEF TypeOK
  <2> QED BY <1>3, <2>1, <2>2, <2>3 DEF given, TypeOK
<1>7. Alone(t)
  BY <1>3, <1>4, <1>5 DEF Goto, Alone, TypeOK
<1>8. CASE /\ SettleReservation(t, r, Charged(t, r)) \/ (RefundReservation(t, r) /\ Charged(t, r) = 0)
           /\ settled' = [settled EXCEPT ![t] = @ \cup {r}]
           /\ IF Rejected(t, r)
              THEN unbilled' = [unbilled EXCEPT ![t] = @ \cup {r}] /\ Goto(t, "catch")
              ELSE Goto(t, next) /\ UNCHANGED unbilled
  <2>1. reserved'[t][r] = 0 /\ paid'[t][r] = paid[t][r] + Charged(t, r)
    <3>1. CASE SettleReservation(t, r, Charged(t, r))
      BY <1>1, <3>1, SettleEffect
    <3>2. CASE (RefundReservation(t, r) /\ Charged(t, r) = 0)
      <4>1. reserved'[t][r] = 0 /\ paid' = paid
        BY <3>2, RefundEffect
      <4> QED BY <1>1, <3>2, <4>1
    <3> QED BY <1>8, <3>1, <3>2
  <2>2. settled'[t] = settled[t] \cup {r}
    BY <1>8 DEF TypeOK
  <2>3. IF Rejected(t, r)
        THEN at'[t] = "catch" /\ unbilled'[t] = unbilled[t] \cup {r}
        ELSE at'[t] = next /\ unbilled'[t] = unbilled[t]
    BY <1>8 DEF TypeOK, Goto
  <2> QED BY <1>3, <1>6, <1>7, <2>1, <2>2, <2>3
<1>9. CASE /\ "storageFails" \in faults
           /\ UNCHANGED <<purse, reserved, paid>>
           /\ Goto(t, "catch")
           /\ UNCHANGED <<settled, unbilled>>
  <2>1. at'[t] = "catch"
    BY <1>9 DEF TypeOK, Goto
  <2> QED BY <1>3, <1>6, <1>7, <1>9, <2>1
<1> QED BY <1>2, <1>8, <1>9

(* What may be charged: all that was delivered unless the overrun is refused. *)
LEMMA ChargedIsAgreed ==
    ASSUME TypeOK, NEW t \in Thought, NEW r \in Resource
    PROVE  /\ Charged(t, r) \in Nat
           /\ Charged(t, r) <= delivered[t][r]
           /\ policy = "reject" /\ HasReservation(t, r) => Charged(t, r) <= Reserve[t][r]
           /\ ~ Rejected(t, r) => Charged(t, r) = delivered[t][r] /\ Covered(t, r)
           /\ Rejected(t, r) => Charged(t, r) = Reserve[t][r]
<1>1. delivered[t][r] \in Nat /\ Reserve[t][r] \in Nat
  BY ThoughtType
<1> QED BY <1>1 DEF Charged, Rejected, TopsUp, Overrun, HasReservation, Covered

LEMMA SettleTokensStep ==
    ASSUME ThoughtInv, NEW t \in Thought, SettleTokens(t)
    PROVE  TypeOK' /\ Alone(t) /\ AwaitInv(t)' /\ Agreed(t)'
<1> USE DEF ThoughtInv
<1>1. /\ Answered(t) /\ paid[t] = Nothing /\ settled[t] = {}
      /\ reserved[t]["tokens"] = Reconciled(t, "tokens")
      /\ reserved[t]["credits"] = Reserve[t]["credits"]
  BY DEF AwaitInv, SettleTokens
<1>2. /\ delivered[t]["tokens"] \in Nat /\ delivered[t]["credits"] \in Nat
      /\ Reserve[t]["tokens"] \in Nat /\ Reserve[t]["credits"] \in Nat
  BY ThoughtType
<1>3. /\ TypeOK' /\ Alone(t)
      /\ reserved'[t]["credits"] = reserved[t]["credits"]
      /\ paid'[t]["credits"] = paid[t]["credits"]
      /\ \/ /\ settled'[t] = settled[t] \cup {"tokens"}
            /\ reserved'[t]["tokens"] = 0
            /\ paid'[t]["tokens"] = paid[t]["tokens"] + Charged(t, "tokens")
            /\ IF Rejected(t, "tokens")
               THEN at'[t] = "catch" /\ unbilled'[t] = unbilled[t] \cup {"tokens"}
               ELSE at'[t] = "reconcile credits" /\ unbilled'[t] = unbilled[t]
         \/ /\ "storageFails" \in faults
            /\ at'[t] = "catch"
            /\ UNCHANGED <<reserved, paid, settled, unbilled>>
  BY ResourceSettled DEF SettleTokens, Resource, Await
<1>4. delivered' = delivered /\ policy' = policy /\ Answered(t)'
  BY <1>1 DEF SettleTokens, given, Answered
<1>5. paid[t]["tokens"] = 0 /\ paid'[t]["credits"] = 0
  BY <1>1, <1>3, NothingType
<1>6. CASE /\ settled'[t] = settled[t] \cup {"tokens"}
           /\ reserved'[t]["tokens"] = 0
           /\ paid'[t]["tokens"] = paid[t]["tokens"] + Charged(t, "tokens")
           /\ IF Rejected(t, "tokens")
              THEN at'[t] = "catch" /\ unbilled'[t] = unbilled[t] \cup {"tokens"}
              ELSE at'[t] = "reconcile credits" /\ unbilled'[t] = unbilled[t]
  <2>1. paid'[t]["tokens"] = Charged(t, "tokens")
    <3>1. Charged(t, "tokens") \in Nat
      BY ChargedIsAgreed DEF Resource
    <3>2. paid'[t]["tokens"] = 0 + Charged(t, "tokens")
      BY <1>5, <1>6
    <3> QED BY <3>1, <3>2
  <2>2. Agreed(t)'
    <3>1. \A r \in Resource : r = "tokens" \/ r = "credits"
      BY DEF Resource
    <3> QED BY <1>2, <1>4, <1>5, <2>1, <3>1, ChargedIsAgreed DEF Agreed, HasReservation, Resource
  <2>3. settled'[t] = {"tokens"}
    BY <1>1, <1>6
  <2>4. CASE Rejected(t, "tokens")
    <3>1. at'[t] = "catch" /\ "tokens" \in unbilled'[t]
      BY <1>6, <2>4
    <3>2. paid'[t]["tokens"] = Reserve[t]["tokens"]
      BY <2>1, <2>4, ChargedIsAgreed DEF Resource
    <3>3. Min({delivered'[t]["tokens"], Reserve[t]["tokens"]}) <= Reserve[t]["tokens"]
      BY <1>2, <1>4, MinOfTwo
    <3>4. TokensBilled(t)'
      BY <1>2, <1>4, <1>6, <3>1, <3>2, <3>3 DEF TokensBilled
    <3>5. TokensCaught(t)' /\ CreditsCaught(t)'
      BY <1>4, <2>3, <3>4 DEF TokensCaught, CreditsCaught
    <3>6. AwaitInv(t)'
      BY <3>1, <3>5 DEF AwaitInv
    <3> QED BY <1>3, <2>2, <3>6
  <2>5. CASE ~ Rejected(t, "tokens")
    <3>1. at'[t] = "reconcile credits"
      BY <1>6, <2>5
    <3>2. paid'[t]["tokens"] = delivered'[t]["tokens"] /\ Covered(t, "tokens")
      BY <1>4, <2>1, <2>5, ChargedIsAgreed DEF Resource
    <3>3. TokensSettled(t)'
      BY <1>4, <1>6, <2>3, <3>2 DEF TokensSettled, Covered, HasReservation
    <3>4. AwaitInv(t)'
      BY <1>1, <1>3, <1>5, <3>1, <3>3 DEF AwaitInv
    <3> QED BY <1>3, <2>2, <3>4
  <2> QED BY <2>4, <2>5
<1>7. CASE /\ "storageFails" \in faults
           /\ at'[t] = "catch"
           /\ UNCHANGED <<reserved, paid, settled, unbilled>>
  <2>1. Agreed(t)'
    BY <1>4, <1>7 DEF Agreed
  <2>2. TokensCaught(t)'
    <3>1. reserved[t]["tokens"] >= Reserve[t]["tokens"]
      BY <1>1, <1>2 DEF Reconciled, TopsUp, Overrun
    <3> QED BY <1>1, <1>7, <3>1 DEF TokensCaught
  <2>3. CreditsCaught(t)'
    BY <1>1, <1>7 DEF CreditsCaught
  <2>4. AwaitInv(t)'
    BY <1>7, <2>2, <2>3 DEF AwaitInv
  <2> QED BY <1>3, <2>1, <2>4
<1> QED BY <1>3, <1>6, <1>7

LEMMA SettleCreditsStep ==
    ASSUME ThoughtInv, NEW t \in Thought, SettleCredits(t)
    PROVE  TypeOK' /\ Alone(t) /\ AwaitInv(t)' /\ Agreed(t)'
<1> USE DEF ThoughtInv
<1>1. /\ TokensSettled(t)
      /\ paid[t]["credits"] = 0 /\ reserved[t]["credits"] = Reconciled(t, "credits")
  BY DEF AwaitInv, SettleCredits
<1>2. /\ delivered[t]["tokens"] \in Nat /\ delivered[t]["credits"] \in Nat
      /\ Reserve[t]["tokens"] \in Nat /\ Reserve[t]["credits"] \in Nat
      /\ "tokens" \in Resource /\ "credits" \in Resource
  BY ThoughtType
<1>3. /\ TypeOK' /\ Alone(t)
      /\ reserved'[t]["tokens"] = reserved[t]["tokens"]
      /\ paid'[t]["tokens"] = paid[t]["tokens"]
      /\ \/ /\ settled'[t] = settled[t] \cup {"credits"}
            /\ reserved'[t]["credits"] = 0
            /\ paid'[t]["credits"] = paid[t]["credits"] + Charged(t, "credits")
            /\ IF Rejected(t, "credits")
               THEN at'[t] = "catch" /\ unbilled'[t] = unbilled[t] \cup {"credits"}
               ELSE at'[t] = "decide" /\ unbilled'[t] = unbilled[t]
         \/ /\ "storageFails" \in faults
            /\ at'[t] = "catch"
            /\ UNCHANGED <<reserved, paid, settled, unbilled>>
  BY ResourceSettled DEF SettleCredits, Resource, Await
<1>4. delivered' = delivered /\ policy' = policy
  BY DEF SettleCredits, given
<1>5. Answered(t)'
  BY <1>1, <1>4 DEF TokensSettled, Answered
<1>6. paid'[t]["tokens"] = delivered'[t]["tokens"] /\ reserved'[t]["tokens"] = 0
  BY <1>1, <1>3, <1>4 DEF TokensSettled
<1>7. TokensBilled(t)'
  <2>1. Min({delivered[t]["tokens"], Reserve[t]["tokens"]}) <= delivered[t]["tokens"]
    <3> DEFINE m == delivered[t]["tokens"]
               n == Reserve[t]["tokens"]
    <3>1. m \in Nat /\ n \in Nat
      BY <1>2
    <3> HIDE DEF m, n
    <3>2. Min({m, n}) <= m
      BY <3>1, MinOfTwo
    <3> QED BY <3>2 DEF m, n
  <2> QED BY <1>2, <1>4, <1>5, <1>6, <2>1 DEF TokensBilled
<1>8. CASE /\ settled'[t] = settled[t] \cup {"credits"}
           /\ reserved'[t]["credits"] = 0
           /\ paid'[t]["credits"] = paid[t]["credits"] + Charged(t, "credits")
           /\ IF Rejected(t, "credits")
              THEN at'[t] = "catch" /\ unbilled'[t] = unbilled[t] \cup {"credits"}
              ELSE at'[t] = "decide" /\ unbilled'[t] = unbilled[t]
  <2>1. paid'[t]["credits"] = Charged(t, "credits")
    <3>1. Charged(t, "credits") \in Nat
      BY ChargedIsAgreed DEF Resource
    <3>2. paid'[t]["credits"] = 0 + Charged(t, "credits")
      BY <1>1, <1>8
    <3> QED BY <3>1, <3>2
  <2>2. Agreed(t)'
    <3>1. \A r \in Resource : r = "tokens" \/ r = "credits"
      BY DEF Resource
    <3>2. Covered(t, "tokens")
      BY <1>1 DEF TokensSettled
    <3> QED BY <1>2, <1>4, <1>6, <2>1, <3>1, <3>2, ChargedIsAgreed
            DEF Agreed, HasReservation, Covered
  <2>3. "tokens" \in settled'[t]
    BY <1>1, <1>8 DEF TokensSettled
  <2>4. CASE Rejected(t, "credits")
    <3>1. at'[t] = "catch"
      BY <1>8, <2>4
    <3>2. TokensCaught(t)' /\ CreditsCaught(t)'
      BY <1>5, <1>7, <1>8, <2>3 DEF TokensCaught, CreditsCaught
    <3>3. AwaitInv(t)'
      BY <3>1, <3>2 DEF AwaitInv
    <3> QED BY <1>3, <2>2, <3>3
  <2>5. CASE ~ Rejected(t, "credits")
    <3>1. at'[t] = "decide"
      BY <1>8, <2>5
    <3>2. paid'[t]["credits"] = delivered'[t]["credits"]
      BY <1>2, <1>4, <2>1, <2>5, ChargedIsAgreed
    <3>3. paid'[t] \in Amounts /\ delivered'[t] \in Amounts /\ reserved'[t] \in Amounts
      BY <1>3 DEF TypeOK
    <3>4. paid'[t] = delivered'[t]
      BY <1>6, <3>2, <3>3, AmountsEqual
    <3>5. reserved'[t] = Nothing
      BY <1>6, <1>8, <3>3, NothingType, AmountsEqual
    <3>6. AwaitInv(t)'
      BY <1>5, <2>3, <3>1, <3>4, <3>5 DEF AwaitInv
    <3> QED BY <1>3, <2>2, <3>6
  <2> QED BY <2>4, <2>5
<1>9. CASE /\ "storageFails" \in faults
           /\ at'[t] = "catch"
           /\ UNCHANGED <<reserved, paid, settled, unbilled>>
  <2>1. Agreed(t)'
    BY <1>4, <1>9 DEF Agreed
  <2>2. TokensCaught(t)' /\ CreditsCaught(t)'
    BY <1>1, <1>5, <1>7, <1>9 DEF TokensCaught, CreditsCaught, TokensSettled
  <2>3. AwaitInv(t)'
    BY <1>9, <2>2 DEF AwaitInv
  <2> QED BY <1>3, <2>1, <2>3
<1> QED BY <1>3, <1>8, <1>9

(* Credits without a reservation. *)
LEMMA TransferCreditsStep ==
    ASSUME ThoughtInv, NEW t \in Thought, TransferCredits(t)
    PROVE  TypeOK' /\ Alone(t) /\ AwaitInv(t)' /\ Agreed(t)'
<1> USE DEF ThoughtInv
<1>1. /\ TokensSettled(t)
      /\ paid[t]["credits"] = 0 /\ reserved[t]["credits"] = Reconciled(t, "credits")
  BY DEF AwaitInv, TransferCredits
<1>2. /\ delivered[t]["tokens"] \in Nat /\ delivered[t]["credits"] \in Nat
      /\ Reserve[t]["tokens"] \in Nat /\ Reserve[t]["credits"] \in Nat
      /\ purse \in [Resource -> Nat] /\ purse["credits"] \in Nat
      /\ "tokens" \in Resource /\ "credits" \in Resource
  BY ThoughtType DEF TypeOK, Amounts
<1>3. /\ delivered' = delivered /\ policy' = policy /\ faults' = faults
      /\ settled' = settled /\ unbilled' = unbilled /\ reserved' = reserved
      /\ ~ HasReservation(t, "credits")
  BY DEF TransferCredits, given, Refuse
<1>4. \/ /\ delivered[t]["credits"] <= purse["credits"]
         /\ purse' = [purse EXCEPT !["credits"] = @ - delivered[t]["credits"]]
         /\ paid' = [paid EXCEPT ![t]["credits"] = delivered[t]["credits"]]
         /\ Goto(t, "decide")
      \/ purse' = purse /\ paid' = paid /\ Goto(t, "catch")
  BY DEF TransferCredits, Refuse
<1>5. paid \in [Thought -> [Resource -> Nat]]
  BY DEF TypeOK, Amounts
<1>6. /\ paid' \in [Thought -> [Resource -> Nat]]
      /\ paid'[t]["tokens"] = paid[t]["tokens"]
      /\ \A u \in Thought \ {t} : paid'[u] = paid[u]
  BY <1>2, <1>4, <1>5
<1>7. TypeOK'
  <2>1. purse' \in [Resource -> Nat]
    BY <1>2, <1>4
  <2>2. at' \in [Thought -> Await]
    BY <1>4 DEF Goto, TypeOK, Await
  <2> QED BY <1>3, <1>6, <2>1, <2>2 DEF TypeOK, Amounts
<1>8. Alone(t)
  BY <1>3, <1>4, <1>6 DEF Alone, Goto, TypeOK, given
<1>9. /\ Answered(t)' /\ "tokens" \in settled'[t]
      /\ paid'[t]["tokens"] = delivered'[t]["tokens"] /\ reserved'[t]["tokens"] = 0
      /\ reserved'[t]["credits"] = 0 /\ Covered(t, "tokens")
  <2>1. Reconciled(t, "credits") = 0
    BY <1>2, <1>3 DEF Reconciled, TopsUp, HasReservation
  <2> QED BY <1>1, <1>3, <1>6, <2>1 DEF TokensSettled, Answered
<1>10. paid'[t]["credits"] \in {0, delivered'[t]["credits"]}
  BY <1>1, <1>2, <1>3, <1>4, <1>5
<1>11. Agreed(t)'
  <2>1. \A r \in Resource : r = "tokens" \/ r = "credits"
    BY DEF Resource
  <2>2. Agreed(t)' <=> \A r \in Resource :
             /\ paid'[t][r] <= delivered'[t][r]
             /\ policy = "reject" /\ HasReservation(t, r) => paid'[t][r] <= Reserve[t][r]
    BY <1>3 DEF Agreed, HasReservation
  <2> QED BY <1>2, <1>3, <1>9, <1>10, <2>1, <2>2 DEF Covered
<1>12. CASE /\ paid' = [paid EXCEPT ![t]["credits"] = delivered[t]["credits"]]
            /\ Goto(t, "decide")
  <2>1. at'[t] = "decide"
    BY <1>12 DEF Goto, TypeOK
  <2>2. paid'[t]["credits"] = delivered'[t]["credits"]
    BY <1>2, <1>3, <1>5, <1>12
  <2>3. paid'[t] \in Amounts /\ delivered'[t] \in Amounts /\ reserved'[t] \in Amounts
    BY <1>7 DEF TypeOK
  <2>4. paid'[t] = delivered'[t] /\ reserved'[t] = Nothing
    BY <1>9, <2>2, <2>3, NothingType, AmountsEqual
  <2>5. AwaitInv(t)'
    BY <1>9, <2>1, <2>4 DEF AwaitInv
  <2> QED BY <1>7, <1>8, <1>11, <2>5
<1>13. CASE Goto(t, "catch")
  <2>1. at'[t] = "catch"
    BY <1>13 DEF Goto, TypeOK
  <2>2. Min({delivered[t]["tokens"], Reserve[t]["tokens"]}) <= delivered[t]["tokens"]
    <3> DEFINE m == delivered[t]["tokens"]
               n == Reserve[t]["tokens"]
    <3>1. m \in Nat /\ n \in Nat
      BY <1>2
    <3> HIDE DEF m, n
    <3>2. Min({m, n}) <= m
      BY <3>1, MinOfTwo
    <3> QED BY <3>2 DEF m, n
  <2>3. TokensBilled(t)'
    BY <1>2, <1>3, <1>9, <2>2 DEF TokensBilled
  <2>4. TokensCaught(t)' /\ CreditsCaught(t)'
    BY <1>9, <2>3 DEF TokensCaught, CreditsCaught
  <2>5. AwaitInv(t)'
    BY <2>1, <2>4 DEF AwaitInv
  <2> QED BY <1>7, <1>8, <1>11, <2>5
<1> QED BY <1>4, <1>12, <1>13

(* The decision of the model is parsed and applied. *)
LEMMA DecideStep ==
    ASSUME ThoughtInv, NEW t \in Thought, Decide(t)
    PROVE  TypeOK' /\ Alone(t) /\ AwaitInv(t)' /\ Agreed(t)'
<1> USE DEF ThoughtInv
<1>1. /\ Answered(t) /\ "tokens" \in settled[t]
      /\ paid[t] = delivered[t] /\ reserved[t] = Nothing
  BY DEF AwaitInv, Decide
<1>2. TypeOK'
  BY DEF Decide, Goto, given, TypeOK, Await
<1>3. Alone(t)
  BY DEF Decide, Goto, Alone, TypeOK
<1>4. Agreed(t)'
  BY DEF Agreed, Decide, given
<1>5. at'[t] \in {"done", "catch"}
  BY DEF Decide, Goto, TypeOK
<1>6. CASE at'[t] = "done"
  <2>1. AwaitInv(t)'
    BY <1>1, <1>6 DEF AwaitInv, Decide, Answered
  <2> QED BY <1>2, <1>3, <1>4, <2>1
<1>7. CASE at'[t] = "catch"
  <2>1. /\ Answered(t)' /\ "tokens" \in settled'[t]
        /\ paid'[t] = delivered'[t] /\ reserved'[t] = Nothing
    BY <1>1 DEF Decide, Answered
  <2>2. delivered'[t]["tokens"] \in Nat /\ Reserve[t]["tokens"] \in Nat
    BY ThoughtType DEF Decide
  <2>3. Min({delivered'[t]["tokens"], Reserve[t]["tokens"]}) <= delivered'[t]["tokens"]
    BY <2>2, MinOfTwo
  <2>4. TokensBilled(t)'
    BY <2>1, <2>2, <2>3, NothingType DEF TokensBilled
  <2>5. TokensCaught(t)' /\ CreditsCaught(t)'
    BY <2>1, <2>4, NothingType DEF TokensCaught, CreditsCaught
  <2>6. AwaitInv(t)'
    BY <1>7, <2>5 DEF AwaitInv
  <2> QED BY <1>2, <1>3, <1>4, <2>6
<1> QED BY <1>5, <1>6, <1>7

(* The catch clause, tokens first. *)
LEMMA CatchTokensStep ==
    ASSUME ThoughtInv, NEW t \in Thought, CatchTokens(t)
    PROVE  TypeOK' /\ Alone(t) /\ AwaitInv(t)' /\ Agreed(t)'
<1> DEFINE billable == Min({delivered[t]["tokens"], Reserve[t]["tokens"]})
<1> USE DEF ThoughtInv
<1>1. TokensCaught(t) /\ CreditsCaught(t)
  BY DEF AwaitInv, CatchTokens
<1>2. /\ delivered[t]["tokens"] \in Nat /\ delivered[t]["credits"] \in Nat
      /\ Reserve[t]["tokens"] \in Nat /\ Reserve[t]["credits"] \in Nat
      /\ "tokens" \in Resource /\ "credits" \in Resource
  BY ThoughtType
<1>3. billable \in Nat /\ billable <= delivered[t]["tokens"] /\ billable <= Reserve[t]["tokens"]
  BY <1>2, MinOfTwo
<1>4. /\ delivered' = delivered /\ policy' = policy /\ faults' = faults
      /\ settled' = settled
  BY DEF CatchTokens, given
<1>5. \/ /\ "tokens" \in settled[t]
         /\ Goto(t, "catch credits")
         /\ UNCHANGED <<purse, reserved, paid, unbilled>>
      \/ /\ "tokens" \notin settled[t] /\ Answered(t)
         /\ SettleReservation(t, "tokens", billable)
         /\ unbilled' = IF billable < delivered[t]["tokens"]
                        THEN [unbilled EXCEPT ![t] = @ \cup {"tokens"}]
                        ELSE unbilled
         /\ Goto(t, "catch credits")
      \/ /\ "tokens" \notin settled[t] /\ ~ Answered(t)
         /\ RefundReservation(t, "tokens")
         /\ Goto(t, "catch credits")
         /\ UNCHANGED unbilled
      \/ /\ "tokens" \notin settled[t] /\ "storageFails" \in faults
         /\ UNCHANGED <<purse, reserved, paid>>
         /\ Goto(t, "failed")
         /\ UNCHANGED unbilled
  BY DEF CatchTokens, Refuse
<1> HIDE DEF billable
<1>6. /\ purse' \in Amounts /\ reserved' \in [Thought -> Amounts]
      /\ paid' \in [Thought -> Amounts]
      /\ \A u \in Thought \ {t} : reserved'[u] = reserved[u] /\ paid'[u] = paid[u]
      /\ reserved'[t]["credits"] = reserved[t]["credits"]
      /\ paid'[t]["credits"] = paid[t]["credits"]
  <2>1. \/ SettleReservation(t, "tokens", billable)
        \/ RefundReservation(t, "tokens")
        \/ UNCHANGED <<purse, reserved, paid>>
    BY <1>5
  <2> QED BY <1>2, <1>3, <2>1, CallType
<1>7. unbilled' = unbilled \/ unbilled' = [unbilled EXCEPT ![t] = @ \cup {"tokens"}]
  BY <1>5
<1>8. Goto(t, "catch credits") \/ Goto(t, "failed")
  BY <1>5
<1>9. TypeOK'
  <2>1. unbilled' \in [Thought -> SUBSET Resource]
    BY <1>2, <1>7 DEF TypeOK
  <2>2. at' \in [Thought -> Await]
    BY <1>8 DEF Goto, TypeOK, Await
  <2> QED BY <1>4, <1>6, <2>1, <2>2 DEF TypeOK
<1>10. Alone(t)
  BY <1>4, <1>6, <1>7, <1>8 DEF Alone, Goto, TypeOK, given
<1>11. CreditsCaught(t)'
  BY <1>1, <1>4, <1>6 DEF CreditsCaught, Answered
<1>12. CASE /\ "tokens" \in settled[t]
            /\ Goto(t, "catch credits")
            /\ UNCHANGED <<purse, reserved, paid, unbilled>>
  <2>1. at'[t] = "catch credits"
    BY <1>12 DEF Goto, TypeOK
  <2>2. TokensBilled(t)'
    BY <1>1, <1>4, <1>12 DEF TokensCaught, TokensBilled, Answered
  <2>3. AwaitInv(t)'
    BY <1>11, <2>1, <2>2 DEF AwaitInv
  <2>4. Agreed(t)'
    BY <1>4, <1>12 DEF Agreed
  <2> QED BY <1>9, <1>10, <2>3, <2>4
<1>13. CASE /\ "tokens" \notin settled[t] /\ Answered(t)
            /\ SettleReservation(t, "tokens", billable)
            /\ unbilled' = IF billable < delivered[t]["tokens"]
                           THEN [unbilled EXCEPT ![t] = @ \cup {"tokens"}]
                           ELSE unbilled
            /\ Goto(t, "catch credits")
  <2>1. at'[t] = "catch credits"
    BY <1>13 DEF Goto, TypeOK
  <2>2. paid[t]["tokens"] = 0 /\ paid[t]["credits"] = 0
    BY <1>1, <1>13, NothingType DEF TokensCaught
  <2>3. reserved'[t]["tokens"] = 0 /\ paid'[t]["tokens"] = paid[t]["tokens"] + billable
    BY <1>2, <1>3, <1>13, SettleEffect
  <2>4. paid'[t]["tokens"] = billable
    <3>1. paid'[t]["tokens"] = 0 + billable
      BY <2>2, <2>3
    <3> QED BY <1>3, <3>1
  <2>5. billable < delivered[t]["tokens"] => "tokens" \in unbilled'[t]
    BY <1>13 DEF TypeOK
  <2>6. TokensBilled(t)'
    <3>1. Answered(t)'
      BY <1>4, <1>13 DEF Answered
    <3>2. paid'[t]["tokens"] >= Min({delivered'[t]["tokens"], Reserve[t]["tokens"]})
      BY <1>3, <1>4, <2>4 DEF billable
    <3> QED BY <1>4, <2>3, <2>4, <2>5, <3>1, <3>2 DEF TokensBilled
  <2>7. AwaitInv(t)'
    BY <1>11, <2>1, <2>6 DEF AwaitInv
  <2>8. Agreed(t)'
    <3>1. \A r \in Resource : r = "tokens" \/ r = "credits"
      BY DEF Resource
    <3>2. paid'[t]["credits"] = 0
      BY <1>6, <2>2
    <3> QED BY <1>2, <1>3, <1>4, <2>4, <3>1, <3>2 DEF Agreed, HasReservation
  <2> QED BY <1>9, <1>10, <2>7, <2>8
<1>14. CASE /\ "tokens" \notin settled[t] /\ ~ Answered(t)
            /\ RefundReservation(t, "tokens")
            /\ Goto(t, "catch credits")
            /\ UNCHANGED unbilled
  <2>1. at'[t] = "catch credits"
    BY <1>14 DEF Goto, TypeOK
  <2>2. reserved'[t]["tokens"] = 0 /\ paid' = paid
    BY <1>2, <1>14, RefundEffect
  <2>3. TokensBilled(t)'
    BY <1>1, <1>4, <1>14, <2>2 DEF TokensCaught, TokensBilled, Answered
  <2>4. AwaitInv(t)'
    BY <1>11, <2>1, <2>3 DEF AwaitInv
  <2>5. Agreed(t)'
    BY <1>4, <2>2 DEF Agreed
  <2> QED BY <1>9, <1>10, <2>4, <2>5
<1>15. CASE /\ "tokens" \notin settled[t] /\ "storageFails" \in faults
            /\ UNCHANGED <<purse, reserved, paid>>
            /\ Goto(t, "failed")
            /\ UNCHANGED unbilled
  <2>1. at'[t] = "failed"
    BY <1>15 DEF Goto, TypeOK
  <2>2. AwaitInv(t)'
    BY <1>4, <1>15, <2>1 DEF AwaitInv
  <2>3. Agreed(t)'
    BY <1>4, <1>15 DEF Agreed
  <2> QED BY <1>9, <1>10, <2>2, <2>3
<1> QED BY <1>5, <1>12, <1>13, <1>14, <1>15

(* ... and then credits. *)
LEMMA CatchCreditsStep ==
    ASSUME ThoughtInv, NEW t \in Thought, CatchCredits(t)
    PROVE  TypeOK' /\ Alone(t) /\ AwaitInv(t)' /\ Agreed(t)'
<1> USE DEF ThoughtInv
<1>1. TokensBilled(t) /\ CreditsCaught(t)
  BY DEF AwaitInv, CatchCredits
<1>2. /\ delivered' = delivered /\ policy' = policy /\ faults' = faults
      /\ settled' = settled /\ unbilled' = unbilled
      /\ Goto(t, "failed")
  BY DEF CatchCredits, given
<1>3. \/ "credits" \in settled[t] /\ UNCHANGED <<purse, reserved, paid>>
      \/ RefundReservation(t, "credits")
      \/ "storageFails" \in faults /\ UNCHANGED <<purse, reserved, paid>>
  BY DEF CatchCredits, Refuse
<1>4. "tokens" \in Resource /\ "credits" \in Resource
  BY ThoughtType
<1>5. /\ purse' \in Amounts /\ reserved' \in [Thought -> Amounts]
      /\ paid' \in [Thought -> Amounts]
      /\ \A u \in Thought \ {t} : reserved'[u] = reserved[u] /\ paid'[u] = paid[u]
      /\ reserved'[t]["tokens"] = reserved[t]["tokens"]
  <2>1. 0 \in Nat /\ "tokens" \in Resource \ {"credits"}
    BY <1>4
  <2> QED BY <1>3, <1>4, <2>1, CallType
<1>6. paid' = paid
  BY <1>3, <1>4, RefundEffect
<1>7. TypeOK'
  BY <1>2, <1>5 DEF TypeOK, Goto, Await
<1>8. Alone(t)
  BY <1>2, <1>5 DEF Alone, Goto, TypeOK, given
<1>9. Agreed(t)'
  BY <1>2, <1>6 DEF Agreed
<1>10. TokensBilled(t)'
  BY <1>1, <1>2, <1>5, <1>6 DEF TokensBilled, Answered
<1>11. "storageFails" \notin faults => reserved'[t]["credits"] = 0
  BY <1>1, <1>3, <1>4, RefundEffect DEF CreditsCaught
<1>12. at'[t] = "failed"
  BY <1>2 DEF Goto, TypeOK
<1>13. AwaitInv(t)'
  BY <1>2, <1>10, <1>11, <1>12 DEF AwaitInv
<1> QED BY <1>7, <1>8, <1>9, <1>13

-----------------------------------------------------------------------------
(* The invariant holds at first and is kept by every step. *)

LEMMA ThoughtInit == Init => ThoughtInv
<1> SUFFICES ASSUME Init PROVE ThoughtInv
  OBVIOUS
<1>1. TypeOK
  BY ThoughtAssumption, NothingType DEF Init, TypeOK, Await
<1>2. ASSUME NEW t \in Thought PROVE AwaitInv(t) /\ Agreed(t)
  <2>1. /\ at[t] = "reserve tokens"
        /\ delivered[t] = Nothing /\ paid[t] = Nothing /\ settled[t] = {}
        /\ reserved[t] = Nothing
    BY DEF Init
  <2>2. AwaitInv(t)
    BY <2>1 DEF AwaitInv, Unanswered
  <2>3. \A r \in Resource : paid[t][r] = 0 /\ delivered[t][r] = 0 /\ Reserve[t][r] \in Nat
    BY <1>1, <2>1, ThoughtType DEF Nothing
  <2>4. Agreed(t)
    BY <2>3 DEF Agreed
  <2> QED BY <2>2, <2>4
<1> QED BY <1>1, <1>2 DEF ThoughtInv

LEMMA ThoughtStep == ThoughtInv /\ [Next]_vars => ThoughtInv'
<1> SUFFICES ASSUME ThoughtInv, [Next]_vars PROVE ThoughtInv'
  OBVIOUS
<1>1. ASSUME NEW t \in Thought,
             ReserveTokens(t) \/ ReserveCredits(t) \/ Complete(t) \/ Advance(t)
      PROVE  ThoughtInv'
  <2>1. TypeOK' /\ Alone(t) /\ AwaitInv(t)' /\ Agreed(t)'
    BY <1>1, ReserveTokensStep, ReserveCreditsStep, CompleteStep, ReconcileTokensStep,
       ReconcileCreditsStep, SettleTokensStep, SettleCreditsStep, TransferCreditsStep,
       DecideStep, CatchTokensStep, CatchCreditsStep DEF Advance
  <2>2. \A u \in Thought \ {t} : AwaitInv(u)' /\ Agreed(u)'
    BY <2>1, OthersKept
  <2> QED BY <2>1, <2>2 DEF ThoughtInv
<1>2. CASE UNCHANGED vars
  <2>1. TypeOK'
    BY <1>2 DEF vars, given, TypeOK, ThoughtInv
  <2>2. ASSUME NEW t \in Thought PROVE AwaitInv(t)' /\ Agreed(t)'
    <3>1. AwaitInv(t) /\ Agreed(t)
      BY DEF ThoughtInv
    <3>2. Agreed(t)'
      BY <1>2, <3>1 DEF vars, given, Agreed
    <3>3. AwaitInv(t)'
      BY <1>2, <3>1 DEF vars, given, AwaitInv, Unanswered, Reconciled, TopsUp, Overrun,
         HasReservation, Answered, TokensSettled, Covered, TokensBilled, TokensCaught,
         CreditsCaught
    <3> QED BY <3>2, <3>3
  <2> QED BY <2>1, <2>2 DEF ThoughtInv
<1> QED BY <1>1, <1>2 DEF Next

-----------------------------------------------------------------------------
(* The results. *)

(* In every behaviour of cognitive-loop.ts's think, for all constants, what a *)
(* thought has reserved, settled and paid is what its await says.             *)
THEOREM ThoughtInvariant == Spec => []ThoughtInv
<1>1. Init => ThoughtInv
  BY ThoughtInit
<1>2. ThoughtInv /\ [Next]_vars => ThoughtInv'
  BY ThoughtStep
<1> QED BY <1>1, <1>2, PTL DEF Spec

(* Unless the economy itself fails, no error path of think leaves a reservation *)
(* behind, or tokens of an answer that are neither paid, as far as they were     *)
(* reserved, nor reported as unbilled; and a thought without an answer has paid  *)
(* nothing (src/v2/cognitive-loop.ts:260).                                       *)
THEOREM EndedSettled == Spec => []EndedIsSettled
<1>1. ThoughtInv => EndedIsSettled
  <2> SUFFICES ASSUME ThoughtInv, "storageFails" \notin faults,
                      NEW t \in Thought, Ended(t)
               PROVE  /\ reserved[t] = Nothing
                      /\ IF Answered(t)
                         THEN /\ paid[t]["tokens"]
                                   >= Min({delivered[t]["tokens"], Reserve[t]["tokens"]})
                              /\ paid[t]["tokens"] < delivered[t]["tokens"]
                                   => "tokens" \in unbilled[t]
                         ELSE paid[t] = Nothing
    BY DEF EndedIsSettled
  <2>1. AwaitInv(t)
    BY DEF ThoughtInv
  <2>2. /\ reserved[t] \in Amounts
        /\ delivered[t]["tokens"] \in Nat /\ Reserve[t]["tokens"] \in Nat
    BY ThoughtType DEF ThoughtInv
  <2>3. CASE at[t] = "done"
    <3>1. Answered(t) /\ paid[t] = delivered[t] /\ reserved[t] = Nothing
      BY <2>1, <2>3 DEF AwaitInv
    <3>2. Min({delivered[t]["tokens"], Reserve[t]["tokens"]}) <= delivered[t]["tokens"]
      BY <2>2, MinOfTwo
    <3> QED BY <2>2, <3>1, <3>2
  <2>4. CASE at[t] = "failed"
    <3>1. TokensBilled(t) /\ reserved[t]["credits"] = 0
      BY <2>1, <2>4 DEF AwaitInv
    <3>2. reserved[t] = Nothing
      BY <2>2, <3>1, NothingType, AmountsEqual DEF TokensBilled
    <3> QED BY <3>1, <3>2 DEF TokensBilled
  <2> QED BY <2>3, <2>4 DEF Ended
<1> QED BY <1>1, ThoughtInvariant, PTL

(* The provider is paid what it delivered when the thought succeeds, and on no *)
(* path more than it delivered or than a ceiling allows.                       *)
THEOREM PaidFairly == Spec => []PaidAsAgreed
<1>1. ThoughtInv => PaidAsAgreed
  BY DEF ThoughtInv, AwaitInv, Agreed, PaidAsAgreed
<1> QED BY <1>1, ThoughtInvariant, PTL


-----------------------------------------------------------------------------
(* Finite sets. *)

(* A set that holds 0 and with each natural the next holds all of them. *)
LEMMA NatSetInduction ==
    ASSUME NEW S, 0 \in S, \A n \in Nat : n \in S => n + 1 \in S
    PROVE  Nat \subseteq S
<1> DEFINE outside == {n \in Nat : n \notin S}
           less == OpToRel(<, Nat)
<1>1. IsWellFoundedOn(less, Nat)
    BY NatLessThanWellFounded
<1>2. \A x, y \in Nat : y < x => <<y, x>> \in less
    BY DEF OpToRel
<1> SUFFICES ASSUME outside # {} PROVE FALSE
    OBVIOUS
<1>3. \E x \in outside : \A y \in outside : ~ (<<y, x>> \in less)
    <2>1. outside \subseteq Nat
        OBVIOUS
    <2> HIDE DEF outside, less
    <2> QED BY <1>1, <2>1, WFMin
<1>4. PICK x \in outside : \A y \in outside : ~ (<<y, x>> \in less)
    BY <1>3
<1> HIDE DEF less
<1>5. x # 0 /\ x - 1 \in Nat /\ x - 1 < x /\ (x - 1) + 1 = x
    OBVIOUS
<1>6. x - 1 \in outside
    BY <1>5
<1> QED BY <1>2, <1>4, <1>5, <1>6

Share(s, x, r) == s[x][r]

OneOf(S) == CHOOSE x \in S : TRUE

\* What the fold computes of some agents from what it computed of fewer.
SumFrom(g, s, r, S) ==
    IF S = {} THEN 0 ELSE Share(s, OneOf(S), r) + g[S \ {OneOf(S)}]

IsSum(g, s, r, all) == g = [S \in SUBSET all |-> SumFrom(g, s, r, S)]

\* The same for sets of at most n agents.
Few(all, n) == {S \in SUBSET all : Cardinality(S) <= n}

SumOfFew(g, s, r, all, n) == g = [S \in Few(all, n) |-> SumFrom(g, s, r, S)]

(* The fold is such a function at all of them. *)
LEMMA TogetherIsFold ==
    ASSUME NEW s, NEW r, NEW all
    PROVE  Together(s, all, r) = (CHOOSE g : IsSum(g, s, r, all))[all]
BY DEF Together, MapThenSumSet, MapThenFoldSet, IsSum, SumFrom, OneOf, Share

(* A set with one element less. *)
LEMMA OneLess ==
    ASSUME NEW S, IsFiniteSet(S), NEW x \in S
    PROVE  /\ IsFiniteSet(S \ {x}) /\ Cardinality(S) \in Nat /\ Cardinality(S \ {x}) \in Nat
           /\ Cardinality(S \ {x}) + 1 = Cardinality(S)
<1>1. Cardinality(S) \in Nat /\ IsFiniteSet(S \ {x})
    BY FS_CardinalityType, FS_RemoveElement
<1>2. Cardinality(S \ {x}) \in Nat
    BY <1>1, FS_CardinalityType
<1>3. Cardinality(S \ {x}) = Cardinality(S) - 1
    BY FS_RemoveElement
<1> QED
    BY <1>1, <1>2, <1>3

(* There is one for every number of agents. *)
LEMMA SumStep ==
    ASSUME NEW s, NEW r, NEW all, IsFiniteSet(all), NEW n \in Nat, NEW g, SumOfFew(g, s, r, all, n)
    PROVE  \E h : SumOfFew(h, s, r, all, n + 1)
<1> DEFINE h == [S \in Few(all, n + 1) |-> SumFrom(g, s, r, S)]
<1>1. ASSUME NEW S \in Few(all, n + 1) PROVE SumFrom(h, s, r, S) = h[S]
    <2>1. CASE S = {}
        BY <1>1, <2>1 DEF SumFrom
    <2>2. CASE S # {}
        <3> DEFINE R == S \ {OneOf(S)}
        <3>1. S \in SUBSET all /\ Cardinality(S) <= n + 1
            BY <1>1 DEF Few
        <3>2. OneOf(S) \in S /\ IsFiniteSet(S)
            BY <2>2, <3>1, FS_Subset DEF OneOf
        <3>3. /\ R \in SUBSET all /\ Cardinality(S) \in Nat /\ Cardinality(R) \in Nat
              /\ Cardinality(R) + 1 = Cardinality(S)
            BY <3>1, <3>2, OneLess
        <3>4. R \in Few(all, n) /\ R \in Few(all, n + 1)
            BY <3>1, <3>3 DEF Few
        <3>5. h[R] = SumFrom(g, s, r, R) /\ g[R] = SumFrom(g, s, r, R)
            BY <3>4 DEF SumOfFew
        <3>6. h[S] = SumFrom(g, s, r, S)
            BY <1>1
        <3> HIDE DEF h
        <3>7. SumFrom(h, s, r, S) = SumFrom(g, s, r, S)
            BY <2>2, <3>5 DEF SumFrom
        <3> QED BY <3>6, <3>7
    <2> QED BY <2>1, <2>2
<1>2. h = [S \in Few(all, n + 1) |-> h[S]]
    OBVIOUS
<1> HIDE DEF h
<1>3. h = [S \in Few(all, n + 1) |-> SumFrom(h, s, r, S)]
    BY <1>1, <1>2
<1> QED
    BY <1>3 DEF SumOfFew

(* No agents hold nothing. *)
LEMMA SumStart ==
    ASSUME NEW s, NEW r, NEW all, IsFiniteSet(all)
    PROVE  \E g : SumOfFew(g, s, r, all, 0)
<1> DEFINE g == [S \in Few(all, 0) |-> 0]
<1>1. ASSUME NEW S \in Few(all, 0) PROVE S = {}
    <2>1. IsFiniteSet(S) /\ Cardinality(S) <= 0
        BY FS_Subset DEF Few
    <2>2. Cardinality(S) \in Nat
        BY <2>1, FS_CardinalityType
    <2>3. Cardinality(S) = 0
        BY <2>1, <2>2
    <2> QED BY <2>1, <2>3, FS_EmptySet
<1>2. g = [S \in Few(all, 0) |-> SumFrom(g, s, r, S)]
    BY <1>1 DEF SumFrom
<1> QED
    BY <1>2 DEF SumOfFew

(* So the fold has its equation. *)
LEMMA SumEquation ==
    ASSUME NEW s, NEW r, NEW all, IsFiniteSet(all), NEW g, g = CHOOSE f : IsSum(f, s, r, all)
    PROVE  \A S \in SUBSET all : g[S] = SumFrom(g, s, r, S)
<1> DEFINE can == {n \in Nat : \E f : SumOfFew(f, s, r, all, n)}
<1>1. 0 \in can
    BY SumStart
<1>2. ASSUME NEW n \in Nat, n \in can PROVE n + 1 \in can
    BY <1>2, SumStep
<1> HIDE DEF can
<1>3. Nat \subseteq can
    BY <1>1, <1>2, NatSetInduction
<1>4. Cardinality(all) \in Nat
    BY FS_CardinalityType
<1>5. PICK f : SumOfFew(f, s, r, all, Cardinality(all))
    BY <1>3, <1>4 DEF can
<1>6. Few(all, Cardinality(all)) = SUBSET all
    BY FS_Subset DEF Few
<1>7. IsSum(f, s, r, all)
    BY <1>5, <1>6 DEF SumOfFew, IsSum
<1>8. IsSum(g, s, r, all)
    BY <1>7
<1> QED
    BY <1>8 DEF IsSum
(* Induction over the subsets of a finite set, for the members of can. *)
LEMMA SubsetInduction ==
    ASSUME NEW all, IsFiniteSet(all), NEW can,
           {} \in can,
           \A S \in SUBSET all : S # {} /\ (\A x \in S : S \ {x} \in can) => S \in can
    PROVE  SUBSET all \subseteq can
<1> DEFINE sizes == {n \in Nat : Few(all, n) \subseteq can}
<1>1. \A S \in SUBSET all : IsFiniteSet(S) /\ Cardinality(S) \in Nat
    BY FS_Subset, FS_CardinalityType
<1>2. 0 \in sizes
    <2>1. \A S \in Few(all, 0) : S = {}
        BY <1>1, FS_EmptySet DEF Few
    <2> QED BY <2>1
<1>3. ASSUME NEW n \in Nat, n \in sizes PROVE n + 1 \in sizes
    <2> SUFFICES ASSUME NEW S \in Few(all, n + 1) PROVE S \in can
        OBVIOUS
    <2>1. S \in SUBSET all /\ Cardinality(S) <= n + 1
        BY DEF Few
    <2>2. CASE S = {}
        BY <2>2
    <2>3. CASE S # {}
        <3>1. ASSUME NEW x \in S PROVE S \ {x} \in can
            <4>1. /\ Cardinality(S) \in Nat /\ Cardinality(S \ {x}) \in Nat
                  /\ Cardinality(S \ {x}) + 1 = Cardinality(S)
                BY <1>1, <2>1, OneLess
            <4>2. S \ {x} \in Few(all, n)
                BY <2>1, <4>1 DEF Few
            <4> QED BY <1>3, <4>2
        <3> QED BY <2>1, <2>3, <3>1
    <2> QED BY <2>2, <2>3
<1> HIDE DEF sizes
<1>4. Nat \subseteq sizes
    BY <1>2, <1>3, NatSetInduction
<1>5. ASSUME NEW S \in SUBSET all PROVE S \in can
    <2>1. Cardinality(S) \in sizes
        BY <1>1, <1>4
    <2>2. Cardinality(S) <= Cardinality(S)
        BY <1>1
    <2>3. S \in Few(all, Cardinality(S))
        BY <2>2 DEF Few
    <2> QED BY <2>1, <2>3 DEF sizes
<1> QED
    BY <1>5

\* What the fold computes obeys its equation.
Sums(g, s, r, all) == \A S \in SUBSET all : g[S] = SumFrom(g, s, r, S)

(* What some agents hold is what the fold over more of them finds of those. *)
LEMMA SumOfPart ==
    ASSUME NEW s, NEW r, NEW all, IsFiniteSet(all), NEW g, NEW h,
           Sums(g, s, r, all), Sums(h, s, r, all)
    PROVE  g[all] = h[all]
<1> DEFINE can == {S \in SUBSET all : g[S] = h[S]}
<1>1. {} \in can
    <2>1. SumFrom(g, s, r, {}) = 0 /\ SumFrom(h, s, r, {}) = 0
        BY DEF SumFrom
    <2> QED BY <2>1 DEF Sums
<1>2. ASSUME NEW S \in SUBSET all, S # {}, \A x \in S : S \ {x} \in can
      PROVE  S \in can
    <2>1. OneOf(S) \in S
        BY <1>2 DEF OneOf
    <2>2. g[S \ {OneOf(S)}] = h[S \ {OneOf(S)}]
        BY <1>2, <2>1
    <2>3. SumFrom(g, s, r, S) = SumFrom(h, s, r, S)
        BY <1>2, <2>2 DEF SumFrom
    <2> QED BY <2>3 DEF Sums
<1> HIDE DEF can
<1>3. SUBSET all \subseteq can
    BY <1>1, <1>2, SubsetInduction
<1>4. all \in can
    BY <1>3
<1> QED
    BY <1>4 DEF can

(* The fold computes such a function. *)
LEMMA TogetherOf ==
    ASSUME NEW s, NEW r, NEW S, IsFiniteSet(S)
    PROVE  \E g : Together(s, S, r) = g[S] /\ Sums(g, s, r, S)
<1> DEFINE g == CHOOSE f : IsSum(f, s, r, S)
<1>1. Together(s, S, r) = g[S]
    BY TogetherIsFold
<1>2. Sums(g, s, r, S)
    BY SumEquation DEF Sums
<1> HIDE DEF g
<1> QED
    BY <1>1, <1>2

(* What agents hold together, one at a time. *)
LEMMA TogetherStep ==
    ASSUME NEW s, NEW r, NEW S, IsFiniteSet(S)
    PROVE  Together(s, S, r) =
               IF S = {} THEN 0 ELSE Share(s, OneOf(S), r) + Together(s, S \ {OneOf(S)}, r)
<1> DEFINE R == S \ {OneOf(S)}
<1>1. R \in SUBSET S /\ SUBSET R \subseteq SUBSET S
    OBVIOUS
<1>2. IsFiniteSet(R)
    BY <1>1, FS_Subset
<1> HIDE DEF R
<1>3. PICK g : Together(s, S, r) = g[S] /\ Sums(g, s, r, S)
    BY TogetherOf
<1>4. PICK h : Together(s, R, r) = h[R] /\ Sums(h, s, r, R)
    BY <1>2, TogetherOf
<1>5. Sums(g, s, r, R)
    BY <1>1, <1>3 DEF Sums
<1>6. g[R] = h[R]
    BY <1>2, <1>4, <1>5, SumOfPart
<1>7. g[S] = SumFrom(g, s, r, S)
    BY <1>3 DEF Sums
<1> QED
    BY <1>3, <1>4, <1>6, <1>7 DEF SumFrom, R

(* A number. *)
LEMMA TogetherNat ==
    ASSUME NEW s, NEW r, NEW all, IsFiniteSet(all), \A x \in all : Share(s, x, r) \in Nat
    PROVE  \A S \in SUBSET all : Together(s, S, r) \in Nat
<1> DEFINE can == {S \in SUBSET all : Together(s, S, r) \in Nat}
<1>1. \A S \in SUBSET all : IsFiniteSet(S)
    BY FS_Subset
<1>2. {} \in can
    <2>1. Together(s, {}, r) = 0
        BY FS_EmptySet, TogetherStep
    <2> QED BY <2>1
<1>3. ASSUME NEW S \in SUBSET all, S # {}, \A x \in S : S \ {x} \in can
      PROVE  S \in can
    <2>1. OneOf(S) \in S
        BY <1>3 DEF OneOf
    <2>2. Together(s, S \ {OneOf(S)}, r) \in Nat /\ Share(s, OneOf(S), r) \in Nat
        BY <1>3, <2>1
    <2>3. Together(s, S, r) = Share(s, OneOf(S), r) + Together(s, S \ {OneOf(S)}, r)
        BY <1>1, <1>3, TogetherStep
    <2>4. Together(s, S, r) \in Nat
        BY <2>2, <2>3
    <2> QED BY <2>4
<1> HIDE DEF can
<1>4. SUBSET all \subseteq can
    BY <1>2, <1>3, SubsetInduction
<1> QED
    BY <1>4 DEF can

(* Any of them may be taken first. *)
LEMMA TogetherAdd ==
    ASSUME NEW s, NEW r, NEW all, IsFiniteSet(all), \A x \in all : Share(s, x, r) \in Nat
    PROVE  \A S \in SUBSET all : \A x \in S :
               Together(s, S, r) = Share(s, x, r) + Together(s, S \ {x}, r)
<1> DEFINE First(S, x) == Together(s, S, r) = Share(s, x, r) + Together(s, S \ {x}, r)
           can == {S \in SUBSET all : \A x \in S : First(S, x)}
<1>1. \A S \in SUBSET all : IsFiniteSet(S) /\ Together(s, S, r) \in Nat
    BY FS_Subset, TogetherNat
<1>2. \A S \in SUBSET all : S # {} => OneOf(S) \in S /\ First(S, OneOf(S))
    BY <1>1, TogetherStep DEF OneOf
<1>3. {} \in can
    OBVIOUS
<1>4. ASSUME NEW S \in SUBSET all, S # {}, \A x \in S : S \ {x} \in can
      PROVE  S \in can
    <2> SUFFICES ASSUME NEW x \in S PROVE First(S, x)
        OBVIOUS
    <2> DEFINE y == OneOf(S)
    <2>1. y \in S /\ First(S, y)
        BY <1>2, <1>4
    <2> HIDE DEF y
    <2>2. CASE x = y
        BY <2>1, <2>2
    <2>3. CASE x # y
        <3>1. First(S \ {y}, x) /\ First(S \ {x}, y)
            BY <1>4, <2>1, <2>3
        <3>2. (S \ {y}) \ {x} = (S \ {x}) \ {y}
            OBVIOUS
        <3>3. (S \ {x}) \ {y} \in SUBSET all
            OBVIOUS
        <3>4. Together(s, (S \ {x}) \ {y}, r) \in Nat
            BY <1>1, <3>3
        <3>5. Share(s, x, r) \in Nat /\ Share(s, y, r) \in Nat
            BY <2>1
        <3> QED BY <2>1, <3>1, <3>2, <3>4, <3>5
    <2> QED BY <2>2, <2>3
<1> HIDE DEF can
<1>5. SUBSET all \subseteq can
    BY <1>3, <1>4, SubsetInduction
<1>6. ASSUME NEW S \in SUBSET all PROVE \A x \in S : First(S, x)
    BY <1>5 DEF can
<1> QED
    BY <1>6, Zenon
(* What agents hold depends on nothing but what each of them holds.           *)
LEMMA TogetherSame ==
    ASSUME NEW s, NEW t, NEW r, NEW all, IsFiniteSet(all),
           \A x \in all : Share(t, x, r) = Share(s, x, r)
    PROVE  Together(t, all, r) = Together(s, all, r)
<1> DEFINE can == {S \in SUBSET all : Together(t, S, r) = Together(s, S, r)}
<1>1. \A S \in SUBSET all : IsFiniteSet(S)
    BY FS_Subset
<1>2. {} \in can
    <2>1. Together(s, {}, r) = 0 /\ Together(t, {}, r) = 0
        BY FS_EmptySet, TogetherStep
    <2> QED BY <2>1
<1>3. ASSUME NEW S \in SUBSET all, S # {}, \A x \in S : S \ {x} \in can
      PROVE  S \in can
    <2>1. OneOf(S) \in S
        BY <1>3 DEF OneOf
    <2>2. Together(t, S \ {OneOf(S)}, r) = Together(s, S \ {OneOf(S)}, r)
        BY <1>3, <2>1
    <2>3. Share(t, OneOf(S), r) = Share(s, OneOf(S), r)
        BY <2>1
    <2>4. /\ Together(s, S, r) = Share(s, OneOf(S), r) + Together(s, S \ {OneOf(S)}, r)
          /\ Together(t, S, r) = Share(t, OneOf(S), r) + Together(t, S \ {OneOf(S)}, r)
        BY <1>1, <1>3, TogetherStep
    <2> QED BY <2>2, <2>3, <2>4
<1> HIDE DEF can
<1>4. SUBSET all \subseteq can
    BY <1>2, <1>3, SubsetInduction
<1>5. all \in can
    BY <1>4
<1> QED
    BY <1>5 DEF can

(* If one of them has more or less, so have all of them together. *)
LEMMA TogetherChange ==
    ASSUME NEW s, NEW t, NEW r, NEW all, IsFiniteSet(all), NEW a \in all,
           \A x \in all : Share(s, x, r) \in Nat /\ Share(t, x, r) \in Nat,
           \A x \in all \ {a} : Share(t, x, r) = Share(s, x, r)
    PROVE  /\ Together(s, all, r) \in Nat /\ Together(t, all, r) \in Nat
           /\ Together(t, all, r) = Together(s, all, r) + (Share(t, a, r) - Share(s, a, r))
<1>1. IsFiniteSet(all \ {a}) /\ all \ {a} \in SUBSET all /\ all \in SUBSET all
    BY FS_Subset
<1>2. /\ Together(s, all, r) = Share(s, a, r) + Together(s, all \ {a}, r)
      /\ Together(t, all, r) = Share(t, a, r) + Together(t, all \ {a}, r)
    BY <1>1, TogetherAdd
<1>3. Together(t, all \ {a}, r) = Together(s, all \ {a}, r)
    BY <1>1, TogetherSame
<1>4. Together(s, all \ {a}, r) \in Nat
    BY <1>1, TogetherNat
<1>5. Share(s, a, r) \in Nat /\ Share(t, a, r) \in Nat
    OBVIOUS
<1> QED
    BY <1>2, <1>3, <1>4, <1>5

(* Where none has anything, they have nothing together. *)
LEMMA NothingTogether ==
    ASSUME NEW s, NEW r, NEW all, IsFiniteSet(all), \A x \in all : Share(s, x, r) = 0
    PROVE  Together(s, all, r) = 0
<1> DEFINE can == {S \in SUBSET all : Together(s, S, r) = 0}
<1>1. \A S \in SUBSET all : IsFiniteSet(S)
    BY FS_Subset
<1>2. {} \in can
    <2>1. Together(s, {}, r) = 0
        BY FS_EmptySet, TogetherStep
    <2> QED BY <2>1
<1>3. ASSUME NEW S \in SUBSET all, S # {}, \A x \in S : S \ {x} \in can
      PROVE  S \in can
    <2>1. OneOf(S) \in S
        BY <1>3 DEF OneOf
    <2>2. Together(s, S \ {OneOf(S)}, r) = 0 /\ Share(s, OneOf(S), r) = 0
        BY <1>3, <2>1
    <2>3. Together(s, S, r) = Share(s, OneOf(S), r) + Together(s, S \ {OneOf(S)}, r)
        BY <1>1, <1>3, TogetherStep
    <2> QED BY <2>2, <2>3
<1> HIDE DEF can
<1>4. SUBSET all \subseteq can
    BY <1>2, <1>3, SubsetInduction
<1> QED
    BY <1>4 DEF can

-----------------------------------------------------------------------------
(* Numbers in their order. *)

(* A finite set of numbers that is not empty has a greatest. *)
LEMMA GreatestOf ==
    ASSUME NEW all, IsFiniteSet(all), all \subseteq Int, all # {}
    PROVE  \E m \in all : \A x \in all : x <= m
<1> DEFINE can == {S \in SUBSET all : S = {} \/ \E m \in S : \A x \in S : x <= m}
<1>1. {} \in can
    OBVIOUS
<1>2. ASSUME NEW S \in SUBSET all, S # {}, \A x \in S : S \ {x} \in can
      PROVE  S \in can
    <2>1. PICK y \in S : TRUE
        BY <1>2
    <2>2. CASE S \ {y} = {}
        <3>1. \A x \in S : x <= y
            BY <2>1, <2>2
        <3> QED BY <3>1
    <2>3. CASE S \ {y} # {}
        <3>1. PICK m \in S \ {y} : \A x \in S \ {y} : x <= m
            BY <1>2, <2>3
        <3>2. m \in Int /\ y \in Int /\ \A x \in S : x \in Int
            BY <2>1, <3>1
        <3>3. CASE y <= m
            BY <3>1, <3>2, <3>3
        <3>4. CASE m <= y
            <4>1. \A x \in S : x <= y
                BY <3>1, <3>2, <3>4
            <4> QED BY <4>1
        <3> QED BY <3>2, <3>3, <3>4
    <2> QED BY <2>2, <2>3
<1> HIDE DEF can
<1>3. SUBSET all \subseteq can
    BY <1>1, <1>2, SubsetInduction
<1>4. all \in can
    BY <1>3
<1> QED
    BY <1>4 DEF can

Below(S, x) == {y \in S : y < x}

(* For each place there is a member with so many below it. *)
LEMMA EachPlace ==
    ASSUME NEW all, IsFiniteSet(all), all \subseteq Int
    PROVE  \A i \in 1 .. Cardinality(all) : \E x \in all : Cardinality(Below(all, x)) = i - 1
<1> DEFINE Placed(S) ==
        \A i \in 1 .. Cardinality(S) : \E x \in S : Cardinality(Below(S, x)) = i - 1
           can == {S \in SUBSET all : Placed(S)}
<1>1. {} \in can
    BY FS_EmptySet
<1>2. ASSUME NEW S \in SUBSET all, S # {}, \A x \in S : S \ {x} \in can
      PROVE  S \in can
    <2>1. IsFiniteSet(S) /\ S \subseteq Int
        BY FS_Subset
    <2>2. PICK m \in S : \A x \in S : x <= m
        BY <1>2, <2>1, GreatestOf
    <2>3. /\ Cardinality(S) \in Nat /\ Cardinality(S \ {m}) \in Nat
          /\ Cardinality(S \ {m}) + 1 = Cardinality(S)
        BY <2>1, OneLess
    <2> SUFFICES ASSUME NEW i \in 1 .. Cardinality(S)
                 PROVE  \E x \in S : Cardinality(Below(S, x)) = i - 1
        OBVIOUS
    <2>4. CASE i = Cardinality(S)
        <3>1. \A x \in S : x < m <=> x # m
            BY <2>1, <2>2
        <3>2. Below(S, m) = S \ {m}
            BY <3>1 DEF Below
        <3> QED BY <2>3, <2>4, <3>2
    <2>5. CASE i # Cardinality(S)
        <3>1. i \in 1 .. Cardinality(S \ {m})
            BY <2>3, <2>5
        <3>2. PICK x \in S \ {m} : Cardinality(Below(S \ {m}, x)) = i - 1
            BY <1>2, <3>1
        <3>3. Below(S, x) = Below(S \ {m}, x)
            BY <2>1, <2>2, <3>2 DEF Below
        <3> QED BY <3>2, <3>3
    <2> QED BY <2>4, <2>5
<1> HIDE DEF can
<1>3. SUBSET all \subseteq can
    BY <1>1, <1>2, SubsetInduction
<1>4. all \in can
    BY <1>3
<1> QED
    BY <1>4 DEF can

(* The members of a set in their order: each of them once. *)
LEMMA AscendingOf ==
    ASSUME NEW S, IsFiniteSet(S), S \subseteq Int
    PROVE  /\ Cardinality(S) \in Nat
           /\ Ascending(S) \in [1 .. Cardinality(S) -> S]
           /\ \A i, j \in 1 .. Cardinality(S) : Ascending(S)[i] = Ascending(S)[j] => i = j
<1> DEFINE f == Ascending(S)
           place(i) == CHOOSE x \in S : Cardinality({y \in S : y < x}) = i - 1
<1>1. Cardinality(S) \in Nat
    BY FS_CardinalityType
<1>2. ASSUME NEW i \in 1 .. Cardinality(S)
      PROVE  f[i] \in S /\ Cardinality(Below(S, f[i])) = i - 1
    <2>1. \E x \in S : Cardinality(Below(S, x)) = i - 1
        BY EachPlace
    <2>2. f[i] = CHOOSE x \in S : Cardinality(Below(S, x)) = i - 1
        BY DEF Ascending, Below
    <2> HIDE DEF f
    <2> QED BY <2>1, <2>2
<1>3. f = [i \in 1 .. Cardinality(S) |-> place(i)]
    BY DEF Ascending
<1> HIDE DEF f, place
<1>4. f \in [1 .. Cardinality(S) -> S]
    BY <1>2, <1>3
<1>5. ASSUME NEW i \in 1 .. Cardinality(S), NEW j \in 1 .. Cardinality(S), f[i] = f[j]
      PROVE  i = j
    <2>1. i - 1 = j - 1
        BY <1>2, <1>5
    <2> QED BY <1>1, <2>1
<1> QED
    BY <1>1, <1>4, <1>5 DEF f
-----------------------------------------------------------------------------
(* Lists: sequences of whatever their elements are. *)

IsList(s) == Len(s) \in Nat /\ s = [i \in 1 .. Len(s) |-> s[i]]

(* A function on the first naturals is one. *)
LEMMA ListOf ==
    ASSUME NEW n \in Nat, NEW S, NEW s \in [1 .. n -> S]
    PROVE  IsList(s) /\ Len(s) = n /\ s \in Seq(S) /\ \A i \in DOMAIN s : s[i] \in S
<1>1. s \in Seq(S) /\ Len(s) = n
    OBVIOUS
<1> QED
    BY <1>1 DEF IsList

LEMMA ListSeq ==
    ASSUME NEW S, NEW s \in Seq(S)
    PROVE  IsList(s) /\ \A i \in DOMAIN s : s[i] \in S
BY DEF IsList

(* Its places, its first element and the others. *)
LEMMA ListPlaces ==
    ASSUME NEW s, IsList(s)
    PROVE  DOMAIN s = 1 .. Len(s) /\ (s = <<>> <=> Len(s) = 0)
<1> DEFINE S == {s[i] : i \in 1 .. Len(s)}
<1>1. s \in [1 .. Len(s) -> S]
    BY DEF IsList
<1> HIDE DEF S
<1>2. s \in Seq(S)
    BY <1>1 DEF IsList
<1> QED
    BY <1>2

LEMMA ListParts ==
    ASSUME NEW s, IsList(s), s # <<>>
    PROVE  /\ IsList(Tail(s)) /\ Len(Tail(s)) = Len(s) - 1 /\ 1 \in DOMAIN s /\ Head(s) = s[1]
           /\ \A i \in DOMAIN Tail(s) : i + 1 \in DOMAIN s /\ Tail(s)[i] = s[i + 1]
           /\ \A i \in DOMAIN s : i = 1 \/ (i - 1 \in DOMAIN Tail(s) /\ Tail(s)[i - 1] = s[i])
<1> DEFINE S == {s[i] : i \in 1 .. Len(s)}
<1>1. s \in [1 .. Len(s) -> S]
    BY DEF IsList
<1> HIDE DEF S
<1>2. s \in Seq(S) /\ Len(s) \in Nat
    BY <1>1 DEF IsList
<1>3. Tail(s) \in Seq(S) /\ Len(Tail(s)) = Len(s) - 1 /\ Head(s) = s[1]
    BY <1>2
<1>4. DOMAIN s = 1 .. Len(s) /\ DOMAIN Tail(s) = 1 .. (Len(s) - 1)
    BY <1>2, <1>3
<1>5. Len(s) # 0
    BY <1>2
<1>6. IsList(Tail(s))
    BY <1>3, ListSeq
<1>7. \A i \in 1 .. (Len(s) - 1) : Tail(s)[i] = s[i + 1]
    BY <1>2
<1> QED
    BY <1>2, <1>3, <1>4, <1>5, <1>6, <1>7

(* One list after the other. *)
LEMMA ListJoin ==
    ASSUME NEW s, NEW t, IsList(s), IsList(t)
    PROVE  /\ IsList(s \o t) /\ Len(s \o t) = Len(s) + Len(t)
           /\ \A i \in DOMAIN (s \o t) :
                IF i <= Len(s) THEN i \in DOMAIN s /\ (s \o t)[i] = s[i]
                ELSE i - Len(s) \in DOMAIN t /\ (s \o t)[i] = t[i - Len(s)]
<1> DEFINE S == {s[i] : i \in 1 .. Len(s)} \cup {t[i] : i \in 1 .. Len(t)}
<1>1. s \in [1 .. Len(s) -> S] /\ t \in [1 .. Len(t) -> S]
    BY DEF IsList
<1> HIDE DEF S
<1>2. s \in Seq(S) /\ t \in Seq(S) /\ Len(s) \in Nat /\ Len(t) \in Nat
    BY <1>1 DEF IsList
<1>3. s \o t \in Seq(S) /\ Len(s \o t) = Len(s) + Len(t)
    BY <1>2
<1>4. DOMAIN s = 1 .. Len(s) /\ DOMAIN t = 1 .. Len(t) /\ DOMAIN (s \o t) = 1 .. (Len(s) + Len(t))
    BY <1>2, <1>3
<1>5. \A i \in 1 .. (Len(s) + Len(t)) : (s \o t)[i] = IF i <= Len(s) THEN s[i] ELSE t[i - Len(s)]
    BY <1>2
<1>6. IsList(s \o t)
    BY <1>3, ListSeq
<1> DEFINE j == s \o t
<1> HIDE DEF j
<1>7. ASSUME NEW i \in DOMAIN j
      PROVE  IF i <= Len(s) THEN i \in DOMAIN s /\ j[i] = s[i]
             ELSE i - Len(s) \in DOMAIN t /\ j[i] = t[i - Len(s)]
    <2>1. i \in 1 .. (Len(s) + Len(t)) /\ j[i] = IF i <= Len(s) THEN s[i] ELSE t[i - Len(s)]
        BY <1>4, <1>5 DEF j
    <2>2. i <= Len(s) => i \in 1 .. Len(s)
        BY <1>2, <2>1
    <2>3. ~ (i <= Len(s)) => i - Len(s) \in 1 .. Len(t)
        BY <1>2, <2>1
    <2> QED BY <1>4, <2>1, <2>2, <2>3
<1> QED
    BY <1>3, <1>6, <1>7 DEF j

(* The elements at some places of a list. *)
LEMMA SelectedOf ==
    ASSUME NEW s, IsList(s), NEW P, P \subseteq DOMAIN s
    PROVE  /\ IsList(Selected(s, P)) /\ Len(Selected(s, P)) = Cardinality(P)
           /\ \A i \in DOMAIN Selected(s, P) : \E p \in P : Selected(s, P)[i] = s[p]
<1> DEFINE n == Cardinality(P)
           order == Ascending(P)
           all == {s[p] : p \in P}
<1>1. DOMAIN s = 1 .. Len(s) /\ Len(s) \in Nat
    BY ListPlaces DEF IsList
<1>2. IsFiniteSet(P) /\ P \subseteq Int
    <2>1. IsFiniteSet(1 .. Len(s))
        BY <1>1, FS_Interval
    <2> QED BY <1>1, <2>1, FS_Subset
<1>3. n \in Nat /\ order \in [1 .. n -> P]
    BY <1>2, AscendingOf
<1>4. Selected(s, P) = [i \in DOMAIN order |-> s[order[i]]]
    BY DEF Selected
<1> HIDE DEF n, order
<1>5. Selected(s, P) \in [1 .. n -> all]
    BY <1>3, <1>4
<1>6. IsList(Selected(s, P)) /\ Len(Selected(s, P)) = n
    BY <1>3, <1>5, ListOf
<1>7. \A i \in DOMAIN Selected(s, P) : Selected(s, P)[i] \in all
    BY <1>5
<1> QED
    BY <1>6, <1>7 DEF n

(* The least of a set of naturals. *)
LEMMA LeastOf ==
    ASSUME NEW S, S \subseteq Nat, S # {}
    PROVE  Min(S) \in S /\ \A x \in S : Min(S) <= x
<1> DEFINE under == {n \in Nat : \A x \in S : n <= x}
<1>1. \E m \in S : \A x \in S : m <= x
    <2> SUFFICES ASSUME \A m \in S : \E x \in S : ~ (m <= x) PROVE FALSE
        OBVIOUS
    <2>1. 0 \in under
        OBVIOUS
    <2>2. ASSUME NEW n \in Nat, n \in under PROVE n + 1 \in under
        <3>1. n \notin S
            BY <2>2
        <3>2. \A x \in S : x \in Nat /\ n <= x /\ x # n
            BY <2>2, <3>1
        <3> QED BY <3>2
    <2> HIDE DEF under
    <2>3. Nat \subseteq under
        BY <2>1, <2>2, NatSetInduction
    <2>4. PICK m \in S : TRUE
        OBVIOUS
    <2>5. m \in Nat /\ m + 1 \in under
        BY <2>3, <2>4
    <2>6. m + 1 <= m
        BY <2>4, <2>5 DEF under
    <2> QED BY <2>5, <2>6
<1>2. Min(S) = CHOOSE x \in S : \A y \in S : x <= y
    BY DEF Min
<1> QED
    BY <1>1, <1>2

(* Checks of which none fails. *)
LEMMA NoFailure ==
    ASSUME NEW checks, IsList(checks), \A i \in DOMAIN checks : checks[i][2] # "none",
           FirstFailure(checks) = "none"
    PROVE  \A i \in DOMAIN checks : ~ checks[i][1]
<1> DEFINE failing == {i \in DOMAIN checks : checks[i][1]}
<1>1. failing \subseteq Nat /\ failing \subseteq DOMAIN checks
    BY ListPlaces DEF IsList
<1>2. failing # {} => Min(failing) \in failing
    BY <1>1, LeastOf
<1>3. FirstFailure(checks) = IF failing = {} THEN "none" ELSE checks[Min(failing)][2]
    BY DEF FirstFailure
<1> HIDE DEF failing
<1>4. failing = {}
    BY <1>1, <1>2, <1>3
<1> QED
    BY <1>4 DEF failing
-----------------------------------------------------------------------------
(* What an event makes of the resources of a world.                           *)

EventType ==
    {"run.started", "agent.created", "agent.retired", "pressure.applied", "task.created",
     "task.expired", "task.claimed", "memory.stored", "task.submitted", "task.evaluated",
     "submission.verified", "link.created", "link.removed", "message.sent",
     "message.delivered", "link.used", "resource.spent", "resource.transferred",
     "capability.published", "capability.used", "run.completed", "metrics.recorded",
     "memory.retrieved", "cognition.recorded", "violation.recorded", "tick.completed"}

\* An event as the engine makes them, legal or not.
WellMade(e) ==
    /\ e.type \in EventType
    /\ e.type = "run.started" => e.data.treasury = TreasuryResources
    /\ e.type = "agent.created" => e.actor \in Agent /\ e.data.resources = InitialResources
    /\ e.type = "pressure.applied" => e.data.type \in PressureType /\ e.data.value \in Nat
    /\ e.type = "resource.spent" => e.data.cost \in Resources
    /\ e.type = "resource.transferred" => e.data.kind \in Kind /\ e.data.amount \in Int
    /\ e.type \in {"capability.published", "capability.used"} => e.about \in Capability

ShapeOfWorld(w) ==
    w = [tick |-> w.tick, started |-> w.started, completed |-> w.completed, born |-> w.born,
         active |-> w.active, balance |-> w.balance, treasury |-> w.treasury,
         physics |-> w.physics, task |-> w.task, memory |-> w.memory, owner |-> w.owner,
         verified |-> w.verified, links |-> w.links, message |-> w.message,
         metrics |-> w.metrics]

Physics == [price : Nat, capacity : Nat, load : Nat]

\* What there is of a kind once so many agents have been given theirs.
Given(w, k) ==
    (IF w.started THEN TreasuryResources[k] ELSE 0) + w.born * InitialResources[k]

\* Agents are born in their order; those that are not have nothing and own
\* nothing; and what all have is what was given.
Conserved(w) ==
    /\ ShapeOfWorld(w)
    /\ w.born \in 0 .. Agents /\ w.active \subseteq 1 .. w.born /\ w.started \in BOOLEAN
    /\ w.balance \in [Agent -> Resources] /\ w.treasury \in Resources
    /\ w.physics \in Physics
    /\ w.owner \in [Capability -> 0 .. w.born]
    /\ \A a \in Agent : a > w.born => \A k \in Kind : w.balance[a][k] = 0
    /\ ~ w.started => w.born = 0 /\ \A k \in Kind : w.treasury[k] = 0
    /\ \A k \in Kind : w.treasury[k] + Together(w.balance, Agent, k) = Given(w, k)

(* There are finitely many agents, and they are no others.                     *)
LEMMA AgentsAreFew == IsFiniteSet(Agent) /\ Agent \subseteq Nat /\ Nobody \notin Agent /\ Treasury \notin Agent
<1>1. Agents \in Nat
    BY LabAssumption
<1>2. IsFiniteSet(1 .. Agents)
    BY <1>1, FS_Interval
<1> QED
    BY <1>1, <1>2 DEF Agent, Nobody, Treasury

(* An event that leaves resources, births and prices alone. *)
LEMMA SameConserved ==
    ASSUME NEW w, Conserved(w), NEW u, ShapeOfWorld(u),
           u.started = w.started, u.born = w.born, u.balance = w.balance,
           u.treasury = w.treasury, u.physics = w.physics, u.owner = w.owner,
           u.active \subseteq w.active
    PROVE  Conserved(u)
BY DEF Conserved, Given

(* Where no more or less is held by an agent than comes from the treasury. *)
LEMMA PaidConserved ==
    ASSUME NEW w, Conserved(w), NEW u, ShapeOfWorld(u), w.started,
           u.started = w.started, u.born = w.born,
           u.physics = w.physics, u.owner = w.owner, u.active = w.active,
           NEW a \in Agent, a <= w.born, u.balance \in [Agent -> Resources],
           u.treasury \in Resources,
           \A x \in Agent \ {a} : u.balance[x] = w.balance[x],
           \A k \in Kind : u.balance[a][k] + u.treasury[k] = w.balance[a][k] + w.treasury[k]
    PROVE  Conserved(u)
<1>1. ASSUME NEW k \in Kind
      PROVE  u.treasury[k] + Together(u.balance, Agent, k) = Given(u, k)
    <2>1. /\ \A x \in Agent : Share(w.balance, x, k) \in Nat /\ Share(u.balance, x, k) \in Nat
          /\ \A x \in Agent \ {a} : Share(u.balance, x, k) = Share(w.balance, x, k)
        BY DEF Conserved, Resources, Share
    <2>2. /\ Together(w.balance, Agent, k) \in Nat
          /\ Together(u.balance, Agent, k)
                = Together(w.balance, Agent, k) + (Share(u.balance, a, k) - Share(w.balance, a, k))
        <3> DEFINE s == w.balance
                   t == u.balance
        <3>1. IsFiniteSet(Agent) /\ \A x \in Agent : Share(s, x, k) \in Nat /\ Share(t, x, k) \in Nat
            BY <2>1, AgentsAreFew
        <3>2. \A x \in Agent \ {a} : Share(t, x, k) = Share(s, x, k)
            BY <2>1
        <3> HIDE DEF s, t
        <3>3. /\ Together(s, Agent, k) \in Nat
              /\ Together(t, Agent, k)
                    = Together(s, Agent, k) + (Share(t, a, k) - Share(s, a, k))
            BY <3>1, <3>2, TogetherChange
        <3> QED BY <3>3 DEF s, t
    <2>3. /\ w.treasury[k] \in Nat /\ u.treasury[k] \in Nat
          /\ Share(w.balance, a, k) \in Nat /\ Share(u.balance, a, k) \in Nat
          /\ Share(u.balance, a, k) + u.treasury[k] = Share(w.balance, a, k) + w.treasury[k]
        BY <2>1 DEF Conserved, Resources, Share
    <2>4. w.treasury[k] + Together(w.balance, Agent, k) = Given(w, k) /\ Given(u, k) = Given(w, k)
        BY DEF Conserved, Given
    <2> QED BY <2>2, <2>3, <2>4
<1>2. ASSUME NEW x \in Agent, x > u.born, NEW k \in Kind PROVE u.balance[x][k] = 0
    <2>1. x # a /\ w.balance[x][k] = 0
        BY <1>2, AgentsAreFew DEF Conserved
    <2> QED BY <2>1
<1> QED
    BY <1>1, <1>2 DEF Conserved

(* Nor where one agent has what another has no more.                          *)
LEMMA MovedConserved ==
    ASSUME NEW w, Conserved(w), NEW u, ShapeOfWorld(u),
           u.started = w.started, u.born = w.born, u.treasury = w.treasury,
           u.physics = w.physics, u.owner = w.owner, u.active = w.active,
           NEW a \in Agent, a <= w.born, NEW b \in Agent, b <= w.born, a # b,
           u.balance \in [Agent -> Resources],
           \A x \in Agent \ {a, b} : u.balance[x] = w.balance[x],
           \A k \in Kind : u.balance[a][k] + u.balance[b][k] = w.balance[a][k] + w.balance[b][k]
    PROVE  Conserved(u)
<1> DEFINE s == w.balance
           t == u.balance
           m == [x \in Agent |-> IF x = a THEN t[a] ELSE s[x]]
<1>1. s \in [Agent -> Resources] /\ t \in [Agent -> Resources]
    BY DEF Conserved
<1>2. \A x \in Agent \ {a, b} : t[x] = s[x]
    OBVIOUS
<1>3. \A k \in Kind : t[a][k] + t[b][k] = s[a][k] + s[b][k]
    OBVIOUS
<1> HIDE DEF s, t
<1>4. ASSUME NEW k \in Kind PROVE Together(t, Agent, k) = Together(s, Agent, k)
    <2>1. /\ \A x \in Agent : Share(s, x, k) \in Nat /\ Share(t, x, k) \in Nat
                                /\ Share(m, x, k) \in Nat
          /\ \A x \in Agent \ {a} : Share(m, x, k) = Share(s, x, k)
          /\ \A x \in Agent \ {b} : Share(t, x, k) = Share(m, x, k)
          /\ Share(m, a, k) = Share(t, a, k) /\ Share(m, b, k) = Share(s, b, k)
          /\ Share(t, a, k) + Share(t, b, k) = Share(s, a, k) + Share(s, b, k)
        BY <1>1, <1>2, <1>3 DEF Resources, Share
    <2> HIDE DEF m
    <2>2. IsFiniteSet(Agent)
        BY AgentsAreFew
    <2>3. /\ Together(s, Agent, k) \in Nat
          /\ Together(m, Agent, k) = Together(s, Agent, k) + (Share(m, a, k) - Share(s, a, k))
        BY <2>1, <2>2, TogetherChange
    <2>4. /\ Together(m, Agent, k) \in Nat
          /\ Together(t, Agent, k) = Together(m, Agent, k) + (Share(t, b, k) - Share(m, b, k))
        BY <2>1, <2>2, TogetherChange
    <2>5. /\ Share(s, a, k) \in Nat /\ Share(t, a, k) \in Nat
          /\ Share(s, b, k) \in Nat /\ Share(t, b, k) \in Nat
        BY <2>1
    <2> QED BY <2>1, <2>3, <2>4, <2>5
<1>5. ASSUME NEW x \in Agent, x > u.born, NEW k \in Kind PROVE u.balance[x][k] = 0
    <2>1. x # a /\ x # b /\ s[x][k] = 0
        BY <1>5, AgentsAreFew DEF Conserved, s
    <2>2. t[x] = s[x]
        BY <1>2, <2>1
    <2> QED BY <2>1, <2>2 DEF t
<1> QED
    BY <1>4, <1>5 DEF Conserved, Given, s, t

\* Events that are about something else.
Quiet ==
    EventType \ {"run.started", "agent.created", "pressure.applied", "resource.spent",
                 "resource.transferred", "capability.published", "capability.used"}

LEMMA QuietConserved ==
    ASSUME NEW w, Conserved(w), NEW e, e.type \in Quiet
    PROVE  Conserved(Applied(w, e))
<1> DEFINE u == Applied(w, e)
           Same(v) == /\ ShapeOfWorld(v)
                      /\ v.started = w.started /\ v.born = w.born /\ v.balance = w.balance
                      /\ v.treasury = w.treasury /\ v.physics = w.physics /\ v.owner = w.owner
                      /\ v.active \subseteq w.active
<1>1. ShapeOfWorld(w)
    BY DEF Conserved
<1>2. CASE e.type = "agent.retired"
    <2>1. u = [Mutated(w, e) EXCEPT !.tick = e.tick]
        BY DEF Applied
    <2>2. Mutated(w, e) = [w EXCEPT !.active = @ \ {e.actor}]
        BY <1>2 DEF Mutated
    <2> HIDE DEF u
    <2>3. Same(u)
        BY <1>1, <2>1, <2>2 DEF ShapeOfWorld
    <2> QED BY <2>3, SameConserved DEF u
<1>3. CASE e.type = "task.created"
    <2>1. u = [Mutated(w, e) EXCEPT !.tick = e.tick]
        BY DEF Applied
    <2>2. Mutated(w, e) = [w EXCEPT !.task[e.about] = [NoTask EXCEPT !.status = "available", !.created = e.tick]]
        BY <1>3 DEF Mutated
    <2> HIDE DEF u
    <2>3. Same(u)
        BY <1>1, <2>1, <2>2 DEF ShapeOfWorld
    <2> QED BY <2>3, SameConserved DEF u
<1>4. CASE e.type = "task.expired"
    <2>1. u = [Mutated(w, e) EXCEPT !.tick = e.tick]
        BY DEF Applied
    <2>2. Mutated(w, e) = [w EXCEPT !.task[e.about].status = "expired"]
        BY <1>4 DEF Mutated
    <2> HIDE DEF u
    <2>3. Same(u)
        BY <1>1, <2>1, <2>2 DEF ShapeOfWorld
    <2> QED BY <2>3, SameConserved DEF u
<1>5. CASE e.type = "task.claimed"
    <2>1. u = [Mutated(w, e) EXCEPT !.tick = e.tick]
        BY DEF Applied
    <2>2. Mutated(w, e) = [w EXCEPT !.task[e.about].status = "claimed", !.task[e.about].by = e.actor]
        BY <1>5 DEF Mutated
    <2> HIDE DEF u
    <2>3. Same(u)
        BY <1>1, <2>1, <2>2 DEF ShapeOfWorld
    <2> QED BY <2>3, SameConserved DEF u
<1>6. CASE e.type = "memory.stored"
    <2>1. u = [Mutated(w, e) EXCEPT !.tick = e.tick]
        BY DEF Applied
    <2>2. Mutated(w, e) = [w EXCEPT !.memory[e.actor][e.about] = e.data.result]
        BY <1>6 DEF Mutated
    <2> HIDE DEF u
    <2>3. Same(u)
        BY <1>1, <2>1, <2>2 DEF ShapeOfWorld
    <2> QED BY <2>3, SameConserved DEF u
<1>7. CASE e.type = "task.submitted"
    <2>1. u = [Mutated(w, e) EXCEPT !.tick = e.tick]
        BY DEF Applied
    <2>2. Mutated(w, e) = [w EXCEPT !.task[e.about].status = "submitted", !.task[e.about].result = e.data.result]
        BY <1>7 DEF Mutated
    <2> HIDE DEF u
    <2>3. Same(u)
        BY <1>1, <2>1, <2>2 DEF ShapeOfWorld
    <2> QED BY <2>3, SameConserved DEF u
<1>8. CASE e.type = "task.evaluated"
    <2>1. u = [Mutated(w, e) EXCEPT !.tick = e.tick]
        BY DEF Applied
    <2>2. Mutated(w, e) = [w EXCEPT !.task[e.about].status = "completed", !.task[e.about].accepted = e.data.accepted]
        BY <1>8 DEF Mutated
    <2> HIDE DEF u
    <2>3. Same(u)
        BY <1>1, <2>1, <2>2 DEF ShapeOfWorld
    <2> QED BY <2>3, SameConserved DEF u
<1>9. CASE e.type = "submission.verified"
    <2>1. u = [Mutated(w, e) EXCEPT !.tick = e.tick]
        BY DEF Applied
    <2>2. Mutated(w, e) = [w EXCEPT !.verified = @ \union {<<e.about, e.actor>>}]
        BY <1>9 DEF Mutated
    <2> HIDE DEF u
    <2>3. Same(u)
        BY <1>1, <2>1, <2>2 DEF ShapeOfWorld
    <2> QED BY <2>3, SameConserved DEF u
<1>10. CASE e.type = "link.created"
    <2>1. u = [Mutated(w, e) EXCEPT !.tick = e.tick]
        BY DEF Applied
    <2>2. Mutated(w, e) = [w EXCEPT !.links = @ \union {{e.actor, e.target}}]
        BY <1>10 DEF Mutated
    <2> HIDE DEF u
    <2>3. Same(u)
        BY <1>1, <2>1, <2>2 DEF ShapeOfWorld
    <2> QED BY <2>3, SameConserved DEF u
<1>11. CASE e.type = "link.removed"
    <2>1. u = [Mutated(w, e) EXCEPT !.tick = e.tick]
        BY DEF Applied
    <2>2. Mutated(w, e) = [w EXCEPT !.links = @ \ {{e.actor, e.target}}]
        BY <1>11 DEF Mutated
    <2> HIDE DEF u
    <2>3. Same(u)
        BY <1>1, <2>1, <2>2 DEF ShapeOfWorld
    <2> QED BY <2>3, SameConserved DEF u
<1>12. CASE e.type = "message.sent"
    <2>1. u = [Mutated(w, e) EXCEPT !.tick = e.tick]
        BY DEF Applied
    <2>2. Mutated(w, e) = [w EXCEPT !.message = [stage |-> "sent", from |-> e.actor, to |-> e.target]]
        BY <1>12 DEF Mutated
    <2> HIDE DEF u
    <2>3. Same(u)
        BY <1>1, <2>1, <2>2 DEF ShapeOfWorld
    <2> QED BY <2>3, SameConserved DEF u
<1>13. CASE e.type = "message.delivered"
    <2>1. u = [Mutated(w, e) EXCEPT !.tick = e.tick]
        BY DEF Applied
    <2>2. Mutated(w, e) = [w EXCEPT !.message.stage = "delivered"]
        BY <1>13 DEF Mutated
    <2> HIDE DEF u
    <2>3. Same(u)
        BY <1>1, <2>1, <2>2 DEF ShapeOfWorld
    <2> QED BY <2>3, SameConserved DEF u
<1>14. CASE e.type = "link.used"
    <2>1. u = [Mutated(w, e) EXCEPT !.tick = e.tick]
        BY DEF Applied
    <2>2. Mutated(w, e) = [w EXCEPT !.message = NoMessage]
        BY <1>14 DEF Mutated
    <2> HIDE DEF u
    <2>3. Same(u)
        BY <1>1, <2>1, <2>2 DEF ShapeOfWorld
    <2> QED BY <2>3, SameConserved DEF u
<1>15. CASE e.type = "run.completed"
    <2>1. u = [Mutated(w, e) EXCEPT !.tick = e.tick]
        BY DEF Applied
    <2>2. Mutated(w, e) = [w EXCEPT !.completed = TRUE]
        BY <1>15 DEF Mutated
    <2> HIDE DEF u
    <2>3. Same(u)
        BY <1>1, <2>1, <2>2 DEF ShapeOfWorld
    <2> QED BY <2>3, SameConserved DEF u
<1>16. CASE e.type = "metrics.recorded"
    <2>1. u = [Mutated(w, e) EXCEPT !.tick = e.tick]
        BY DEF Applied
    <2>2. Mutated(w, e) = [w EXCEPT !.metrics = @ + 1]
        BY <1>16 DEF Mutated
    <2> HIDE DEF u
    <2>3. Same(u)
        BY <1>1, <2>1, <2>2 DEF ShapeOfWorld
    <2> QED BY <2>3, SameConserved DEF u
<1>17. CASE e.type \in {"memory.retrieved", "cognition.recorded", "violation.recorded",
                       "tick.completed"}
    <2>1. u = [Mutated(w, e) EXCEPT !.tick = e.tick]
        BY DEF Applied
    <2>2. Mutated(w, e) = w
        BY <1>17 DEF Mutated
    <2> HIDE DEF u
    <2>3. Same(u)
        BY <1>1, <2>1, <2>2 DEF ShapeOfWorld
    <2> QED BY <2>3, SameConserved DEF u
<1> QED
    BY <1>2, <1>3, <1>4, <1>5, <1>6, <1>7, <1>8, <1>9, <1>10, <1>11, <1>12, <1>13, <1>14, <1>15, <1>16, <1>17 DEF Quiet, EventType

(* The treasury is filled when the run starts.                                *)
LEMMA StartConserved ==
    ASSUME NEW w, Conserved(w), NEW e, WellMade(e), NEW prv, Legal(w, e, prv),
           e.type = "run.started"
    PROVE  Conserved(Applied(w, e))
<1> DEFINE u == Applied(w, e)
<1>1. u = [Mutated(w, e) EXCEPT !.tick = e.tick]
    BY DEF Applied
<1>2. Mutated(w, e) = [w EXCEPT !.started = TRUE, !.treasury = e.data.treasury]
    BY DEF Mutated
<1>3. e.data.treasury = TreasuryResources /\ ~ w.started
    BY DEF WellMade, Legal, InCourse
<1> HIDE DEF u
<1>4. /\ ShapeOfWorld(u)
      /\ u.started = TRUE /\ u.treasury = TreasuryResources
      /\ u.born = w.born /\ u.balance = w.balance /\ u.physics = w.physics /\ u.owner = w.owner
      /\ u.active = w.active
    BY <1>1, <1>2, <1>3 DEF ShapeOfWorld, Conserved
<1>5. TreasuryResources \in Resources /\ InitialResources \in Resources
    BY LabAssumption
<1>6. ASSUME NEW k \in Kind
      PROVE  u.treasury[k] + Together(u.balance, Agent, k) = Given(u, k)
    <2>1. /\ w.born = 0 /\ w.treasury[k] = 0 /\ InitialResources[k] \in Nat
          /\ TreasuryResources[k] \in Nat
        BY <1>3, <1>5 DEF Conserved, Resources
    <2>2. Given(w, k) = 0 /\ Given(u, k) = TreasuryResources[k]
        BY <1>3, <1>4, <2>1 DEF Given
    <2>3. \A x \in Agent : Share(w.balance, x, k) \in Nat
        BY DEF Conserved, Resources, Share
    <2>4. IsFiniteSet(Agent) /\ Agent \in SUBSET Agent
        BY AgentsAreFew
    <2>5. Together(w.balance, Agent, k) \in Nat
        BY <2>3, <2>4, TogetherNat
    <2>6. Together(w.balance, Agent, k) = 0
        BY <2>1, <2>2, <2>5 DEF Conserved
    <2> QED BY <1>4, <2>1, <2>2, <2>6
<1> QED
    BY <1>4, <1>5, <1>6 DEF Conserved, u

(* An agent is born with what each has at first.                              *)
LEMMA BirthConserved ==
    ASSUME NEW w, Conserved(w), NEW e, WellMade(e), NEW prv, Legal(w, e, prv),
           e.type = "agent.created"
    PROVE  Conserved(Applied(w, e))
<1> DEFINE u == Applied(w, e)
           a == e.actor
<1>1. u = [Mutated(w, e) EXCEPT !.tick = e.tick]
    BY DEF Applied
<1>2. Mutated(w, e) = [w EXCEPT !.born = @ + 1, !.active = @ \union {e.actor},
                                !.balance[e.actor] = e.data.resources]
    BY DEF Mutated
<1>3. e.data.resources = InitialResources /\ w.started /\ a = w.born + 1 /\ a \in Agent
    BY DEF WellMade, Legal, InCourse, LegalOfAgent
<1>4. Agents \in Nat /\ InitialResources \in Resources /\ w.born \in 0 .. Agents
    BY LabAssumption DEF Conserved
<1> HIDE DEF u
<1>5. /\ ShapeOfWorld(u)
      /\ u.started = w.started /\ u.treasury = w.treasury
      /\ u.born = w.born + 1 /\ u.physics = w.physics /\ u.owner = w.owner
      /\ u.balance = [w.balance EXCEPT ![a] = InitialResources]
      /\ u.active = w.active \union {a}
    BY <1>1, <1>2, <1>3 DEF ShapeOfWorld, Conserved
<1>6. u.balance \in [Agent -> Resources] /\ w.balance \in [Agent -> Resources]
    BY <1>4, <1>5 DEF Conserved
<1>7. \A x \in Agent \ {a} : u.balance[x] = w.balance[x]
    BY <1>5, <1>6
<1>8. u.balance[a] = InitialResources
    BY <1>3, <1>5, <1>6
<1>9. u.born \in 0 .. Agents /\ u.active \subseteq 1 .. u.born
    BY <1>3, <1>4, <1>5 DEF Conserved, Agent
<1>10. u.owner \in [Capability -> 0 .. u.born]
    BY <1>4, <1>5 DEF Conserved
<1>11. ASSUME NEW k \in Kind
       PROVE  u.treasury[k] + Together(u.balance, Agent, k) = Given(u, k)
    <2>1. w.balance[a][k] = 0
        BY <1>3, <1>4 DEF Conserved
    <2>2. /\ \A x \in Agent : Share(w.balance, x, k) \in Nat /\ Share(u.balance, x, k) \in Nat
          /\ \A x \in Agent \ {a} : Share(u.balance, x, k) = Share(w.balance, x, k)
          /\ Share(u.balance, a, k) = InitialResources[k] /\ Share(w.balance, a, k) = 0
          /\ InitialResources[k] \in Nat /\ w.treasury[k] \in Nat /\ TreasuryResources[k] \in Nat
        BY <1>3, <1>4, <1>6, <1>7, <1>8, <2>1, LabAssumption DEF Conserved, Resources, Share
    <2>3. IsFiniteSet(Agent)
        BY AgentsAreFew
    <2> DEFINE s == w.balance
               t == u.balance
               n == InitialResources[k]
    <2> HIDE DEF s, t, a, n
    <2>4. /\ Together(s, Agent, k) \in Nat
          /\ Together(t, Agent, k) = Together(s, Agent, k) + n
        <3>1. /\ \A x \in Agent : Share(s, x, k) \in Nat /\ Share(t, x, k) \in Nat
              /\ \A x \in Agent \ {a} : Share(t, x, k) = Share(s, x, k)
              /\ Share(t, a, k) = n /\ Share(s, a, k) = 0 /\ n \in Nat /\ a \in Agent
            BY <1>3, <2>2 DEF s, t, n
        <3>2. /\ Together(s, Agent, k) \in Nat
              /\ Together(t, Agent, k) = Together(s, Agent, k) + (Share(t, a, k) - Share(s, a, k))
            BY <2>3, <3>1, TogetherChange
        <3> QED BY <3>1, <3>2
    <2>5. Given(u, k) = Given(w, k) + n
        <3>1. (w.born + 1) * n = w.born * n + n
            BY <1>4, <2>2 DEF n
        <3>2. w.born * n \in Nat /\ TreasuryResources[k] \in Nat /\ n \in Nat
            BY <1>4, <2>2 DEF n
        <3> QED BY <1>5, <3>1, <3>2 DEF Given, n
    <2>6. w.treasury[k] + Together(s, Agent, k) = Given(w, k)
        BY DEF Conserved, s
    <2>7. u.treasury[k] = w.treasury[k] /\ w.treasury[k] \in Nat /\ n \in Nat
        BY <1>5, <2>2 DEF n
    <2> QED BY <2>4, <2>5, <2>6, <2>7 DEF t
<1>12. ASSUME NEW x \in Agent, x > u.born, NEW k \in Kind PROVE u.balance[x][k] = 0
    <2>1. x > w.born /\ x # a
        BY <1>3, <1>4, <1>5, <1>12 DEF Agent
    <2> QED BY <1>7, <2>1 DEF Conserved
<1> QED
    BY <1>3, <1>5, <1>6, <1>9, <1>10, <1>11, <1>12 DEF Conserved, u

(* A change of prices, capacity or load.                                      *)
LEMMA PressureConserved ==
    ASSUME NEW w, Conserved(w), NEW e, WellMade(e), e.type = "pressure.applied"
    PROVE  Conserved(Applied(w, e))
<1> DEFINE u == Applied(w, e)
           f == w.physics
           n == e.data.value
<1>1. u = [Mutated(w, e) EXCEPT !.tick = e.tick]
    BY DEF Applied
<1>2. Mutated(w, e) = [w EXCEPT !.physics = AfterPressure(@, e.data)]
    BY DEF Mutated
<1>3. e.data.type \in PressureType /\ n \in Nat /\ PPM \in Nat \ {0}
    BY LabAssumption DEF WellMade
<1>4. f \in Physics
    BY DEF Conserved
<1>5. \A m \in Nat : m * n \in Nat /\ (m * n) \div PPM \in Nat
    <2>1. \A m \in Nat : m * n \in Nat
        BY <1>3
    <2> HIDE DEF n
    <2>2. \A m \in Nat : m \div PPM \in Nat
        BY <1>3
    <2> QED BY <2>1, <2>2
<1>6. AfterPressure(f, e.data) \in Physics
    <2> HIDE DEF f, n
    <2>1. f.price \in Nat /\ f.capacity \in Nat /\ f.load \in Nat
        BY <1>4 DEF Physics
    <2>2. /\ (f.price * n) \div PPM \in Nat /\ (f.capacity * n) \div PPM \in Nat
          /\ (f.load * n) \div PPM \in Nat
        BY <1>5, <2>1
    <2>3. CASE e.data.type = "resource_price_multiplier"
        BY <1>4, <2>2, <2>3 DEF AfterPressure, Physics, n
    <2>4. CASE e.data.type = "bandwidth_capacity_multiplier"
        BY <1>4, <2>2, <2>4 DEF AfterPressure, Physics, n
    <2>5. CASE e.data.type = "task_load_multiplier"
        BY <1>4, <2>2, <2>5 DEF AfterPressure, Physics, n
    <2>6. CASE e.data.type = "retire_agent_fraction"
        BY <1>4, <2>6 DEF AfterPressure
    <2> QED BY <1>3, <2>3, <2>4, <2>5, <2>6 DEF PressureType
<1> HIDE DEF u
<1>7. /\ ShapeOfWorld(u)
      /\ u.started = w.started /\ u.treasury = w.treasury
      /\ u.born = w.born /\ u.physics = AfterPressure(f, e.data) /\ u.owner = w.owner
      /\ u.balance = w.balance /\ u.active = w.active
    BY <1>1, <1>2 DEF ShapeOfWorld, Conserved
<1> QED
    BY <1>6, <1>7 DEF Conserved, Given, u

(* What resources add up to, and what is left of them.                        *)
LEMMA PlusMinus ==
    ASSUME NEW r \in Resources, NEW s \in Resources
    PROVE  /\ Plus(r, s) \in Resources /\ \A k \in Kind : Plus(r, s)[k] = r[k] + s[k]
           /\ Affords(r, s) => Minus(r, s) \in Resources
           /\ \A k \in Kind : Minus(r, s)[k] = r[k] - s[k]
BY DEF Plus, Minus, Affords, Resources

(* An agent pays the treasury.                                                *)
LEMMA SpentConserved ==
    ASSUME NEW w, Conserved(w), NEW e, WellMade(e), NEW prv, Legal(w, e, prv),
           e.type = "resource.spent"
    PROVE  Conserved(Applied(w, e))
<1> DEFINE u == Applied(w, e)
           a == e.actor
           cost == e.data.cost
<1>1. u = [Mutated(w, e) EXCEPT !.tick = e.tick]
    BY DEF Applied
<1>2. Mutated(w, e) = [w EXCEPT !.balance[e.actor] = Minus(@, e.data.cost),
                                !.treasury = Plus(@, e.data.cost)]
    BY DEF Mutated
<1>3. w.started /\ a \in w.active /\ Affords(w.balance[a], cost) /\ cost \in Resources
    BY DEF WellMade, Legal, InCourse, LegalOfResource
<1>4. a \in Agent /\ a <= w.born /\ Agents \in Nat
    BY <1>3, LabAssumption DEF Conserved, Agent
<1>5. w.balance \in [Agent -> Resources] /\ w.treasury \in Resources /\ ShapeOfWorld(w)
    BY DEF Conserved
<1> HIDE DEF u, a, cost
<1>6. /\ ShapeOfWorld(u)
      /\ u.started = w.started /\ u.born = w.born /\ u.physics = w.physics /\ u.owner = w.owner
      /\ u.active = w.active /\ u.treasury = Plus(w.treasury, cost)
      /\ u.balance = [w.balance EXCEPT ![a] = Minus(w.balance[a], cost)]
    BY <1>1, <1>2, <1>5 DEF ShapeOfWorld, a, cost
<1>7. u.balance \in [Agent -> Resources] /\ u.treasury \in Resources
    BY <1>3, <1>4, <1>5, <1>6, PlusMinus
<1>8. /\ \A x \in Agent \ {a} : u.balance[x] = w.balance[x]
      /\ u.balance[a] = Minus(w.balance[a], cost)
    BY <1>4, <1>5, <1>6
<1>9. ASSUME NEW k \in Kind
      PROVE  u.balance[a][k] + u.treasury[k] = w.balance[a][k] + w.treasury[k]
    <2>1. w.balance[a] \in Resources
        BY <1>4, <1>5
    <2>2. /\ u.balance[a][k] = w.balance[a][k] - cost[k]
          /\ u.treasury[k] = w.treasury[k] + cost[k]
        BY <1>3, <1>5, <1>6, <1>8, <2>1, PlusMinus
    <2>3. w.balance[a][k] \in Nat /\ w.treasury[k] \in Nat /\ cost[k] \in Nat
        BY <1>3, <1>5, <2>1 DEF Resources
    <2> QED BY <2>2, <2>3
<1> QED
    BY <1>3, <1>4, <1>6, <1>7, <1>8, <1>9, PaidConserved DEF u

(* A reward from the treasury, or a gift.                                     *)
LEMMA TransferConserved ==
    ASSUME NEW w, Conserved(w), NEW e, WellMade(e), NEW prv, Legal(w, e, prv),
           e.type = "resource.transferred"
    PROVE  Conserved(Applied(w, e))
<1> DEFINE u == Applied(w, e)
           a == e.actor
           b == e.target
           c == e.data.kind
           n == e.data.amount
<1>1. u = [Transferred(w, e) EXCEPT !.tick = e.tick]
    <2>1. Mutated(w, e) = Transferred(w, e)
        BY DEF Mutated
    <2> QED BY <2>1 DEF Applied
<1>2. w.started /\ b \in w.active /\ c \in Kind /\ n \in Nat /\ n > 0 /\ b # a
    BY DEF WellMade, Legal, InCourse, LegalOfResource
<1>3. b \in Agent /\ b <= w.born /\ Agents \in Nat
    BY <1>2, LabAssumption DEF Conserved, Agent
<1>4. w.balance \in [Agent -> Resources] /\ w.treasury \in Resources /\ ShapeOfWorld(w)
    BY DEF Conserved
<1>5. CASE a = Treasury
    <2>1. w.treasury[c] >= n
        BY <1>5 DEF Legal, LegalOfResource
    <2>2. Transferred(w, e) = [[w EXCEPT !.balance[e.target][e.data.kind] = @ + e.data.amount]
                                    EXCEPT !.treasury[e.data.kind] = @ - e.data.amount]
        BY <1>5 DEF Transferred
    <2> HIDE DEF u, a, b, c, n
    <2>3. /\ ShapeOfWorld(u)
          /\ u.started = w.started /\ u.born = w.born /\ u.physics = w.physics
          /\ u.owner = w.owner /\ u.active = w.active
          /\ u.treasury = [w.treasury EXCEPT ![c] = @ - n]
          /\ u.balance = [w.balance EXCEPT ![b] = [w.balance[b] EXCEPT ![c] = @ + n]]
        BY <1>1, <1>4, <2>2 DEF ShapeOfWorld, b, c, n
    <2>4. /\ [w.balance[b] EXCEPT ![c] = @ + n] \in Resources
          /\ [w.treasury EXCEPT ![c] = @ - n] \in Resources
        <3>1. w.balance[b] \in Resources
            BY <1>3, <1>4
        <3>2. \A m \in Nat : m + n \in Nat /\ (m >= n => m - n \in Nat)
            BY <1>2
        <3> QED BY <1>2, <1>4, <2>1, <3>1, <3>2 DEF Resources
    <2>5. /\ u.balance \in [Agent -> Resources] /\ u.treasury \in Resources
          /\ \A x \in Agent \ {b} : u.balance[x] = w.balance[x]
          /\ u.balance[b] = [w.balance[b] EXCEPT ![c] = @ + n]
        BY <1>3, <1>4, <2>3, <2>4
    <2>6. ASSUME NEW k \in Kind
          PROVE  u.balance[b][k] + u.treasury[k] = w.balance[b][k] + w.treasury[k]
        <3>1. w.balance[b] \in Resources
            BY <1>3, <1>4
        <3>2. w.balance[b][k] \in Nat /\ w.treasury[k] \in Nat
            BY <1>4, <3>1 DEF Resources
        <3>3. /\ u.balance[b][k] = IF k = c THEN w.balance[b][k] + n ELSE w.balance[b][k]
              /\ u.treasury[k] = IF k = c THEN w.treasury[k] - n ELSE w.treasury[k]
            BY <1>2, <1>4, <2>3, <2>5, <3>1 DEF Resources
        <3> QED BY <1>2, <3>2, <3>3
    <2>7. /\ ShapeOfWorld(u) /\ w.started
          /\ u.started = w.started /\ u.born = w.born /\ u.physics = w.physics
          /\ u.owner = w.owner /\ u.active = w.active /\ b \in Agent /\ b <= w.born
        BY <1>2, <1>3, <2>3
    <2>8. /\ u.balance \in [Agent -> Resources] /\ u.treasury \in Resources
          /\ \A x \in Agent \ {b} : u.balance[x] = w.balance[x]
        BY <2>5
    <2>9. Conserved(u)
        BY <2>6, <2>7, <2>8, PaidConserved
    <2> QED BY <2>9 DEF u
<1>6. CASE a # Treasury
    <2>1. a \in w.active /\ w.balance[a][c] >= n
        BY <1>6 DEF Legal, LegalOfResource, ActiveWithCause
    <2>2. Transferred(w, e) = [[w EXCEPT !.balance[e.target][e.data.kind] = @ + e.data.amount]
                                    EXCEPT !.balance[e.actor][e.data.kind] = @ - e.data.amount]
        BY <1>6 DEF Transferred
    <2>3. a \in Agent /\ a <= w.born
        BY <1>3, <2>1 DEF Conserved, Agent
    <2> HIDE DEF u, a, b, c, n
    <2> DEFINE v == [w EXCEPT !.balance[e.target][e.data.kind] = @ + e.data.amount]
               r == [w.balance EXCEPT ![b] = [w.balance[b] EXCEPT ![c] = @ + n]]
    <2>10. /\ ShapeOfWorld(v)
           /\ v.started = w.started /\ v.born = w.born /\ v.physics = w.physics
           /\ v.owner = w.owner /\ v.active = w.active /\ v.treasury = w.treasury
           /\ v.balance = r
        BY <1>4 DEF ShapeOfWorld, b, c, n
    <2>11. u = [[v EXCEPT !.balance[e.actor][e.data.kind] = @ - e.data.amount]
                    EXCEPT !.tick = e.tick]
        BY <1>1, <2>2, Zenon
    <2> HIDE DEF v, r
    <2>4. /\ ShapeOfWorld(u)
          /\ u.started = w.started /\ u.born = w.born /\ u.physics = w.physics
          /\ u.owner = w.owner /\ u.active = w.active /\ u.treasury = w.treasury
          /\ u.balance = [r EXCEPT ![a] = [r[a] EXCEPT ![c] = @ - n]]
        BY <2>10, <2>11 DEF ShapeOfWorld, a, c, n
    <2>5. w.balance[a] \in Resources /\ w.balance[b] \in Resources
        BY <1>3, <1>4, <2>3
    <2>6. /\ [w.balance[b] EXCEPT ![c] = @ + n] \in Resources
          /\ [w.balance[a] EXCEPT ![c] = @ - n] \in Resources
        <3>1. \A m \in Nat : m + n \in Nat /\ (m >= n => m - n \in Nat)
            BY <1>2
        <3> QED BY <1>2, <2>1, <2>5, <3>1 DEF Resources
    <2>7. /\ u.balance \in [Agent -> Resources]
          /\ \A x \in Agent \ {a, b} : u.balance[x] = w.balance[x]
          /\ u.balance[b] = [w.balance[b] EXCEPT ![c] = @ + n]
          /\ u.balance[a] = [w.balance[a] EXCEPT ![c] = @ - n]
        <3>1. /\ r \in [Agent -> Resources] /\ r[a] = w.balance[a]
              /\ r[b] = [w.balance[b] EXCEPT ![c] = @ + n]
              /\ \A x \in Agent \ {b} : r[x] = w.balance[x]
            BY <1>2, <1>3, <1>4, <2>3, <2>6 DEF r
        <3>2. u.balance = [r EXCEPT ![a] = [w.balance[a] EXCEPT ![c] = @ - n]]
            BY <2>4, <3>1
        <3> QED BY <1>2, <1>3, <2>3, <2>6, <3>1, <3>2
    <2>8. ASSUME NEW k \in Kind
          PROVE  u.balance[a][k] + u.balance[b][k] = w.balance[a][k] + w.balance[b][k]
        <3>1. w.balance[a][k] \in Nat /\ w.balance[b][k] \in Nat
            BY <2>5 DEF Resources
        <3>2. /\ u.balance[b][k] = IF k = c THEN w.balance[b][k] + n ELSE w.balance[b][k]
              /\ u.balance[a][k] = IF k = c THEN w.balance[a][k] - n ELSE w.balance[a][k]
            BY <1>2, <2>5, <2>7 DEF Resources
        <3> QED BY <1>2, <3>1, <3>2
    <2>12. /\ u.started = w.started /\ u.born = w.born /\ u.treasury = w.treasury
           /\ u.physics = w.physics /\ u.owner = w.owner /\ u.active = w.active
           /\ a \in Agent /\ a <= w.born /\ b \in Agent /\ b <= w.born /\ a # b
           /\ u.balance \in [Agent -> Resources] /\ ShapeOfWorld(u)
           /\ \A x \in Agent \ {a, b} : u.balance[x] = w.balance[x]
        BY <1>2, <1>3, <2>3, <2>4, <2>7
    <2>13. Conserved(u)
        BY <2>8, <2>12, MovedConserved
    <2> QED BY <2>13 DEF u
<1> QED
    BY <1>5, <1>6

(* A capability gets an owner.                                                *)
LEMMA PublishedConserved ==
    ASSUME NEW w, Conserved(w), NEW e, WellMade(e), NEW prv, Legal(w, e, prv),
           e.type = "capability.published"
    PROVE  Conserved(Applied(w, e))
<1> DEFINE u == Applied(w, e)
<1>1. u = [Mutated(w, e) EXCEPT !.tick = e.tick]
    BY DEF Applied
<1>2. Mutated(w, e) = [w EXCEPT !.owner[e.about] = e.actor]
    BY DEF Mutated
<1>3. e.actor \in w.active /\ e.about \in Capability
    BY DEF WellMade, Legal, LegalOfCapability, ActiveWithCause
<1>4. ShapeOfWorld(w) /\ w.owner \in [Capability -> 0 .. w.born] /\ e.actor \in 0 .. w.born
    BY <1>3, LabAssumption DEF Conserved
<1> HIDE DEF u
<1>5. /\ ShapeOfWorld(u)
      /\ u.started = w.started /\ u.born = w.born /\ u.physics = w.physics
      /\ u.active = w.active /\ u.treasury = w.treasury /\ u.balance = w.balance
      /\ u.owner = [w.owner EXCEPT ![e.about] = e.actor]
    BY <1>1, <1>2, <1>4 DEF ShapeOfWorld
<1>6. u.owner \in [Capability -> 0 .. u.born]
    BY <1>3, <1>4, <1>5
<1> QED
    BY <1>5, <1>6 DEF Conserved, Given, u

(* A fee goes to the owner, or to the treasury from an owner.                 *)
LEMMA UsedConserved ==
    ASSUME NEW w, Conserved(w), NEW e, WellMade(e), NEW prv, Legal(w, e, prv),
           e.type = "capability.used"
    PROVE  Conserved(Applied(w, e))
<1> DEFINE u == Applied(w, e)
           a == e.actor
           b == e.target
           cost == Publications[e.about].cost
<1>1. u = [Paid(w, e) EXCEPT !.tick = e.tick]
    <2>1. Mutated(w, e) = Paid(w, e)
        BY DEF Mutated
    <2> QED BY <2>1 DEF Applied
<1>2. /\ w.started /\ a \in w.active /\ e.about \in Capability
      /\ b = w.owner[e.about] /\ b # Nobody
      /\ e.data.outcome = InvocationOutcome(w, e.about, a, e.data.input)
    BY DEF WellMade, Legal, InCourse, LegalOfCapability, ActiveWithCause
<1>3. cost \in Resources
    BY <1>2, LabAssumption
<1>4. a \in Agent /\ a <= w.born /\ b \in Agent /\ b <= w.born
    BY <1>2, LabAssumption DEF Conserved, Agent, Nobody
<1>5. w.balance \in [Agent -> Resources] /\ w.treasury \in Resources /\ ShapeOfWorld(w)
    BY DEF Conserved
<1>6. CASE e.data.outcome # "accepted"
    <2>1. Paid(w, e) = w
        BY <1>6 DEF Paid
    <2> HIDE DEF u
    <2>2. /\ ShapeOfWorld(u)
          /\ u.started = w.started /\ u.born = w.born /\ u.physics = w.physics /\ u.owner = w.owner
          /\ u.active = w.active /\ u.treasury = w.treasury /\ u.balance = w.balance
        BY <1>1, <1>5, <2>1 DEF ShapeOfWorld
    <2> QED BY <2>2, SameConserved DEF u
<1>7. CASE e.data.outcome = "accepted"
    <2>1. Affords(w.balance[a], cost)
        BY <1>2, <1>7 DEF InvocationOutcome
    <2>2. w.balance[a] \in Resources /\ w.balance[b] \in Resources
        BY <1>4, <1>5
    <2>3. Minus(w.balance[a], cost) \in Resources
        BY <1>3, <2>1, <2>2, PlusMinus
    <2>4. CASE a = b
        <3>1. Paid(w, e) = [[w EXCEPT !.balance[e.actor] = Minus(@, Publications[e.about].cost)]
                                EXCEPT !.treasury = Plus(@, Publications[e.about].cost)]
            BY <1>7, <2>4 DEF Paid
        <3> HIDE DEF u, a, b, cost
        <3>2. /\ ShapeOfWorld(u)
              /\ u.started = w.started /\ u.born = w.born /\ u.physics = w.physics
              /\ u.owner = w.owner /\ u.active = w.active
              /\ u.treasury = Plus(w.treasury, cost)
              /\ u.balance = [w.balance EXCEPT ![a] = Minus(w.balance[a], cost)]
            BY <1>1, <1>5, <3>1 DEF ShapeOfWorld, a, cost
        <3>3. Plus(w.treasury, cost) \in Resources
            BY <1>3, <1>5, PlusMinus
        <3>4. /\ u.balance \in [Agent -> Resources] /\ u.treasury \in Resources
              /\ \A x \in Agent \ {a} : u.balance[x] = w.balance[x]
              /\ u.balance[a] = Minus(w.balance[a], cost)
            BY <1>4, <1>5, <2>3, <3>2, <3>3
        <3>5. ASSUME NEW k \in Kind
              PROVE  u.balance[a][k] + u.treasury[k] = w.balance[a][k] + w.treasury[k]
            <4>1. /\ u.balance[a][k] = w.balance[a][k] - cost[k]
                  /\ u.treasury[k] = w.treasury[k] + cost[k]
                BY <1>3, <1>5, <2>2, <3>2, <3>4, PlusMinus
            <4>2. w.balance[a][k] \in Nat /\ w.treasury[k] \in Nat /\ cost[k] \in Nat
                BY <1>3, <1>5, <2>2 DEF Resources
            <4> QED BY <4>1, <4>2
        <3>6. /\ w.started /\ u.started = w.started /\ u.born = w.born
              /\ u.physics = w.physics /\ u.owner = w.owner /\ u.active = w.active
              /\ ShapeOfWorld(u) /\ a \in Agent /\ a <= w.born
              /\ u.balance \in [Agent -> Resources] /\ u.treasury \in Resources
              /\ \A x \in Agent \ {a} : u.balance[x] = w.balance[x]
            BY <1>2, <1>4, <3>2, <3>4
        <3>7. Conserved(u)
            BY <3>5, <3>6, PaidConserved
        <3> QED BY <3>7 DEF u
    <2>5. CASE a # b
        <3>1. Paid(w, e) = [[w EXCEPT !.balance[e.actor] = Minus(@, Publications[e.about].cost)]
                                EXCEPT !.balance[e.target] = Plus(@, Publications[e.about].cost)]
            BY <1>7, <2>5 DEF Paid
        <3> HIDE DEF u, a, b, cost
        <3>2. /\ ShapeOfWorld(u)
              /\ u.started = w.started /\ u.born = w.born /\ u.physics = w.physics
              /\ u.owner = w.owner /\ u.active = w.active /\ u.treasury = w.treasury
              /\ u.balance = [[w.balance EXCEPT ![a] = Minus(w.balance[a], cost)]
                                 EXCEPT ![b] = Plus(@, cost)]
            BY <1>1, <1>5, <3>1 DEF ShapeOfWorld, a, b, cost
        <3>3. Plus(w.balance[b], cost) \in Resources
            BY <1>3, <2>2, PlusMinus
        <3>4. /\ u.balance \in [Agent -> Resources]
              /\ \A x \in Agent \ {a, b} : u.balance[x] = w.balance[x]
              /\ u.balance[a] = Minus(w.balance[a], cost)
              /\ u.balance[b] = Plus(w.balance[b], cost)
            BY <1>4, <1>5, <2>3, <2>5, <3>2, <3>3
        <3>5. ASSUME NEW k \in Kind
              PROVE  u.balance[a][k] + u.balance[b][k] = w.balance[a][k] + w.balance[b][k]
            <4>1. /\ u.balance[a][k] = w.balance[a][k] - cost[k]
                  /\ u.balance[b][k] = w.balance[b][k] + cost[k]
                BY <1>3, <2>2, <3>4, PlusMinus
            <4>2. w.balance[a][k] \in Nat /\ w.balance[b][k] \in Nat /\ cost[k] \in Nat
                BY <1>3, <2>2 DEF Resources
            <4> QED BY <4>1, <4>2
        <3>6. /\ u.started = w.started /\ u.born = w.born /\ u.treasury = w.treasury
              /\ u.physics = w.physics /\ u.owner = w.owner /\ u.active = w.active
              /\ ShapeOfWorld(u) /\ a \in Agent /\ a <= w.born /\ b \in Agent /\ b <= w.born
              /\ u.balance \in [Agent -> Resources] /\ a # b
              /\ \A x \in Agent \ {a, b} : u.balance[x] = w.balance[x]
            BY <1>4, <2>5, <3>2, <3>4
        <3>7. Conserved(u)
            BY <3>5, <3>6, MovedConserved
        <3> QED BY <3>7 DEF u
    <2> QED BY <2>4, <2>5
<1> QED
    BY <1>6, <1>7

(* An event the reducer takes conserves resources.                            *)
LEMMA LegalConserved ==
    ASSUME NEW w, Conserved(w), NEW e, WellMade(e), NEW prv, Legal(w, e, prv)
    PROVE  Conserved(Applied(w, e))
<1>1. e.type \in Quiet \/ e.type \in {"run.started", "agent.created", "pressure.applied",
                 "resource.spent", "resource.transferred", "capability.published",
                 "capability.used"}
    BY DEF WellMade, Quiet
<1> QED
    BY <1>1, QuietConserved, StartConserved, BirthConserved, PressureConserved,
       SpentConserved, TransferConserved, PublishedConserved, UsedConserved

-----------------------------------------------------------------------------
(* The events and the actions the engine has in hand.                         *)

\* What an agent may choose.
Possible(action) ==
    /\ action.type \in ActionType
    /\ action.type = "publishCapability" => action.ref \in Capability
    /\ action.type = "transfer" => action.result \in Kind /\ action.amount \in Int

AllPossible(s) == IsList(s) /\ \A i \in DOMAIN s : Possible(s[i])
AllMade(s) == IsList(s) /\ \A i \in DOMAIN s : WellMade(s[i])

(* An image of a finite set is finite. *)
LEMMA ImageIsFinite ==
    ASSUME NEW S, IsFiniteSet(S), NEW f
    PROVE  IsFiniteSet({f[x] : x \in S})
<1> DEFINE T == {f[x] : x \in S}
           g == [x \in S |-> f[x]]
<1>1. g \in Surjection(S, T)
    BY DEF Surjection
<1> HIDE DEF T, g
<1>2. IsFiniteSet(T)
    BY <1>1, FS_Surjection
<1> QED
    BY <1>2 DEF T

(* What is made of each element of a list is a list. *)
LEMMA ListMap ==
    ASSUME NEW s, IsList(s), NEW t, t = [i \in DOMAIN s |-> t[i]]
    PROVE  IsList(t) /\ DOMAIN t = DOMAIN s /\ Len(t) = Len(s)
<1> DEFINE S == {t[i] : i \in DOMAIN s}
<1>1. DOMAIN s = 1 .. Len(s) /\ Len(s) \in Nat
    BY ListPlaces DEF IsList
<1>2. t \in [1 .. Len(s) -> S]
    BY <1>1
<1> HIDE DEF S
<1>3. DOMAIN t = 1 .. Len(s)
    BY <1>2
<1> QED
    BY <1>1, <1>2, <1>3, ListOf

(* Nothing is a list; so is one thing. *)
LEMMA FewMade ==
    /\ IsList(<<>>) /\ DOMAIN <<>> = {}
    /\ \A x : IsList(<<x>>) /\ Len(<<x>>) = 1 /\ DOMAIN <<x>> = {1} /\ <<x>>[1] = x
<1>1. Len(<<>>) = 0 /\ IsList(<<>>) /\ DOMAIN <<>> = {}
    BY DEF IsList
<1>2. ASSUME NEW x PROVE IsList(<<x>>) /\ Len(<<x>>) = 1 /\ DOMAIN <<x>> = {1} /\ <<x>>[1] = x
    <2>1. <<x>> \in Seq({x}) /\ Len(<<x>>) = 1 /\ <<x>>[1] = x /\ DOMAIN <<x>> = {1}
        OBVIOUS
    <2> QED BY <2>1, ListSeq
<1> QED
    BY <1>1, <1>2

(* Two lists of events are one of them. *)
LEMMA JoinMade ==
    ASSUME NEW s, NEW t, AllMade(s), AllMade(t)
    PROVE  AllMade(s \o t)
<1> DEFINE j == s \o t
<1>1. /\ IsList(j)
      /\ \A i \in DOMAIN j : IF i <= Len(s) THEN i \in DOMAIN s /\ j[i] = s[i]
                             ELSE i - Len(s) \in DOMAIN t /\ j[i] = t[i - Len(s)]
    BY ListJoin DEF AllMade
<1> HIDE DEF j
<1>2. \A i \in DOMAIN j : WellMade(j[i])
    BY <1>1 DEF AllMade
<1> QED
    BY <1>1, <1>2 DEF AllMade, j

(* The first and the others. *)
LEMMA HeadMade ==
    ASSUME NEW s, AllMade(s), s # <<>>
    PROVE  WellMade(Head(s)) /\ AllMade(Tail(s))
BY ListParts DEF AllMade

(* A list of events of which none is about resources or births. *)
LEMMA QuietMade ==
    ASSUME NEW e, e.type \in Quiet
    PROVE  WellMade(e)
BY DEF Quiet, WellMade, EventType

(* How the run begins. *)
LEMMA GenesisMade == AllMade(GenesisEvents)
<1> DEFINE start == SystemEvent("run.started", 0, 0, [treasury |-> TreasuryResources])
           births == [a \in Agent |-> Event("agent.created", 0, a, Nobody, 0, NoCause,
                                            [resources |-> InitialResources])]
<1>1. WellMade(start)
    BY DEF WellMade, SystemEvent, Event, EventType
<1>2. \A a \in Agent : WellMade(births[a])
    BY DEF WellMade, Event, EventType
<1>3. births \in [1 .. Agents -> {births[a] : a \in Agent}] /\ Agents \in Nat /\ DOMAIN births = Agent
    BY LabAssumption DEF Agent
<1>4. GenesisEvents = <<start>> \o births
    BY DEF GenesisEvents
<1> HIDE DEF start, births
<1>5. AllMade(<<start>>)
    BY <1>1, FewMade DEF AllMade
<1>6. AllMade(births)
    BY <1>2, <1>3, ListOf DEF AllMade
<1> QED
    BY <1>4, <1>5, <1>6, JoinMade

\* Events of a tick, of some types.
Within(s, tick, types) == \A i \in DOMAIN s : s[i].tick = tick /\ s[i].type \in types

(* The pressures of a tick, and the agents it retires. *)
LEMMA PressureMade ==
    ASSUME NEW s \in Scenarios, NEW tick, NEW gone, gone \subseteq Agent
    PROVE  /\ AllMade(PressureEvents(s.pressures, tick, gone))
           /\ Within(PressureEvents(s.pressures, tick, gone), tick,
                     {"pressure.applied", "agent.retired"})
<1> DEFINE all == s.pressures
           places == {i \in DOMAIN all : all[i].tick = tick}
           due == Selected(all, places)
           announced == [i \in DOMAIN due |-> SystemEvent("pressure.applied", tick, i, due[i])]
           causes == {i \in DOMAIN due : due[i].type = "retire_agent_fraction"}
           order == Ascending(gone)
           retired == [i \in DOMAIN order |->
               Event("agent.retired", tick, order[i], Nobody, tick,
                     EventId(announced[CHOOSE c \in causes : TRUE]), NoData)]
<1>1. all \in Seq([type : PressureType, tick : Nat, value : Nat])
    BY UniverseAssumption
<1>4. PressureEvents(all, tick, gone) = announced \o retired
    BY DEF PressureEvents
<1> HIDE DEF all
<1>2. /\ IsList(all)
      /\ \A i \in DOMAIN all : all[i].type \in PressureType /\ all[i].value \in Nat
    <2>1. IsList(all) /\ \A i \in DOMAIN all : all[i] \in [type : PressureType, tick : Nat, value : Nat]
        BY <1>1, ListSeq
    <2> QED BY <2>1
<1>3. IsFiniteSet(gone) /\ gone \subseteq Int
    <2>1. IsFiniteSet(Agent) /\ Agent \subseteq Int
        BY AgentsAreFew
    <2>2. gone \in SUBSET Agent
        OBVIOUS
    <2>3. IsFiniteSet(gone)
        BY <2>1, <2>2, FS_Subset
    <2> QED BY <2>1, <2>3
<1>5. IsList(due) /\ \A i \in DOMAIN due : \E p \in places : due[i] = all[p]
    <2>1. places \subseteq DOMAIN all
        OBVIOUS
    <2> HIDE DEF places
    <2> QED BY <1>2, <2>1, SelectedOf
<1>6. \A i \in DOMAIN due : due[i].type \in PressureType /\ due[i].value \in Nat
    BY <1>2, <1>5
<1> HIDE DEF due, order
<1>7. /\ announced = [i \in DOMAIN due |-> announced[i]]
      /\ \A i \in DOMAIN announced :
            WellMade(announced[i]) /\ announced[i].tick = tick /\ announced[i].type = "pressure.applied"
    BY <1>6 DEF WellMade, SystemEvent, Event, EventType
<1>8. IsList(order)
    <2> DEFINE n == Cardinality(gone)
    <2>1. n \in Nat /\ order \in [1 .. n -> gone]
        BY <1>3, AscendingOf DEF order
    <2> HIDE DEF n
    <2> QED BY <2>1, ListOf
<1>9. /\ retired = [i \in DOMAIN order |-> retired[i]]
      /\ \A i \in DOMAIN retired :
            WellMade(retired[i]) /\ retired[i].tick = tick /\ retired[i].type = "agent.retired"
    BY DEF WellMade, Event, EventType
<1> HIDE DEF announced, retired
<1>10. AllMade(announced) /\ AllMade(retired)
    BY <1>5, <1>7, <1>8, <1>9, ListMap DEF AllMade
<1> DEFINE j == announced \o retired
<1>11. \A i \in DOMAIN j : \/ \E k \in DOMAIN announced : j[i] = announced[k]
                          \/ \E k \in DOMAIN retired : j[i] = retired[k]
    BY <1>10, ListJoin DEF AllMade
<1> HIDE DEF j
<1>12. Within(j, tick, {"pressure.applied", "agent.retired"})
    BY <1>7, <1>9, <1>11 DEF Within
<1> QED
    BY <1>4, <1>10, <1>12, JoinMade DEF all, j

(* The lesser and the greater of two numbers. *)
LEMMA OfTwo ==
    ASSUME NEW m \in Int, NEW n \in Int
    PROVE  Min({m, n}) \in Int /\ Max({m, n}) \in Int
<1>1. \E x \in {m, n} : \A y \in {m, n} : x <= y
    OBVIOUS
<1>2. \E x \in {m, n} : \A y \in {m, n} : x >= y
    OBVIOUS
<1>3. Min({m, n}) \in {m, n}
    BY <1>1 DEF Min
<1>4. Max({m, n}) \in {m, n}
    BY <1>2 DEF Max
<1> QED
    BY <1>3, <1>4

(* Some of the tasks, or of the agents, in their order. *)
LEMMA OrderMade ==
    /\ \A S \in SUBSET Task : IsFiniteSet(S) /\ IsList(Ascending(S))
    /\ \A S \in SUBSET Agent : /\ IsFiniteSet(S) /\ IsList(Ascending(S))
                               /\ Ascending(S) \in Seq(S)
<1>1. ASSUME NEW all, IsFiniteSet(all), all \subseteq Int, NEW S \in SUBSET all
      PROVE  IsFiniteSet(S) /\ IsList(Ascending(S)) /\ Ascending(S) \in Seq(S)
    <2>1. IsFiniteSet(S) /\ S \subseteq Int
        BY <1>1, FS_Subset
    <2> DEFINE n == Cardinality(S)
               order == Ascending(S)
    <2>2. n \in Nat /\ order \in [1 .. n -> S]
        BY <2>1, AscendingOf
    <2> HIDE DEF n, order
    <2>3. IsList(order) /\ order \in Seq(S)
        BY <2>2, ListOf
    <2> QED BY <2>1, <2>3 DEF order
<1>2. IsFiniteSet(Agent) /\ Agent \subseteq Int
    BY AgentsAreFew
<1>3. IsFiniteSet(Task) /\ Task \subseteq Int
    <2>1. Tasks \in Int
        BY LabAssumption
    <2>2. IsFiniteSet(1 .. Tasks)
        BY <2>1, FS_Interval
    <2> QED BY <2>2 DEF Task
<1> QED
    BY <1>1, <1>2, <1>3

(* A function on the numbers from one to another is a list, be it empty. *)
LEMMA RangeMade ==
    ASSUME NEW n \in Int, NEW s, s = [i \in 1 .. n |-> s[i]]
    PROVE  IsList(s)
<1> DEFINE S == {s[i] : i \in 1 .. n}
           m == IF n < 0 THEN 0 ELSE n
<1>1. m \in Nat /\ 1 .. m = 1 .. n
    OBVIOUS
<1>2. s \in [1 .. n -> S]
    OBVIOUS
<1> HIDE DEF S, m
<1>3. s \in [1 .. m -> S]
    BY <1>1, <1>2
<1> QED
    BY <1>1, <1>3, ListOf

(* What an answer holds is possible. *)
LEMMA AnswerPossible ==
    ASSUME NEW s \in Scenarios, NEW a \in Agent, NEW answer \in s.answers[a]
    PROVE  AllPossible(answer)
<1>1. answer \in Seq(AnyAction) /\ \A i \in DOMAIN answer : Permitted(answer[i])
    BY UniverseAssumption
<1>2. IsList(answer) /\ \A i \in DOMAIN answer : answer[i] \in AnyAction
    BY <1>1, ListSeq
<1>3. \A i \in DOMAIN answer : Possible(answer[i])
    BY <1>1, <1>2 DEF AnyAction, Permitted, Possible
<1> QED
    BY <1>2, <1>3 DEF AllPossible

(* And what the neutral policy chooses. *)
LEMMA NeutralPossible ==
    ASSUME NEW w, NEW a, NEW tick, NEW choice \in NeutralChoices(w, a, tick)
    PROVE  AllPossible(choice)
<1>1. \A t : \A type \in {"execute", "claimTask", "connect", "send"} : Possible(Plain(type, t))
    BY DEF Possible, Plain, Action, ActionType
<1>2. \A t : Possible(NeutralWork(w, a, t))
    BY <1>1 DEF NeutralWork, Possible, Action, ActionType
<1>3. \A x : Possible(x) => AllPossible(<<x>>)
    BY FewMade DEF AllPossible
<1>4. AllPossible(<<>>)
    BY FewMade DEF AllPossible
<1>5. \A c \in Explorations(w, a) : AllPossible(c)
    BY <1>1, <1>3, <1>4 DEF Explorations
<1>6. \/ \E t \in Task : choice = <<NeutralWork(w, a, t)>>
      \/ \E t \in Task : choice = <<Plain("claimTask", t)>>
      \/ choice \in Explorations(w, a)
    BY DEF NeutralChoices
<1> QED
    BY <1>1, <1>2, <1>3, <1>5, <1>6

(* What is paid for an action is an amount of resources. *)
LEMMA CostMade ==
    ASSUME NEW physics \in Physics, NEW type \in ActionType,
           ~ Unavailable(Costs[type], physics)
    PROVE  ScaledCost(Costs[type], physics) \in Resources
<1> DEFINE base == Costs[type]
           priced == Priced(base, physics)
           p == physics.price
           c == physics.capacity
<1>1. base \in Resources /\ PPM \in Nat \ {0}
    BY LabAssumption
<1>2. p \in Nat /\ c \in Nat
    BY DEF Physics
<1>3. \A n, m \in Nat : m # 0 => CeilDiv(n, m) \in Nat
    BY DEF CeilDiv
<1>4. \A n, m \in Nat : n * m \in Nat
    OBVIOUS
<1>5. \A k \in Kind : base[k] \in Nat
    BY <1>1 DEF Resources
<1>6. CeilDiv(base["credits"] * p, PPM) \in Nat
    BY <1>1, <1>2, <1>3, <1>4, <1>5 DEF Kind
<1>7. priced = [base EXCEPT !["credits"] = CeilDiv(base["credits"] * p, PPM)]
    BY DEF Priced
<1> HIDE DEF base, p, c
<1>8. priced \in Resources
    BY <1>1, <1>6, <1>7 DEF Resources
<1> HIDE DEF priced
<1>9. priced["bandwidthBytes"] \in Nat /\ (priced["bandwidthBytes"] = 0 \/ c # 0)
    BY <1>8 DEF Resources, Kind, Unavailable, base, priced, c
<1>10. (IF priced["bandwidthBytes"] = 0 THEN 0 ELSE CeilDiv(priced["bandwidthBytes"] * PPM, c)) \in Nat
    <2>1. priced["bandwidthBytes"] * PPM \in Nat
        BY <1>1, <1>4, <1>9
    <2>2. CASE priced["bandwidthBytes"] = 0
        BY <2>2
    <2>3. CASE priced["bandwidthBytes"] # 0
        <3>1. CeilDiv(priced["bandwidthBytes"] * PPM, c) \in Nat
            BY <1>2, <1>3, <1>9, <2>1, <2>3
        <3> QED BY <2>3, <3>1
    <2> QED BY <2>2, <2>3
<1>11. ScaledCost(base, physics) =
        [priced EXCEPT !["bandwidthBytes"] =
            IF priced["bandwidthBytes"] = 0 THEN 0 ELSE CeilDiv(priced["bandwidthBytes"] * PPM, c)]
    BY DEF ScaledCost, priced, c
<1>12. ScaledCost(base, physics) \in Resources
    BY <1>8, <1>10, <1>11 DEF Resources
<1> QED
    BY <1>12 DEF base

(* An action that no check stops and that does something. *)
LEMMA OutcomeTried ==
    ASSUME NEW d, Possible(d.action), ~ Silent(d), Problem(d) = "none"
    PROVE  /\ d.action.type \in ActionType \ {"observe", "reason", "spawn"}
           /\ d.action.type = "useCapability" => d.action.ref \in Capability
<1> DEFINE a == d.action
           published == a.ref \in Capability /\ world.owner[a.ref] # Nobody
<1>1. a.type # "spawn" /\ (a.type = "useCapability" => published)
    <2> DEFINE held == a.type \in {"execute", "submit"} => HeldBy(world, a.ref, d.actor)
               known == a.type = "verify" /\ Submitted(world, a.ref)
               needsPeer == a.type \in {"connect", "send", "transfer"}
               linked == Linked(world, d.actor, a.ref)
               checks == <<
        <<a.type = "spawn", "unsupported">>,
        <<~held, "not_claimed">>,
        <<a.type = "verify" /\ ~known, "unknown_submission">>,
        <<known /\ world.task[a.ref].by = d.actor, "own_submission">>,
        <<known /\ <<a.ref, d.actor>> \in world.verified, "verified_before">>,
        <<known /\ a.verdict # (a.result = world.task[a.ref].result), "wrong_verdict">>,
        <<needsPeer /\ a.ref = d.actor, "targets_itself">>,
        <<needsPeer /\ a.ref \notin world.active, "target_not_active">>,
        <<a.type = "send" /\ ~linked, "no_link">>,
        <<a.type = "disconnect" /\ ~linked, "not_connected">>,
        <<a.type = "retrieve" /\ world.memory[d.actor][a.ref] = "none", "unknown_key">>,
        <<a.type = "publishCapability" /\ published, "published_before">>,
        <<a.type = "publishCapability" /\ ~ValidPublication(Publications[a.ref]),
          "invalid_capability">>,
        <<a.type = "useCapability" /\ ~published, "unknown_capability">>,
        <<a.type = "transfer" /\ a.amount <= 0, "amount_not_positive">>,
        <<a.type = "transfer" /\ world.balance[d.actor][a.result] < a.amount,
          "insufficient">> >>
    <2>7. Problem(d) = FirstFailure(checks)
        BY DEF Problem
    <2>1. FirstFailure(checks) = "none"
        BY <2>7
    <2>2. DOMAIN checks = 1 .. 16 /\ Len(checks) = 16 /\ IsList(checks)
        BY DEF IsList
    <2>6. /\ checks[1][2] = "unsupported" /\ checks[2][2] = "not_claimed"
          /\ checks[3][2] = "unknown_submission" /\ checks[4][2] = "own_submission"
          /\ checks[5][2] = "verified_before" /\ checks[6][2] = "wrong_verdict"
          /\ checks[7][2] = "targets_itself" /\ checks[8][2] = "target_not_active"
          /\ checks[9][2] = "no_link" /\ checks[10][2] = "not_connected"
          /\ checks[11][2] = "unknown_key" /\ checks[12][2] = "published_before"
          /\ checks[13][2] = "invalid_capability" /\ checks[14][2] = "unknown_capability"
          /\ checks[15][2] = "amount_not_positive" /\ checks[16][2] = "insufficient"
        OBVIOUS
    <2>4. checks[1][1] = (a.type = "spawn") /\ checks[14][1] = (a.type = "useCapability" /\ ~published)
        OBVIOUS
    <2> HIDE DEF checks
    <2>3. \A i \in DOMAIN checks : checks[i][2] # "none"
        <3>1. \A i \in 1 .. 16 : i \in {1, 2, 3, 4, 5, 6, 7, 8} \/ i \in {9, 10, 11, 12, 13, 14, 15, 16}
            OBVIOUS
        <3>2. \A i \in {1, 2, 3, 4, 5, 6, 7, 8} : checks[i][2] # "none"
            BY <2>6
        <3>3. \A i \in {9, 10, 11, 12, 13, 14, 15, 16} : checks[i][2] # "none"
            BY <2>6
        <3> QED BY <2>2, <3>1, <3>2, <3>3
    <2>5. ~ checks[1][1] /\ ~ checks[14][1]
        BY <2>1, <2>2, <2>3, NoFailure
    <2> QED BY <2>4, <2>5
<1>2. a.type \in ActionType \ {"observe", "reason", "spawn"}
    BY <1>1 DEF Silent, Possible
<1> QED
    BY <1>1, <1>2

(* What it is written as. *)
LEMMA OutcomeMade ==
    ASSUME NEW d, Possible(d.action), ~ Silent(d), Problem(d) = "none"
    PROVE  WellMade(OutcomeEvent(d))
<1> DEFINE a == d.action
<1>1. a.type = "useCapability" => a.ref \in Capability
    BY OutcomeTried
<1>2. a.type \in ActionType \ {"observe", "reason", "spawn"}
    BY OutcomeTried
<1>3. CASE a.type \in {"claimTask", "execute", "store", "retrieve", "submit", "verify", "connect",
                       "disconnect", "send"}
    <2>1. OutcomeEvent(d).type \in Quiet
        BY <1>3 DEF OutcomeEvent, Event, Quiet, EventType
    <2> QED BY <2>1, QuietMade
<1>4. CASE a.type = "publishCapability"
    <2>1. OutcomeEvent(d).type = "capability.published" /\ OutcomeEvent(d).about = a.ref
        BY <1>4 DEF OutcomeEvent, Event
    <2>2. a.ref \in Capability
        BY <1>4 DEF Possible
    <2> QED BY <2>1, <2>2 DEF WellMade, EventType
<1>5. CASE a.type = "useCapability"
    <2>1. OutcomeEvent(d).type = "capability.used" /\ OutcomeEvent(d).about = a.ref
        BY <1>5 DEF OutcomeEvent, Event
    <2>2. a.ref \in Capability
        BY <1>1, <1>5
    <2> QED BY <2>1, <2>2 DEF WellMade, EventType
<1>6. CASE a.type = "transfer"
    <2>1. /\ OutcomeEvent(d).type = "resource.transferred"
          /\ OutcomeEvent(d).data.kind = a.result /\ OutcomeEvent(d).data.amount = a.amount
        BY <1>6 DEF OutcomeEvent, Event
    <2>2. a.result \in Kind /\ a.amount \in Int
        BY <1>6 DEF Possible
    <2> QED BY <2>1, <2>2 DEF WellMade, EventType
<1> QED
    BY <1>2, <1>3, <1>4, <1>5, <1>6 DEF ActionType

(* The rewards of an accepted task. *)
LEMMA RewardsMade ==
    ASSUME NEW t, NEW e
    PROVE  AllMade(Rewards(t, e))
<1> DEFINE places == {i \in DOMAIN KindOrder : AcceptedTaskReward[KindOrder[i]] > 0}
           kinds == RewardedKinds
           made == [i \in DOMAIN kinds |->
                       Event("resource.transferred", nextTick, Treasury, world.task[t].by, t,
                             EventId(e),
                             [kind |-> kinds[i], amount |-> AcceptedTaskReward[kinds[i]]])]
<1>1. AcceptedTaskReward \in Resources
    BY LabAssumption
<1>2. KindOrder \in Seq(Kind) /\ DOMAIN KindOrder = {1, 2}
    BY DEF KindOrder, Kind
<1>3. IsList(KindOrder) /\ \A i \in DOMAIN KindOrder : KindOrder[i] \in Kind
    BY <1>2, ListSeq
<1>4. kinds = Selected(KindOrder, places) /\ places \subseteq DOMAIN KindOrder
    BY DEF RewardedKinds
<1> HIDE DEF places, kinds
<1>5. IsList(kinds) /\ \A i \in DOMAIN kinds : \E p \in places : kinds[i] = KindOrder[p]
    BY <1>3, <1>4, SelectedOf
<1>6. \A i \in DOMAIN kinds : kinds[i] \in Kind
    BY <1>3, <1>4, <1>5
<1>7. made = [i \in DOMAIN kinds |-> made[i]] /\ \A i \in DOMAIN made : WellMade(made[i])
    BY <1>1, <1>6 DEF WellMade, Event, EventType, Resources
<1>8. Rewards(t, e) \in {made, <<>>}
    BY DEF Rewards, kinds
<1> HIDE DEF made
<1>9. AllMade(made)
    BY <1>5, <1>7, ListMap DEF AllMade
<1>10. AllMade(<<>>)
    BY FewMade DEF AllMade
<1> QED
    BY <1>8, <1>9, <1>10

-----------------------------------------------------------------------------
(* The invariant.                                                             *)

Checkpoint(c) ==
    /\ c = [tick |-> c.tick, sequence |-> c.sequence, atEnd |-> c.atEnd]
    /\ c.sequence \in Int

AllDecided(s) == IsList(s) /\ \A i \in DOMAIN s : Possible(s[i].action)
AllRecorded(s) == IsList(s) /\ \A i \in DOMAIN s : AllPossible(s[i].actions)

\* Resources are conserved, and whatever is in hand keeps it so.
Accounted ==
    /\ scenario \in Scenarios
    /\ Conserved(world) /\ Checkpoint(saved) /\ sequence \in Int
    /\ AllMade(agenda) /\ AllDecided(decisions) /\ AllRecorded(records)
    /\ Possible(current.action)

\* What is in hand outside the log and the agenda stays.
InHand == <<scenario, sequence, decisions, records, current>>

LEMMA NothingInHand ==
    /\ AllMade(<<>>) /\ AllDecided(<<>>) /\ AllRecorded(<<>>)
    /\ Possible(NoDecision.action)
BY FewMade DEF AllMade, AllDecided, AllRecorded, Possible, NoDecision, Plain, Action, ActionType

(* What is appended to the log. *)
LEMMA CommitAccounted ==
    ASSUME Accounted, NEW e, WellMade(e), Commit(e)
    PROVE  Conserved(world') /\ Checkpoint(saved')
<1>1. world' = Applied(world, e) /\ Legal(world, e, prev) /\ saved' = [saved EXCEPT !.atEnd = FALSE]
    BY DEF Commit
<1>2. Conserved(world')
    BY <1>1, LegalConserved DEF Accounted
<1>3. Checkpoint(saved')
    BY <1>1 DEF Accounted, Checkpoint
<1> QED
    BY <1>2, <1>3

LEMMA CommitNextAccounted ==
    ASSUME Accounted, NEW phase, CommitNext(phase)
    PROVE  Conserved(world') /\ Checkpoint(saved') /\ AllMade(agenda')
<1>1. agenda # <<>> /\ Commit(Head(agenda)) /\ agenda' = Tail(agenda)
    BY DEF CommitNext
<1>2. WellMade(Head(agenda)) /\ AllMade(Tail(agenda))
    BY <1>1, HeadMade DEF Accounted
<1>3. Conserved(world') /\ Checkpoint(saved')
    BY <1>1, <1>2, CommitAccounted
<1> QED
    BY <1>1, <1>2, <1>3

(* The steps that append the next event of the agenda. *)
LEMMA CommitsNext ==
    ASSUME Accounted,
           \/ Genesis \/ CommitPressure \/ CommitExpiry \/ CommitTask
           \/ CommitRecord \/ CommitPolicyError \/ Reward
    PROVE  Accounted'
<1>1. (\E phase \in {"boundary", "pressure", "expiry", "generation", "cognition", "decided",
                     "resolution"} : CommitNext(phase))
      /\ UNCHANGED InHand
    BY DEF Genesis, CommitPressure, CommitExpiry, CommitTask, CommitRecord, CommitPolicyError,
           Reward, InHand
<1>2. Conserved(world') /\ Checkpoint(saved') /\ AllMade(agenda')
    BY <1>1, CommitNextAccounted
<1> QED
    BY <1>1, <1>2 DEF Accounted, InHand

\* Events of which each is about something else.
AllQuiet(s) == IsList(s) /\ \A i \in DOMAIN s : s[i].type \in Quiet

LEMMA AllQuietMade ==
    ASSUME NEW s, AllQuiet(s)
    PROVE  AllMade(s)
BY QuietMade DEF AllQuiet, AllMade

(* A tick begins with the pressures of the scenario. *)
LEMMA BeginTickAccounted ==
    ASSUME Accounted, BeginTick
    PROVE  Accounted'
<1>1. PICK gone \in Retirements(world, scenario.pressures, nextTick) :
            agenda' = PressureEvents(scenario.pressures, nextTick, gone)
    BY DEF BeginTick
<1>2. UNCHANGED <<InHand, world, saved>>
    BY DEF BeginTick, InHand, log
<1>3. gone \subseteq Agent
    <2>1. gone \subseteq world.active
        BY DEF Retirements
    <2>2. world.active \subseteq 1 .. world.born /\ world.born \in 0 .. Agents /\ Agents \in Nat
        BY LabAssumption DEF Accounted, Conserved
    <2> QED BY <2>1, <2>2 DEF Agent
<1>4. AllMade(agenda')
    BY <1>1, <1>3, PressureMade DEF Accounted
<1> QED
    BY <1>2, <1>4 DEF Accounted, InHand

(* It goes on with what expires, *)
LEMMA BeginExpiryAccounted ==
    ASSUME Accounted, BeginExpiry
    PROVE  Accounted'
<1>1. agenda' = [i \in DOMAIN Expired |-> SystemEvent("task.expired", nextTick, Expired[i], NoData)]
    BY DEF BeginExpiry
<1>2. UNCHANGED <<InHand, world, saved>>
    BY DEF BeginExpiry, InHand, log
<1>3. IsList(Expired)
    BY OrderMade DEF Expired
<1>4. /\ agenda' = [i \in DOMAIN Expired |-> agenda'[i]]
      /\ \A i \in DOMAIN Expired : agenda'[i].type \in Quiet
    BY <1>1 DEF SystemEvent, Event, Quiet, EventType
<1>5. AllMade(agenda')
    BY <1>3, <1>4, ListMap, AllQuietMade DEF AllQuiet
<1> QED
    BY <1>2, <1>5 DEF Accounted, InHand

(* How many tasks a tick may add is a number. *)
LEMMA GenerationIsInt ==
    ASSUME Accounted
    PROVE  GenerationCount \in Int
<1> DEFINE backlog == Cardinality(Open(world))
           rate == (TasksPerTick * world.physics.load) \div PPM
<1>1. backlog \in Nat
    BY OrderMade, FS_CardinalityType DEF Open
<1>2. rate \in Int
    <2>1. TasksPerTick \in Nat /\ PPM \in Nat \ {0} /\ world.physics.load \in Nat
        BY LabAssumption DEF Accounted, Conserved, Physics
    <2>2. TasksPerTick * world.physics.load \in Nat
        BY <2>1
    <2> QED BY <2>1, <2>2
<1>3. MaxBacklog \in Nat
    BY LabAssumption
<1>4. GenerationCount = Min({Max({0, MaxBacklog - backlog}), rate})
    BY DEF GenerationCount
<1> HIDE DEF backlog, rate
<1>5. MaxBacklog - backlog \in Int /\ 0 \in Int
    BY <1>1, <1>3
<1> DEFINE left == MaxBacklog - backlog
           room == Max({0, left})
<1>6. room \in Int
    <2> HIDE DEF left
    <2>1. left \in Int /\ 0 \in Int
        BY <1>5 DEF left
    <2> QED BY <2>1, OfTwo
<1> HIDE DEF left
<1>7. GenerationCount = Min({room, rate})
    BY <1>4 DEF left
<1> HIDE DEF room
<1> QED BY <1>2, <1>6, <1>7, OfTwo

(* and with the tasks of the stream. *)
LEMMA BeginGenerationAccounted ==
    ASSUME Accounted, BeginGeneration
    PROVE  Accounted'
<1> DEFINE tasks == StreamTasks(sequence, GenerationCount)
<1>1. /\ agenda' = [i \in DOMAIN tasks |-> SystemEvent("task.created", nextTick, tasks[i], NoData)]
      /\ sequence' = sequence + Len(tasks)
    BY DEF BeginGeneration
<1>2. UNCHANGED <<scenario, decisions, records, current, world, saved>>
    BY DEF BeginGeneration, log
<1>3. GenerationCount \in Int
    BY GenerationIsInt
<1>4. IsList(tasks)
    <2> DEFINE m == Min({GenerationCount, Tasks - sequence})
    <2>1. Tasks - sequence \in Int
        BY LabAssumption DEF Accounted
    <2>2. m \in Int
        BY <1>3, <2>1, OfTwo
    <2>3. tasks = [i \in 1 .. m |-> sequence + i]
        BY DEF StreamTasks
    <2> HIDE DEF m, tasks
    <2>4. tasks = [i \in 1 .. m |-> tasks[i]]
        BY <2>3
    <2> QED BY <2>2, <2>4, RangeMade
<1> HIDE DEF tasks
<1>5. sequence' \in Int
    BY <1>1, <1>4 DEF Accounted, IsList
<1>6. /\ agenda' = [i \in DOMAIN tasks |-> agenda'[i]]
      /\ \A i \in DOMAIN tasks : agenda'[i].type \in Quiet
    BY <1>1 DEF SystemEvent, Event, Quiet, EventType
<1>7. AllMade(agenda')
    BY <1>4, <1>6, ListMap, AllQuietMade DEF AllQuiet
<1> QED
    BY <1>2, <1>5, <1>7 DEF Accounted

(* A model is consulted for some agents, and answers what it may. *)
LEMMA ConsultAccounted ==
    ASSUME Accounted, Consult
    PROVE  Accounted'
<1>1. UNCHANGED <<scenario, sequence, decisions, current, world, saved>>
    BY DEF Consult, log
<1>2. agenda' = [i \in DOMAIN records' |->
                    Event("cognition.recorded", nextTick, records'[i].agent, Nobody, 0,
                          NoCause, [actions |-> records'[i].actions])]
    BY DEF Consult
<1>3. world.active \subseteq Agent
    <2>1. world.active \subseteq 1 .. world.born /\ world.born \in 0 .. Agents /\ Agents \in Nat
        BY LabAssumption DEF Accounted, Conserved
    <2> QED BY <2>1 DEF Agent
<1>4. Len(Consulted) \in Nat /\ \A i \in 1 .. Len(Consulted) : Consulted[i] \in Agent
    <2> DEFINE order == Ascending(world.active)
               n == Min({AgentsPerTick, Len(order)})
    <2>1. IsList(order) /\ order \in Seq(world.active)
        BY <1>3, OrderMade
    <2>2. Consulted = SubSeq(order, 1, n)
        BY DEF Consulted
    <2>3. AgentsPerTick \in Nat
        BY UniverseAssumption
    <2> HIDE DEF order
    <2>4. Len(order) \in Nat /\ n \in {AgentsPerTick, Len(order)} /\ n <= Len(order)
        <3>1. {AgentsPerTick, Len(order)} \subseteq Nat /\ {AgentsPerTick, Len(order)} # {}
            BY <2>1, <2>3 DEF IsList
        <3>2. \A S : S \subseteq Nat /\ S # {} => Min(S) \in S /\ \A x \in S : Min(S) <= x
            BY LeastOf
        <3> QED BY <2>1, <3>1, <3>2 DEF IsList
    <2> HIDE DEF n
    <2>5. n \in Int /\ \A i \in 1 .. n : order[i] \in world.active
        BY <2>1, <2>3, <2>4
    <2>6. SubSeq(order, 1, n) \in Seq(world.active)
        <3> DEFINE S == world.active
        <3>1. 1 \in Int /\ n \in Int /\ \A i \in 1 .. n : order[i] \in S
            BY <2>5
        <3> HIDE DEF S
        <3>2. SubSeq(order, 1, n) \in Seq(S)
            BY <3>1, SubSeqProperties, Zenon
        <3> QED BY <3>2 DEF S
    <2>7. Consulted \in Seq(world.active)
        BY <2>2, <2>6
    <2>8. Len(Consulted) \in Nat /\ \A i \in 1 .. Len(Consulted) : Consulted[i] \in world.active
        BY <2>7
    <2> QED BY <1>3, <2>8
<1>5. ASSUME NEW a \in Agent, NEW answer \in Answers(a) PROVE AllPossible(answer)
    <2>1. answer = <<>> \/ answer \in scenario.answers[a]
        BY <1>5 DEF Answers
    <2>2. AllPossible(<<>>)
        BY FewMade DEF AllPossible
    <2> QED BY <2>1, <2>2, AnswerPossible DEF Accounted
<1>6. AllRecorded(records')
    <2>1. CASE records' = <<>>
        BY <2>1, NothingInHand
    <2>2. CASE records' # <<>>
        <3>1. PICK answer \in [1 .. Len(Consulted) -> UNION {Answers(a) : a \in Agent}] :
                /\ \A i \in DOMAIN answer : answer[i] \in Answers(Consulted[i])
                /\ records' = [i \in DOMAIN answer |->
                                  [agent |-> Consulted[i], actions |-> answer[i]]]
            BY <2>2 DEF Consult
        <3>2. DOMAIN answer = 1 .. Len(Consulted)
            OBVIOUS
        <3>3. records' = [i \in 1 .. Len(Consulted) |-> records'[i]]
            BY <3>1, <3>2
        <3>4. IsList(records') /\ DOMAIN records' = 1 .. Len(Consulted)
            BY <1>4, <3>3, RangeMade
        <3>5. ASSUME NEW i \in DOMAIN records' PROVE AllPossible(records'[i].actions)
            <4>1. i \in 1 .. Len(Consulted) /\ records'[i].actions = answer[i]
                BY <3>1, <3>2, <3>4, <3>5
            <4>2. Consulted[i] \in Agent /\ answer[i] \in Answers(Consulted[i])
                BY <1>4, <3>1, <3>2, <4>1
            <4> QED BY <1>5, <4>1, <4>2
        <3> QED BY <3>4, <3>5 DEF AllRecorded
    <2> QED BY <2>1, <2>2
<1>7. /\ agenda' = [i \in DOMAIN records' |-> agenda'[i]]
      /\ \A i \in DOMAIN records' : agenda'[i].type \in Quiet
    BY <1>2 DEF Event, Quiet, EventType
<1>8. AllMade(agenda')
    BY <1>6, <1>7, ListMap, AllQuietMade DEF AllQuiet, AllRecorded
<1> QED
    BY <1>1, <1>6, <1>8 DEF Accounted

(* What an agent may choose is possible. *)
LEMMA OptionsPossible ==
    ASSUME Accounted, NEW a \in Agent, NEW option \in OptionsOf(a)
    PROVE  AllPossible(option)
<1> DEFINE recorded == {i \in DOMAIN records : records[i].agent = a /\ records[i].actions # <<>>}
<1>1. \/ option \in scenario.answers[a]
      \/ option \in {records[i].actions : i \in recorded}
      \/ option \in NeutralChoices(world, a, nextTick)
    BY DEF OptionsOf
<1>2. CASE option \in scenario.answers[a]
    BY <1>2, AnswerPossible DEF Accounted
<1>3. CASE option \in {records[i].actions : i \in recorded}
    BY <1>3 DEF Accounted, AllRecorded
<1>4. CASE option \in NeutralChoices(world, a, nextTick)
    BY <1>4, NeutralPossible
<1> QED
    BY <1>1, <1>2, <1>3, <1>4

(* The decisions of the agents, in some order. *)
LEMMA DecideAccounted ==
    ASSUME Accounted, DecideAll
    PROVE  Accounted'
<1> DEFINE all == UNION {OptionsOf(a) : a \in world.active}
           threw(f) == {a \in world.active : f[a] = Throws}
           of(f) == UNION {{[actor |-> a, index |-> i, action |-> f[a][i]] : i \in DOMAIN f[a]} :
                           a \in world.active \ threw(f)}
<1>1. UNCHANGED <<scenario, sequence, records, current, world, saved>>
    BY DEF DecideAll, log
<1>2. world.active \subseteq Agent
    <2>1. world.active \subseteq 1 .. world.born /\ world.born \in 0 .. Agents /\ Agents \in Nat
        BY LabAssumption DEF Accounted, Conserved
    <2> QED BY <2>1 DEF Agent
<1>3. PICK f \in [world.active -> all] :
        /\ \A a \in world.active : f[a] \in OptionsOf(a)
        /\ decisions' \in SetToSeqs(of(f))
        /\ agenda' = [i \in DOMAIN Ascending(threw(f)) |->
                        Event("violation.recorded", nextTick, Ascending(threw(f))[i], Nobody, 0,
                              NoCause, [action |-> "reason", reason |-> "policy_error"])]
    BY DEF DecideAll
<1> HIDE DEF all
<1>4. \A a \in world.active : AllPossible(f[a])
    BY <1>2, <1>3, OptionsPossible
<1> DEFINE batch(a) == {[actor |-> a, index |-> i, action |-> f[a][i]] : i \in DOMAIN f[a]}
           deciding == world.active \ threw(f)
           parts == [a \in deciding |-> batch(a)]
           batches == {parts[a] : a \in deciding}
<1>5. of(f) = UNION batches
    <2>1. of(f) = UNION {batch(a) : a \in deciding}
        OBVIOUS
    <2>2. \A a \in deciding : parts[a] = batch(a)
        OBVIOUS
    <2> HIDE DEF parts, batch, deciding
    <2>3. batches = {batch(a) : a \in deciding}
        BY <2>2
    <2> QED BY <2>1, <2>3
<1>6. ASSUME NEW a \in deciding PROVE IsFiniteSet(parts[a])
    <2> DEFINE g == [i \in DOMAIN f[a] |-> [actor |-> a, index |-> i, action |-> f[a][i]]]
    <2>1. DOMAIN f[a] = 1 .. Len(f[a]) /\ Len(f[a]) \in Nat
        BY <1>4, ListPlaces DEF AllPossible, IsList
    <2>2. IsFiniteSet(DOMAIN f[a])
        <3> DEFINE n == Len(f[a])
        <3>1. n \in Int /\ 1 \in Int
            BY <2>1
        <3> HIDE DEF n
        <3>2. IsFiniteSet(1 .. n)
            BY <3>1, FS_Interval
        <3> QED BY <2>1, <3>2 DEF n
    <2>3. parts[a] = {g[i] : i \in DOMAIN f[a]}
        BY <1>6
    <2> HIDE DEF g
    <2>4. IsFiniteSet({g[i] : i \in DOMAIN f[a]})
        BY <2>2, ImageIsFinite
    <2> QED BY <2>3, <2>4
<1>7. IsFiniteSet(of(f))
    <2>1. deciding \in SUBSET Agent
        BY <1>2
    <2>2. IsFiniteSet(deciding)
        BY <2>1, OrderMade
    <2> HIDE DEF parts, deciding
    <2>3. IsFiniteSet(batches)
        BY <2>2, ImageIsFinite
    <2>4. \A T \in batches : IsFiniteSet(T)
        BY <1>6
    <2> HIDE DEF batches
    <2>5. IsFiniteSet(UNION batches)
        BY <2>3, <2>4, FS_UNION
    <2> QED BY <1>5, <2>5
<1>8. \A x \in of(f) : Possible(x.action)
    BY <1>4 DEF AllPossible
<1> DEFINE some == of(f)
           n == Cardinality(some)
<1>9. decisions' \in [1 .. n -> some]
    BY <1>3 DEF SetToSeqs
<1>10. n \in Nat
    BY <1>7, FS_CardinalityType
<1> HIDE DEF n, some
<1>11. IsList(decisions') /\ \A i \in DOMAIN decisions' : decisions'[i] \in some
    BY <1>9, <1>10, ListOf
<1>12. AllDecided(decisions')
    BY <1>8, <1>11 DEF AllDecided, some
<1>13. IsList(Ascending(threw(f)))
    BY <1>2, OrderMade
<1> DEFINE order == Ascending(threw(f))
<1> HIDE DEF order
<1>14. /\ agenda' = [i \in DOMAIN order |-> agenda'[i]]
       /\ \A i \in DOMAIN order : agenda'[i].type \in Quiet
    BY <1>3 DEF Event, Quiet, EventType, order
<1>15. AllMade(agenda')
    BY <1>13, <1>14, ListMap, AllQuietMade DEF AllQuiet, order
<1> QED
    BY <1>1, <1>12, <1>15 DEF Accounted

(* The first of the decisions, and the others. *)
LEMMA HeadDecided ==
    ASSUME Accounted, decisions # <<>>
    PROVE  Possible(Head(decisions).action) /\ AllDecided(Tail(decisions))
BY ListParts DEF Accounted, AllDecided

(* A decision that is not paid for. *)
LEMMA UnpaidAccounted ==
    ASSUME Accounted, Skip \/ CostUnavailable
    PROVE  Accounted'
<1>1. decisions # <<>> /\ decisions' = Tail(decisions)
    BY DEF Skip, CostUnavailable
<1>2. UNCHANGED <<scenario, sequence, records, agenda, current>>
    BY DEF Skip, CostUnavailable
<1>3. AllDecided(decisions')
    BY <1>1, HeadDecided
<1>4. Conserved(world') /\ Checkpoint(saved')
    <2>1. CASE Skip
        BY <2>1 DEF Skip, Accounted, log
    <2>2. CASE CostUnavailable
        <3> DEFINE e == ViolationEvent(Head(decisions), NoCause, "cost_unavailable")
        <3>1. e.type \in Quiet /\ Commit(e)
            BY <2>2 DEF CostUnavailable, ViolationEvent, Event, Quiet, EventType
        <3> HIDE DEF e
        <3> QED BY <3>1, QuietMade, CommitAccounted
    <2> QED BY <2>1, <2>2
<1> QED
    BY <1>2, <1>3, <1>4 DEF Accounted

(* One that is. *)
LEMMA PayAccounted ==
    ASSUME Accounted, Pay
    PROVE  Accounted'
<1> DEFINE d == Head(decisions)
           cost == ScaledCost(CostBase(d), world.physics)
           e == Event("resource.spent", nextTick, d.actor, Nobody, d.index, NoCause,
                      [action |-> d.action.type, cost |-> cost])
<1>1. decisions # <<>> /\ CanPay(d) /\ Commit(e) /\ current' = d /\ decisions' = Tail(decisions)
    BY DEF Pay
<1>2. UNCHANGED <<scenario, sequence, records, agenda>>
    BY DEF Pay
<1>3. Possible(d.action) /\ AllDecided(Tail(decisions))
    BY <1>1, HeadDecided
<1>4. cost \in Resources
    <2>1. world.physics \in Physics /\ d.action.type \in ActionType
        BY <1>3 DEF Accounted, Conserved, Possible
    <2>2. ~ Unavailable(Costs[d.action.type], world.physics)
        BY <1>1 DEF CanPay, Costless, CostBase
    <2> QED BY <2>1, <2>2, CostMade DEF CostBase
<1> HIDE DEF d, cost
<1>5. WellMade(e)
    BY <1>4 DEF WellMade, Event, EventType
<1> HIDE DEF e
<1>6. Conserved(world') /\ Checkpoint(saved')
    BY <1>1, <1>5, CommitAccounted
<1> QED
    BY <1>1, <1>2, <1>3, <1>6 DEF Accounted

(* What is tried, and what comes of it. *)
LEMMA ActAccounted ==
    ASSUME Accounted, ActSilently \/ ActFails \/ Act \/ Deliver \/ UseLink
    PROVE  Accounted'
<1>1. UNCHANGED <<scenario, sequence, records, agenda, decisions>>
    BY DEF ActSilently, ActFails, Act, Deliver, UseLink, memory
<1>2. Possible(current'.action)
    <2>1. current' = current \/ current' = NoDecision
        BY DEF ActSilently, ActFails, Act, Deliver, UseLink, memory
    <2> QED BY <2>1, NothingInHand DEF Accounted
<1>3. Conserved(world') /\ Checkpoint(saved')
    <2>1. CASE ActSilently
        BY <2>1 DEF ActSilently, Accounted, log
    <2>2. CASE ActFails
        <3> DEFINE e == ViolationEvent(current, PaymentId, Obstacle(current))
        <3>1. e.type \in Quiet /\ Commit(e)
            BY <2>2 DEF ActFails, ViolationEvent, Event, Quiet, EventType
        <3> HIDE DEF e
        <3> QED BY <3>1, QuietMade, CommitAccounted
    <2>3. CASE Act
        <3> DEFINE e == OutcomeEvent(current)
        <3>1. ~ Silent(current) /\ Obstacle(current) = "none" /\ Commit(e)
            BY <2>3 DEF Act
        <3>2. Problem(current) = "none"
            BY <3>1 DEF Obstacle
        <3>3. WellMade(e)
            BY <3>1, <3>2, OutcomeMade DEF Accounted
        <3> HIDE DEF e
        <3> QED BY <3>1, <3>3, CommitAccounted
    <2>4. CASE Deliver
        <3> DEFINE e == Delivery("message.delivered", prev)
        <3>1. e.type \in Quiet /\ Commit(e)
            BY <2>4 DEF Deliver, Delivery, Event, Quiet, EventType
        <3> HIDE DEF e
        <3> QED BY <3>1, QuietMade, CommitAccounted
    <2>5. CASE UseLink
        <3> DEFINE e == Delivery("link.used", prev)
        <3>1. e.type \in Quiet /\ Commit(e)
            BY <2>5 DEF UseLink, Delivery, Event, Quiet, EventType
        <3> HIDE DEF e
        <3> QED BY <3>1, QuietMade, CommitAccounted
    <2> QED BY <2>1, <2>2, <2>3, <2>4, <2>5
<1> QED
    BY <1>1, <1>2, <1>3 DEF Accounted

(* What is evaluated. *)
LEMMA EvaluateAccounted ==
    ASSUME Accounted, Evaluate \/ EvaluationFails
    PROVE  Accounted'
<1> DEFINE t == Head(pending)
<1>1. UNCHANGED InHand
    BY DEF Evaluate, EvaluationFails, InHand
<1>2. CASE Evaluate
    <2> DEFINE e == Evaluation(t)
    <2>1. e.type \in Quiet /\ Commit(e) /\ agenda' = Rewards(t, e)
        BY <1>2 DEF Evaluate, Evaluation, Event, Quiet, EventType
    <2> HIDE DEF e, t
    <2>2. Conserved(world') /\ Checkpoint(saved')
        BY <2>1, QuietMade, CommitAccounted
    <2>3. AllMade(agenda')
        BY <2>1, RewardsMade
    <2> QED BY <1>1, <2>2, <2>3 DEF Accounted, InHand
<1>3. CASE EvaluationFails
    <2> DEFINE e == Event("violation.recorded", nextTick, world.task[t].by, Nobody, t, NoCause,
                          [action |-> "verify", reason |-> "no_oracle"])
    <2>1. e.type \in Quiet /\ Commit(e) /\ agenda' = agenda
        BY <1>3 DEF EvaluationFails, Event, Quiet, EventType
    <2> HIDE DEF e, t
    <2>2. Conserved(world') /\ Checkpoint(saved')
        BY <2>1, QuietMade, CommitAccounted
    <2> QED BY <1>1, <2>1, <2>2 DEF Accounted, InHand
<1> QED
    BY <1>2, <1>3

(* The end of a tick, and of the run. *)
LEMMA EndAccounted ==
    ASSUME Accounted,
           SkipMetrics \/ RecordMetrics \/ AppendMetrics \/ CompleteTick \/ CompleteRun
    PROVE  Accounted'
<1>1. UNCHANGED <<scenario, sequence, agenda, decisions, current>>
    BY DEF SkipMetrics, RecordMetrics, AppendMetrics, CompleteTick, CompleteRun, memory
<1>2. AllRecorded(records')
    <2>1. records' = records \/ records' = <<>>
        BY DEF SkipMetrics, RecordMetrics, AppendMetrics, CompleteTick, CompleteRun, memory
    <2> QED BY <2>1, NothingInHand DEF Accounted
<1>3. Conserved(world') /\ Checkpoint(saved')
    <2>1. CASE SkipMetrics \/ AppendMetrics
        BY <2>1 DEF SkipMetrics, AppendMetrics, Accounted, log
    <2>2. CASE RecordMetrics \/ CompleteTick \/ CompleteRun
        <3>1. \E type \in {"metrics.recorded", "tick.completed", "run.completed"} :
                    \E tick, about : Commit(SystemEvent(type, tick, about, NoData))
            BY <2>2 DEF RecordMetrics, CompleteTick, CompleteRun
        <3>4. PICK type \in {"metrics.recorded", "tick.completed", "run.completed"} :
                    \E tick, about : Commit(SystemEvent(type, tick, about, NoData))
            BY <3>1
        <3>2. PICK tick, about : Commit(SystemEvent(type, tick, about, NoData))
            BY <3>4
        <3> DEFINE e == SystemEvent(type, tick, about, NoData)
        <3>3. e.type \in Quiet
            BY <3>2 DEF SystemEvent, Event, Quiet, EventType
        <3> HIDE DEF e
        <3> QED BY <3>2, <3>3, QuietMade, CommitAccounted DEF e
    <2> QED BY <2>1, <2>2
<1> QED
    BY <1>1, <1>2, <1>3 DEF Accounted

(* Checkpoints, the loss of what is in hand, and what a recovery makes of it. *)
LEMMA LifeAccounted ==
    ASSUME Accounted, PeriodicCheckpoint \/ FinishRun \/ Pause \/ Crash \/ Recover
    PROVE  Accounted'
<1>1. world' = world /\ scenario' = scenario
    BY DEF PeriodicCheckpoint, FinishRun, Pause, Crash, Recover, log
<1>2. Checkpoint(saved')
    <2>1. saved' = saved \/ saved' = [tick |-> world.tick, sequence |-> sequence, atEnd |-> TRUE]
        BY DEF PeriodicCheckpoint, FinishRun, Pause, Crash, Recover, log, EmitCheckpoint
    <2> QED BY <2>1 DEF Accounted, Checkpoint
<1>3. CASE PeriodicCheckpoint
    BY <1>1, <1>2, <1>3 DEF PeriodicCheckpoint, memory, Accounted
<1>4. CASE FinishRun \/ Pause \/ Crash
    <2>1. Forget
        BY <1>4 DEF FinishRun, Pause, Crash
    <2> QED BY <1>1, <1>2, <2>1, NothingInHand DEF Forget, Accounted
<1>5. CASE Recover
    <2>1. UNCHANGED <<records, decisions, current>>
        BY <1>5 DEF Recover
    <2>2. /\ agenda' = GenesisEvents \/ agenda' = agenda
          /\ sequence' = 0 \/ sequence' = saved.sequence \/ sequence' = sequence
        BY <1>5 DEF Recover, RestoreFromCheckpoint
    <2>3. AllMade(agenda') /\ sequence' \in Int
        BY <2>2, GenesisMade DEF Accounted, Checkpoint
    <2> QED BY <1>1, <1>2, <2>1, <2>3 DEF Accounted
<1> QED
    BY <1>3, <1>4, <1>5

(* It holds at first, *)
LEMMA InitAccounted == UniverseInit => Accounted
<1> SUFFICES ASSUME UniverseInit PROVE Accounted
    OBVIOUS
<1>1. /\ scenario \in Scenarios /\ world = InitialWorld /\ saved = NoCheckpoint /\ sequence = 0
      /\ agenda = GenesisEvents /\ records = <<>> /\ decisions = <<>> /\ current = NoDecision
    BY DEF UniverseInit
<1> DEFINE w == InitialWorld
<1>2. /\ w.born = 0 /\ w.active = {} /\ w.started = FALSE
      /\ w.balance = [a \in Agent |-> [k \in Kind |-> 0]] /\ w.treasury = [k \in Kind |-> 0]
      /\ w.physics = [price |-> PPM, capacity |-> PPM, load |-> PPM]
      /\ w.owner = [c \in Capability |-> Nobody]
      /\ ShapeOfWorld(w)
    BY DEF InitialWorld, ShapeOfWorld
<1> HIDE DEF w
<1>3. w.physics \in Physics /\ Agents \in Nat
    BY <1>2, LabAssumption DEF Physics
<1>4. w.balance \in [Agent -> Resources] /\ w.treasury \in Resources
    BY <1>2 DEF Resources
<1>5. /\ w.born \in 0 .. Agents /\ w.owner \in [Capability -> 0 .. w.born]
      /\ w.active \subseteq 1 .. w.born /\ w.started \in BOOLEAN
    <2>1. 0 \in 0 .. Agents /\ 0 \in 0 .. 0 /\ Nobody = 0
        BY <1>3 DEF Nobody
    <2>2. [c \in Capability |-> Nobody] \in [Capability -> 0 .. 0]
        BY <2>1
    <2> QED BY <1>2, <2>1, <2>2
<1>6. /\ \A k \in Kind : w.treasury[k] = 0
      /\ \A a \in Agent : \A k \in Kind : w.balance[a][k] = 0
    BY <1>2
<1>7. ASSUME NEW k \in Kind PROVE w.treasury[k] + Together(w.balance, Agent, k) = Given(w, k)
    <2> DEFINE s == w.balance
    <2>1. \A x \in Agent : Share(s, x, k) = 0
        BY <1>6 DEF Share
    <2> HIDE DEF s
    <2>2. IsFiniteSet(Agent)
        BY AgentsAreFew
    <2>3. Together(s, Agent, k) = 0
        BY <2>1, <2>2, NothingTogether
    <2>4. InitialResources[k] \in Nat
        BY LabAssumption DEF Resources
    <2>5. Given(w, k) = 0
        BY <1>2, <2>4 DEF Given
    <2> QED BY <1>6, <2>3, <2>5 DEF s
<1>8. Conserved(w)
    BY <1>2, <1>3, <1>4, <1>5, <1>6, <1>7 DEF Conserved
<1>9. Checkpoint(NoCheckpoint)
    BY DEF Checkpoint, NoCheckpoint
<1> QED
    BY <1>1, <1>8, <1>9, GenesisMade, NothingInHand DEF Accounted, w

(* every step keeps it, *)
LEMMA NextAccounted == Accounted /\ [UniverseNext]_universeVars => Accounted'
<1> SUFFICES ASSUME Accounted, [UniverseNext]_universeVars PROVE Accounted'
    OBVIOUS
<1>1. CASE UNCHANGED universeVars
    BY <1>1 DEF universeVars, log, memory, Accounted
<1>2. CASE Genesis \/ CommitPressure \/ CommitExpiry \/ CommitTask
           \/ CommitRecord \/ CommitPolicyError \/ Reward
    BY <1>2, CommitsNext
<1>3. CASE BeginTick \/ BeginExpiry \/ BeginGeneration \/ Consult \/ DecideAll
    BY <1>3, BeginTickAccounted, BeginExpiryAccounted, BeginGenerationAccounted,
       ConsultAccounted, DecideAccounted
<1>4. CASE Skip \/ CostUnavailable \/ Pay \/ ActSilently \/ ActFails \/ Act \/ Deliver \/ UseLink
    BY <1>4, UnpaidAccounted, PayAccounted, ActAccounted
<1>5. CASE Evaluate \/ EvaluationFails \/ SkipMetrics \/ RecordMetrics \/ AppendMetrics
           \/ CompleteTick \/ CompleteRun
    BY <1>5, EvaluateAccounted, EndAccounted
<1>6. CASE PeriodicCheckpoint \/ FinishRun \/ Pause \/ Crash \/ Recover
    BY <1>6, LifeAccounted
<1> QED
    BY <1>1, <1>2, <1>3, <1>4, <1>5, <1>6 DEF UniverseNext, Work

(* and what is stated of the resources follows from it. *)
LEMMA AccountedConserves == Accounted => ResourcesConserved
<1> SUFFICES ASSUME Accounted PROVE ResourcesConserved
    OBVIOUS
<1>1. Conserved(world) /\ Agents \in Nat \ {0}
    BY LabAssumption DEF Accounted
<1>2. world.born = Agents => world.started
    BY <1>1 DEF Conserved
<1> QED
    BY <1>1, <1>2 DEF Conserved, Given, ResourcesConserved

(* Whatever a universe does, crashes and all, what its agents and its         *)
(* treasury hold is what they were given (src/lab/reducer.ts:623).            *)
THEOREM NothingIsLostOrMade == UniverseSpec => []ResourcesConserved
<1>1. UniverseInit => Accounted
    BY InitAccounted
<1>2. Accounted /\ [UniverseNext]_universeVars => Accounted'
    BY NextAccounted
<1>3. Accounted => ResourcesConserved
    BY AccountedConserves
<1> QED
    BY <1>1, <1>2, <1>3, PTL DEF UniverseSpec


-----------------------------------------------------------------------------
(* What a pause leaves.                                                       *)

Standing == {"none", "available", "claimed", "submitted", "completed", "expired"}

TaskRecord(r) ==
    /\ r = [status |-> r.status, by |-> r.by, created |-> r.created, result |-> r.result,
            accepted |-> r.accepted]
    /\ r.status \in Standing

\* Every task has its record.
Tasked(w) ==
    /\ w.task = [t \in Task |-> w.task[t]]
    /\ \A t \in Task : TaskRecord(w.task[t])

\* What an event makes of the tasks, the tick and the metrics of a world.
Follows(u, w, e) ==
    /\ Tasked(u) /\ u.tick = e.tick
    /\ u.metrics = IF e.type = "metrics.recorded" THEN w.metrics + 1 ELSE w.metrics

(* Most events leave the tasks alone. *)
LEMMA TasksLeft ==
    ASSUME NEW w, ShapeOfWorld(w), NEW e, e.type \in EventType,
           e.type \notin {"task.created", "task.expired", "task.claimed", "task.submitted",
                          "task.evaluated"}
    PROVE  LET u == Mutated(w, e)
           IN /\ ShapeOfWorld(u) /\ u.task = w.task
              /\ u.metrics = IF e.type = "metrics.recorded" THEN w.metrics + 1 ELSE w.metrics
<1> DEFINE u == Mutated(w, e)
           Same(v) == ShapeOfWorld(v) /\ v.task = w.task /\ v.metrics = w.metrics
<1>1. CASE e.type \in {"run.started", "agent.created", "agent.retired", "pressure.applied",
                       "memory.stored"}
    <2>1. Same(u)
        BY <1>1 DEF Mutated, ShapeOfWorld
    <2> QED BY <1>1, <2>1
<1>2. CASE e.type \in {"submission.verified", "link.created", "link.removed", "message.sent"}
    <2>1. Same(u)
        BY <1>2 DEF Mutated, ShapeOfWorld
    <2> QED BY <1>2, <2>1
<1>3. CASE e.type \in {"message.delivered", "link.used", "resource.spent",
                       "capability.published", "run.completed"}
    <2>1. Same(u)
        BY <1>3 DEF Mutated, ShapeOfWorld
    <2> QED BY <1>3, <2>1
<1>4. CASE e.type = "resource.transferred"
    <2>1. u = Transferred(w, e)
        BY <1>4 DEF Mutated
    <2>2. Same(Transferred(w, e))
        BY DEF Transferred, ShapeOfWorld
    <2> QED BY <1>4, <2>1, <2>2
<1>5. CASE e.type = "capability.used"
    <2>1. u = Paid(w, e)
        BY <1>5 DEF Mutated
    <2>2. Same(Paid(w, e))
        BY DEF Paid, ShapeOfWorld
    <2> QED BY <1>5, <2>1, <2>2
<1>6. CASE e.type = "metrics.recorded"
    <2>1. u = [w EXCEPT !.metrics = @ + 1]
        BY <1>6 DEF Mutated
    <2> QED BY <1>6, <2>1 DEF ShapeOfWorld
<1>7. CASE e.type \in {"memory.retrieved", "cognition.recorded", "violation.recorded",
                       "tick.completed"}
    <2>1. u = w
        BY <1>7 DEF Mutated
    <2> QED BY <1>7, <2>1
<1> QED
    BY <1>1, <1>2, <1>3, <1>4, <1>5, <1>6, <1>7 DEF EventType

(* A record that moves on is one. *)
LEMMA RecordMoved ==
    ASSUME NEW r, TaskRecord(r), NEW status \in Standing, NEW x
    PROVE  /\ TaskRecord([r EXCEPT !.status = status])
           /\ TaskRecord([r EXCEPT !.status = status, !.by = x])
           /\ TaskRecord([r EXCEPT !.status = status, !.created = x])
           /\ TaskRecord([r EXCEPT !.status = status, !.result = x])
           /\ TaskRecord([r EXCEPT !.status = status, !.accepted = x])
<1>1. ASSUME NEW s, TaskRecord(s)
      PROVE  /\ TaskRecord([s EXCEPT !.by = x]) /\ TaskRecord([s EXCEPT !.created = x])
             /\ TaskRecord([s EXCEPT !.result = x]) /\ TaskRecord([s EXCEPT !.accepted = x])
    BY <1>1 DEF TaskRecord
<1> DEFINE s == [r EXCEPT !.status = status]
<1>2. TaskRecord(s)
    BY DEF TaskRecord
<1>3. /\ [r EXCEPT !.status = status, !.by = x] = [s EXCEPT !.by = x]
      /\ [r EXCEPT !.status = status, !.created = x] = [s EXCEPT !.created = x]
      /\ [r EXCEPT !.status = status, !.result = x] = [s EXCEPT !.result = x]
      /\ [r EXCEPT !.status = status, !.accepted = x] = [s EXCEPT !.accepted = x]
    OBVIOUS
<1> HIDE DEF s
<1> QED
    BY <1>1, <1>2, <1>3 DEF s

LEMMA TaskedStill ==
    ASSUME NEW w, Tasked(w), NEW u, NEW t, u.task = [x \in Task |-> u.task[x]],
           \A x \in Task : IF x = t THEN TaskRecord(u.task[x]) ELSE u.task[x] = w.task[x]
    PROVE  Tasked(u)
BY DEF Tasked

(* The others move one of them on. *)
LEMMA TaskMoved ==
    ASSUME NEW w, ShapeOfWorld(w), Tasked(w), NEW e,
           e.type \in {"task.created", "task.expired", "task.claimed", "task.submitted",
                       "task.evaluated"}
    PROVE  LET u == Mutated(w, e)
           IN ShapeOfWorld(u) /\ Tasked(u) /\ u.metrics = w.metrics
<1> DEFINE u == Mutated(w, e)
           t == e.about
           f == w.task
<1>1. /\ f = [x \in Task |-> f[x]]
      /\ t \in Task => TaskRecord(f[t])
    BY DEF Tasked
<1>7. ASSUME NEW v, NEW g, ShapeOfWorld(v), v.metrics = w.metrics, v.task = g,
             g = [x \in Task |-> g[x]], NEW r, t \in Task => TaskRecord(r),
             \A x \in Task : g[x] = IF x = t THEN r ELSE f[x]
      PROVE  ShapeOfWorld(v) /\ Tasked(v) /\ v.metrics = w.metrics
    BY <1>7, TaskedStill
<1>8. {"available", "expired", "claimed", "submitted", "completed"} \subseteq Standing
    BY DEF Standing
<1>2. CASE e.type = "task.created"
    <2> DEFINE r == [NoTask EXCEPT !.status = "available", !.created = e.tick]
               g == [f EXCEPT ![t] = r]
    <2>1. u = [w EXCEPT !.task[t] = r]
        BY <1>2 DEF Mutated
    <2>2. ShapeOfWorld(u) /\ u.metrics = w.metrics /\ u.task = g
        BY <2>1 DEF ShapeOfWorld
    <2>5. TaskRecord(NoTask)
        BY DEF TaskRecord, NoTask, Standing
    <2>3. t \in Task => TaskRecord(r)
        BY <1>1, <1>8, <2>5, RecordMoved
    <2> HIDE DEF u
    <2>4. g = [x \in Task |-> g[x]] /\ \A x \in Task : g[x] = IF x = t THEN r ELSE f[x]
        <3> HIDE DEF f
        <3> QED BY <1>1
    <2> HIDE DEF r, g
    <2> QED BY <1>7, <2>2, <2>3, <2>4 DEF u
<1>3. CASE e.type = "task.expired"
    <2> DEFINE r == [f[t] EXCEPT !.status = "expired"]
               g == [f EXCEPT ![t].status = "expired"]
    <2>1. u = [w EXCEPT !.task[t].status = "expired"]
        BY <1>3 DEF Mutated
    <2>2. ShapeOfWorld(u) /\ u.metrics = w.metrics /\ u.task = g
        BY <2>1 DEF ShapeOfWorld
    <2>3. t \in Task => TaskRecord(r)
        BY <1>1, <1>8, RecordMoved
    <2> HIDE DEF u
    <2>4. g = [x \in Task |-> g[x]] /\ \A x \in Task : g[x] = IF x = t THEN r ELSE f[x]
        <3> HIDE DEF f
        <3> QED BY <1>1
    <2> HIDE DEF r, g
    <2> QED BY <1>7, <2>2, <2>3, <2>4 DEF u
<1>4. CASE e.type = "task.claimed"
    <2> DEFINE r == [f[t] EXCEPT !.status = "claimed", !.by = e.actor]
               g == [f EXCEPT ![t].status = "claimed", ![t].by = e.actor]
    <2>1. u = [w EXCEPT !.task[t].status = "claimed", !.task[t].by = e.actor]
        BY <1>4 DEF Mutated
    <2>2. ShapeOfWorld(u) /\ u.metrics = w.metrics /\ u.task = g
        BY <2>1 DEF ShapeOfWorld
    <2>3. t \in Task => TaskRecord(r)
        BY <1>1, <1>8, RecordMoved
    <2> HIDE DEF u
    <2>4. g = [x \in Task |-> g[x]] /\ \A x \in Task : g[x] = IF x = t THEN r ELSE f[x]
        <3> HIDE DEF f
        <3> QED BY <1>1
    <2> HIDE DEF r, g
    <2> QED BY <1>7, <2>2, <2>3, <2>4 DEF u
<1>5. CASE e.type = "task.submitted"
    <2> DEFINE r == [f[t] EXCEPT !.status = "submitted", !.result = e.data.result]
               g == [f EXCEPT ![t].status = "submitted", ![t].result = e.data.result]
    <2>1. u = [w EXCEPT !.task[t].status = "submitted", !.task[t].result = e.data.result]
        BY <1>5 DEF Mutated
    <2>2. ShapeOfWorld(u) /\ u.metrics = w.metrics /\ u.task = g
        BY <2>1 DEF ShapeOfWorld
    <2>3. t \in Task => TaskRecord(r)
        BY <1>1, <1>8, RecordMoved
    <2> HIDE DEF u
    <2>4. g = [x \in Task |-> g[x]] /\ \A x \in Task : g[x] = IF x = t THEN r ELSE f[x]
        <3> HIDE DEF f
        <3> QED BY <1>1
    <2> HIDE DEF r, g
    <2> QED BY <1>7, <2>2, <2>3, <2>4 DEF u
<1>6. CASE e.type = "task.evaluated"
    <2> DEFINE r == [f[t] EXCEPT !.status = "completed", !.accepted = e.data.accepted]
               g == [f EXCEPT ![t].status = "completed", ![t].accepted = e.data.accepted]
    <2>1. u = [w EXCEPT !.task[t].status = "completed", !.task[t].accepted = e.data.accepted]
        BY <1>6 DEF Mutated
    <2>2. ShapeOfWorld(u) /\ u.metrics = w.metrics /\ u.task = g
        BY <2>1 DEF ShapeOfWorld
    <2>3. t \in Task => TaskRecord(r)
        BY <1>1, <1>8, RecordMoved
    <2> HIDE DEF u
    <2>4. g = [x \in Task |-> g[x]] /\ \A x \in Task : g[x] = IF x = t THEN r ELSE f[x]
        <3> HIDE DEF f
        <3> QED BY <1>1
    <2> HIDE DEF r, g
    <2> QED BY <1>7, <2>2, <2>3, <2>4 DEF u
<1> QED
    BY <1>2, <1>3, <1>4, <1>5, <1>6

(* So every event keeps the tasks, and no other is counted in the metrics. *)
LEMMA WorldFollows ==
    ASSUME NEW w, ShapeOfWorld(w), Tasked(w), NEW e, e.type \in EventType
    PROVE  Follows(Applied(w, e), w, e)
<1> DEFINE m == Mutated(w, e)
<1>1. ShapeOfWorld(m) /\ Tasked(m)
      /\ m.metrics = IF e.type = "metrics.recorded" THEN w.metrics + 1 ELSE w.metrics
    <2>1. CASE e.type \in {"task.created", "task.expired", "task.claimed", "task.submitted",
                           "task.evaluated"}
        BY <2>1, TaskMoved
    <2>2. CASE e.type \notin {"task.created", "task.expired", "task.claimed", "task.submitted",
                              "task.evaluated"}
        <3>1. /\ ShapeOfWorld(m) /\ m.task = w.task
              /\ m.metrics = IF e.type = "metrics.recorded" THEN w.metrics + 1 ELSE w.metrics
            BY <2>2, TasksLeft
        <3> HIDE DEF m
        <3>2. Tasked(m)
            BY <3>1 DEF Tasked
        <3> QED BY <3>1, <3>2
    <2> QED BY <2>1, <2>2
<1>2. Applied(w, e) = [m EXCEPT !.tick = e.tick]
    BY DEF Applied
<1> HIDE DEF m
<1> DEFINE u == Applied(w, e)
<1>3. u.tick = e.tick /\ u.task = m.task /\ u.metrics = m.metrics
    BY <1>1, <1>2 DEF ShapeOfWorld
<1> HIDE DEF u
<1>4. Tasked(u)
    BY <1>1, <1>3 DEF Tasked
<1> QED
    BY <1>1, <1>3, <1>4 DEF Follows, u

-----------------------------------------------------------------------------
(* What an event makes of the verifier.                                       *)

ShapeOfVerifier(v) ==
    /\ v = [started |-> v.started, born |-> v.born, tick |-> v.tick, rank |-> v.rank,
            tickCompleted |-> v.tickCompleted, metricsSeen |-> v.metricsSeen,
            completed |-> v.completed, pressures |-> v.pressures, expiries |-> v.expiries,
            generated |-> v.generated, sequence |-> v.sequence, records |-> v.records,
            schedule |-> v.schedule, payment |-> v.payment, chain |-> v.chain,
            submissions |-> v.submissions, rewards |-> v.rewards, oracles |-> v.oracles,
            refused |-> v.refused]
    /\ v.generated = [known |-> v.generated.known, left |-> v.generated.left]

\* Where it is in the run.
Place(v) == <<v.started, v.born, v.tick, v.tickCompleted, v.refused>>

\* How many tasks it regenerates.
Room(w) ==
    LET backlog == Cardinality({t \in Task :
                        w.task[t].status \notin {"none", "completed", "expired"}})
        capacity == IF backlog > MaxBacklog THEN 0 ELSE MaxBacklog - backlog
    IN Min({capacity, (TasksPerTick * w.physics.load) \div PPM})

Batch(v, w) == StreamTasks(v.sequence, Room(w))

(* The engine and the verifier agree on it. *)
LEMMA RoomIsCount ==
    ASSUME Tasked(world)
    PROVE  Room(world) = GenerationCount
<1> DEFINE open == {t \in Task : world.task[t].status \notin {"none", "completed", "expired"}}
           backlog == Cardinality(open)
           rate == (TasksPerTick * world.physics.load) \div PPM
           left == MaxBacklog - backlog
<1>1. open = Open(world)
    BY DEF Open, Tasked, TaskRecord, Standing
<1>2. backlog \in Nat
    <2>1. open \in SUBSET Task
        OBVIOUS
    <2> HIDE DEF open
    <2> QED BY <2>1, OrderMade, FS_CardinalityType
<1>3. MaxBacklog \in Nat
    BY LabAssumption
<1>4. GenerationCount = Min({Max({0, left}), rate})
    BY <1>1 DEF GenerationCount
<1>5. Room(world) = Min({IF backlog > MaxBacklog THEN 0 ELSE left, rate})
    BY DEF Room
<1> HIDE DEF open, backlog, rate
<1>6. Max({0, left}) = IF backlog > MaxBacklog THEN 0 ELSE left
    <2>1. left \in Int /\ (backlog > MaxBacklog <=> left < 0)
        BY <1>2, <1>3
    <2> HIDE DEF left
    <2>2. CASE left < 0
        <3>1. \A x \in {0, left} : (\A y \in {0, left} : x >= y) <=> x = 0
            BY <2>1, <2>2
        <3>2. Max({0, left}) = CHOOSE x \in {0, left} : x = 0
            BY <3>1 DEF Max
        <3> QED BY <2>1, <2>2, <3>2
    <2>3. CASE left >= 0
        <3>1. \A x \in {0, left} : (\A y \in {0, left} : x >= y) <=> x = left
            BY <2>1, <2>3
        <3>2. Max({0, left}) = CHOOSE x \in {0, left} : x = left
            BY <3>1 DEF Max
        <3> QED BY <2>1, <2>3, <3>2
    <2> QED BY <2>1, <2>2, <2>3
<1> QED
    BY <1>4, <1>5, <1>6

(* What is generated. *)
LEMMA GeneratedOf ==
    ASSUME NEW v, ShapeOfVerifier(v), NEW w
    PROVE  LET u == EnsureGenerated(v, w)
           IN /\ ShapeOfVerifier(u) /\ Place(u) = Place(v) /\ u.generated.known
              /\ u.sequence = IF v.generated.known THEN v.sequence
                              ELSE v.sequence + Len(Batch(v, w))
<1> DEFINE u == EnsureGenerated(v, w)
           tasks == Batch(v, w)
<1>1. u = IF v.generated.known THEN v
          ELSE [v EXCEPT !.generated = [known |-> TRUE, left |-> tasks],
                         !.sequence = @ + Len(tasks)]
    BY DEF EnsureGenerated, Batch, Room
<1> HIDE DEF u, tasks
<1>2. CASE v.generated.known
    BY <1>1, <1>2 DEF Place, u
<1>3. CASE ~ v.generated.known
    <2>1. u = [v EXCEPT !.generated = [known |-> TRUE, left |-> tasks],
                        !.sequence = @ + Len(tasks)]
        BY <1>1, <1>3
    <2>2. /\ u.generated = [known |-> TRUE, left |-> tasks] /\ u.sequence = v.sequence + Len(tasks)
          /\ Place(u) = Place(v)
        BY <2>1 DEF ShapeOfVerifier, Place
    <2>3. ShapeOfVerifier(u)
        BY <2>1 DEF ShapeOfVerifier
    <2> QED BY <1>3, <2>2, <2>3 DEF u, tasks
<1> QED
    BY <1>2, <1>3

\* Nothing is generated.
Same(u, v) ==
    /\ ShapeOfVerifier(u) /\ Place(u) = Place(v)
    /\ u.generated.known = v.generated.known /\ u.sequence = v.sequence

(* What is scheduled. *)
LEMMA ScheduledOf ==
    ASSUME NEW v, ShapeOfVerifier(v), NEW w, NEW drw
    PROVE  Same(EnsureSchedule(v, w, drw), v)
<1> DEFINE drawn == IF drw.seen = <<w, v.records>> THEN drw.schedule ELSE <<>>
<1>1. EnsureSchedule(v, w, drw) \in {v, [v EXCEPT !.schedule = [known |-> TRUE, left |-> drawn]]}
    BY DEF EnsureSchedule
<1> HIDE DEF drawn
<1>2. ASSUME NEW x PROVE Same([v EXCEPT !.schedule = x], v)
    BY DEF Same, ShapeOfVerifier, Place
<1> QED
    BY <1>1, <1>2 DEF Same

(* What is prepared before an event is looked at. *)
LEMMA PreparedOf ==
    ASSUME NEW v, ShapeOfVerifier(v), NEW rank, NEW w, NEW drw
    PROVE  LET u == Prepared(v, rank, w, drw)
           IN Same(u, IF rank > 2 THEN EnsureGenerated(v, w) ELSE v)
<1> DEFINE generated == IF rank > 2 THEN EnsureGenerated(v, w) ELSE v
           scheduled == IF rank >= 5 THEN EnsureSchedule(generated, w, drw) ELSE generated
           left == IF rank > 5 THEN Due(scheduled.schedule.left, w) ELSE scheduled.schedule.left
<1>1. Prepared(v, rank, w, drw) = [scheduled EXCEPT !.rank = rank, !.schedule.left = left]
    BY DEF Prepared
<1>2. ShapeOfVerifier(generated)
    BY GeneratedOf
<1> HIDE DEF generated
<1>3. Same(scheduled, generated)
    BY <1>2, ScheduledOf DEF Same
<1> HIDE DEF scheduled, left
<1>4. ASSUME NEW s, ShapeOfVerifier(s)
      PROVE  Same([s EXCEPT !.rank = rank, !.schedule.left = left], s)
    <2> DEFINE x == [s.schedule EXCEPT !.left = left]
               u == [s EXCEPT !.rank = rank, !.schedule.left = left]
    <2>1. u = [s EXCEPT !.rank = rank, !.schedule = x]
        BY <1>4 DEF ShapeOfVerifier
    <2> HIDE DEF x, u
    <2>2. Place(u) = Place(s) /\ u.generated = s.generated /\ u.sequence = s.sequence
        BY <1>4, <2>1 DEF ShapeOfVerifier, Place
    <2>3. ShapeOfVerifier(u)
        BY <1>4, <2>1 DEF ShapeOfVerifier
    <2> QED BY <2>2, <2>3 DEF Same, u
<1> QED
    BY <1>1, <1>3, <1>4 DEF Same, generated

LEMMA SettledOf ==
    ASSUME NEW v, ShapeOfVerifier(v), NEW e
    PROVE  Same(Settled(v, e), v)
<1>1. Same([v EXCEPT !.payment = NoPayment], v)
    BY DEF Same, ShapeOfVerifier, Place
<1> QED
    BY <1>1 DEF Settled, Same

(* One thing of its own is noted. *)
LEMMA NotedOf ==
    ASSUME NEW v, ShapeOfVerifier(v), NEW x
    PROVE  /\ Same([v EXCEPT !.payment = x], v) /\ Same([v EXCEPT !.pressures = x], v)
           /\ Same([v EXCEPT !.records = x], v) /\ Same([v EXCEPT !.chain = x], v)
           /\ Same([v EXCEPT !.submissions = x], v) /\ Same([v EXCEPT !.rewards = x], v)
           /\ Same([v EXCEPT !.metricsSeen = x], v)
           /\ ShapeOfVerifier([v EXCEPT !.tickCompleted = x])
           /\ ShapeOfVerifier([v EXCEPT !.completed = x])
           /\ ShapeOfVerifier([v EXCEPT !.started = x]) /\ ShapeOfVerifier([v EXCEPT !.born = x])
           /\ ShapeOfVerifier([v EXCEPT !.refused = x])
<1>1. Same([v EXCEPT !.payment = x], v)
    BY DEF Same, ShapeOfVerifier, Place
<1>2. Same([v EXCEPT !.pressures = x], v)
    BY DEF Same, ShapeOfVerifier, Place
<1>3. Same([v EXCEPT !.records = x], v)
    BY DEF Same, ShapeOfVerifier, Place
<1>4. Same([v EXCEPT !.chain = x], v)
    BY DEF Same, ShapeOfVerifier, Place
<1>5. Same([v EXCEPT !.submissions = x], v)
    BY DEF Same, ShapeOfVerifier, Place
<1>6. Same([v EXCEPT !.rewards = x], v)
    BY DEF Same, ShapeOfVerifier, Place
<1>7. Same([v EXCEPT !.metricsSeen = x], v)
    BY DEF Same, ShapeOfVerifier, Place
<1>8. ShapeOfVerifier([v EXCEPT !.tickCompleted = x])
    BY DEF ShapeOfVerifier
<1>9. ShapeOfVerifier([v EXCEPT !.completed = x])
    BY DEF ShapeOfVerifier
<1>10. ShapeOfVerifier([v EXCEPT !.started = x])
    BY DEF ShapeOfVerifier
<1>11. ShapeOfVerifier([v EXCEPT !.born = x])
    BY DEF ShapeOfVerifier
<1>12. ShapeOfVerifier([v EXCEPT !.refused = x])
    BY DEF ShapeOfVerifier
<1> QED
    BY <1>1, <1>2, <1>3, <1>4, <1>5, <1>6, <1>7, <1>8, <1>9, <1>10, <1>11, <1>12

(* What is remembered after it. *)
LEMMA AfterOf ==
    ASSUME NEW v, ShapeOfVerifier(v), NEW e, e.type \in EventType, NEW w
    PROVE  LET u == After(v, e, w)
           IN IF e.type = "tick.completed"
              THEN Same(u, [v EXCEPT !.tickCompleted = TRUE])
              ELSE IF e.type = "run.completed" THEN ShapeOfVerifier(u) ELSE Same(u, v)
<1> DEFINE u == After(v, e, w)
           freed == [v EXCEPT !.payment = NoPayment]
           due == Due(v.schedule.left, w)
           follow(type) == [e EXCEPT !.type = type, !.cause = EventId(e)]
<1>1. Same(freed, v)
    BY NotedOf
<1>2. CASE e.type \in {"pressure.applied", "agent.retired"}
    <2>1. u = [v EXCEPT !.pressures = Tail(@)]
        BY <1>2 DEF After
    <2> QED BY <1>2, <2>1, NotedOf
<1>3. CASE e.type = "task.expired"
    <2>1. u = [v EXCEPT !.expiries = Tail(@), !.oracles = @ \ {e.about}]
        BY <1>3 DEF After
    <2> HIDE DEF u
    <2> QED BY <1>3, <2>1 DEF Same, ShapeOfVerifier, Place, u
<1>4. CASE e.type = "task.created"
    <2> DEFINE x == [v.generated EXCEPT !.left = Tail(@)]
               y == v.oracles \union {e.about}
    <2>1. u = [v EXCEPT !.generated.left = Tail(@), !.oracles = @ \union {e.about}]
        BY <1>4 DEF After
    <2>2. u = [v EXCEPT !.generated = x, !.oracles = y]
        BY <2>1 DEF ShapeOfVerifier
    <2>3. x = [known |-> v.generated.known, left |-> x.left]
        <3>1. ASSUME NEW g, g = [known |-> g.known, left |-> g.left], NEW z
              PROVE  [g EXCEPT !.left = z] = [known |-> g.known, left |-> z]
            BY <3>1
        <3>2. x = [known |-> v.generated.known, left |-> Tail(v.generated.left)]
            BY <3>1 DEF ShapeOfVerifier
        <3> QED BY <3>2
    <2> HIDE DEF u, x, y
    <2>4. u.generated = x /\ u.sequence = v.sequence /\ Place(u) = Place(v)
        BY <2>2 DEF ShapeOfVerifier, Place
    <2>5. ShapeOfVerifier(u)
        BY <2>2, <2>3 DEF ShapeOfVerifier
    <2> QED BY <1>4, <2>3, <2>4, <2>5 DEF Same, u
<1>5. CASE e.type = "cognition.recorded"
    <2>1. u = [v EXCEPT !.records = Append(@, [agent |-> e.actor, actions |-> e.data.actions])]
        BY <1>5 DEF After
    <2> QED BY <1>5, <2>1, NotedOf
<1>6. CASE e.type = "resource.spent" \/ (e.type = "violation.recorded" /\ e.cause = NoCause)
    <2> DEFINE x == [v.schedule EXCEPT !.left = Tail(due)]
               y == [id |-> EventId(e), decision |-> Head(due),
                     required |-> RequiresOutcome(Head(due), w)]
    <2>1. \/ u = [v EXCEPT !.schedule.left = Tail(due), !.payment = y]
          \/ u = [v EXCEPT !.schedule.left = Tail(due)]
        BY <1>6 DEF After
    <2>2. u = [v EXCEPT !.schedule = x, !.payment = y] \/ u = [v EXCEPT !.schedule = x]
        BY <2>1 DEF ShapeOfVerifier
    <2> HIDE DEF u, x, y
    <2>3. u.generated = v.generated /\ u.sequence = v.sequence /\ Place(u) = Place(v)
        BY <2>2 DEF ShapeOfVerifier, Place
    <2>4. ShapeOfVerifier(u)
        BY <2>2 DEF ShapeOfVerifier
    <2> QED BY <1>6, <2>3, <2>4 DEF Same, u
<1>7. CASE e.type = "message.sent"
    <2> DEFINE x == follow("message.delivered")
    <2>1. u = [freed EXCEPT !.chain = x]
        BY <1>7 DEF After
    <2> HIDE DEF freed, x, u
    <2>2. Same(u, freed)
        BY <1>1, <2>1, NotedOf DEF Same
    <2> QED BY <1>1, <1>7, <2>1, <2>2 DEF Same, u
<1>8. CASE e.type \in {"message.delivered", "link.used"}
    <2> DEFINE x == follow("link.used")
    <2>1. u = [v EXCEPT !.chain = x] \/ u = [v EXCEPT !.chain = NoEvent]
        BY <1>8 DEF After
    <2> HIDE DEF x
    <2> QED BY <1>8, <2>1, NotedOf
<1>9. CASE e.type = "task.submitted"
    <2>1. u = [freed EXCEPT !.submissions = Append(@, e.about)]
        BY <1>9 DEF After
    <2> HIDE DEF freed, u
    <2>2. Same(u, freed)
        BY <1>1, <2>1, NotedOf DEF Same
    <2> QED BY <1>1, <1>9, <2>1, <2>2 DEF Same, u
<1>10. CASE e.type = "task.evaluated"
    <2> DEFINE x == ExpectedRewards(e, w)
    <2>1. u = [v EXCEPT !.submissions = Tail(@), !.oracles = @ \ {e.about}, !.rewards = x]
        BY <1>10 DEF After
    <2> HIDE DEF u, x
    <2>2. u.generated = v.generated /\ u.sequence = v.sequence /\ Place(u) = Place(v)
        BY <2>1 DEF ShapeOfVerifier, Place
    <2>3. ShapeOfVerifier(u)
        BY <2>1 DEF ShapeOfVerifier
    <2> QED BY <1>10, <2>2, <2>3 DEF Same, u
<1>11. CASE e.type = "resource.transferred"
    <2>1. u = [v EXCEPT !.rewards = Tail(@)]
        BY <1>11 DEF After
    <2> QED BY <1>11, <2>1, NotedOf
<1>12. CASE e.type = "metrics.recorded"
    <2>1. u = [v EXCEPT !.metricsSeen = TRUE]
        BY <1>12 DEF After
    <2> QED BY <1>12, <2>1, NotedOf
<1>13. CASE e.type = "tick.completed"
    <2>1. u = [v EXCEPT !.tickCompleted = TRUE]
        BY <1>13 DEF After
    <2>2. ShapeOfVerifier([v EXCEPT !.tickCompleted = TRUE])
        BY NotedOf
    <2> HIDE DEF u
    <2> QED BY <1>13, <2>1, <2>2 DEF Same, u
<1>14. CASE /\ e.type \in {"run.started", "agent.created", "task.claimed", "memory.stored",
                            "submission.verified", "link.created", "link.removed",
                            "capability.published", "capability.used", "memory.retrieved",
                            "violation.recorded"}
            /\ ~ (e.type = "violation.recorded" /\ e.cause = NoCause)
    <2>1. u = freed
        BY <1>14 DEF After
    <2> HIDE DEF u, freed
    <2> QED BY <1>1, <1>14, <2>1 DEF u
<1>15. CASE e.type = "run.completed"
    <2>1. u = [v EXCEPT !.completed = TRUE]
        BY <1>15 DEF After
    <2>2. ShapeOfVerifier([v EXCEPT !.completed = TRUE])
        BY NotedOf
    <2> HIDE DEF u
    <2> QED BY <1>15, <2>1, <2>2 DEF u
<1> HIDE DEF u
<1> QED
    BY <1>2, <1>3, <1>4, <1>5, <1>6, <1>7, <1>8, <1>9, <1>10, <1>11, <1>12, <1>13, <1>14, <1>15
    DEF EventType, u

\* A tick is started.
Began(u, v, tick) ==
    /\ ShapeOfVerifier(u) /\ u.started = v.started /\ u.born = v.born
    /\ u.tick = tick /\ ~ u.tickCompleted /\ u.refused = v.refused
    /\ ~ u.generated.known /\ u.sequence = v.sequence

LEMMA StartedOf ==
    ASSUME NEW c, NEW v, ShapeOfVerifier(v), NEW tick, NEW w, NEW drw
    PROVE  Began(StartTick(c, v, tick, w, drw), v, tick)
<1> DEFINE pressures == PressureEvents(c.pressures, tick, drw.retired)
           expiries == ExpectedExpiries(w, tick)
           u == StartTick(c, v, tick, w, drw)
<1>1. u = [v EXCEPT !.tick = tick, !.rank = 0, !.tickCompleted = FALSE, !.metricsSeen = FALSE,
                    !.generated = NotYet, !.payment = NoPayment, !.schedule = NotYet,
                    !.records = <<>>, !.pressures = pressures, !.expiries = expiries]
    BY DEF StartTick
<1> HIDE DEF pressures, expiries, u
<1>2. /\ u.started = v.started /\ u.born = v.born
      /\ u.tick = tick /\ u.tickCompleted = FALSE /\ u.refused = v.refused
      /\ u.generated = NotYet /\ u.sequence = v.sequence
    BY <1>1 DEF ShapeOfVerifier
<1>3. NotYet = [known |-> NotYet.known, left |-> NotYet.left]
    BY DEF NotYet
<1>4. ShapeOfVerifier(u)
    BY <1>1, <1>3 DEF ShapeOfVerifier
<1>5. ~ NotYet.known
    BY DEF NotYet
<1> QED
    BY <1>2, <1>4, <1>5 DEF u, Began

\* Between two ticks, or in one whose tasks are not regenerated yet.
Between(v) == v.tick = 0 \/ v.tickCompleted
Ungenerated(v) == Between(v) \/ ~v.generated.known

EarlyType == {"pressure.applied", "agent.retired", "task.expired"}
PlannedType == {"task.created", "cognition.recorded", "violation.recorded", "resource.transferred"}
LateType == EventType \ (EarlyType \union {"run.started", "agent.created", "run.completed"})

\* What the verifier v is once it has taken an event of a tick.
Took(u, v, e, w) ==
    /\ u.started /\ u.born = Agents
    /\ e.type = "tick.completed" <=> Between(u)
    /\ e.type \in EarlyType =>
        u.sequence = v.sequence /\ (Ungenerated(v) => Ungenerated(u))
    /\ e.type \in LateType =>
        /\ u.generated.known
        /\ u.sequence = IF Ungenerated(v) THEN v.sequence + Len(Batch(v, w)) ELSE v.sequence

(* It takes one it does not refuse. *)
LEMMA TakenOf ==
    ASSUME NEW c, NEW v, ShapeOfVerifier(v), NEW e, e.type \in EventType, e.tick # 0,
           NEW w, NEW drw
    PROVE  LET u == VerifyNext(c, v, e, w, drw)
           IN /\ ShapeOfVerifier(u)
              /\ u.refused = NoEvent =>
                    v.refused = NoEvent /\ (e.type \in EarlyType \union LateType => Took(u, v, e, w))
<1> DEFINE u == VerifyNext(c, v, e, w, drw)
           rank == PhaseRank(e)
           entered == IF StartsTick(v, e) THEN StartTick(c, v, e.tick, w, drw) ELSE v
           generated == IF e.type = "task.created" THEN EnsureGenerated(entered, w) ELSE entered
           ready == Prepared(generated, rank, w, drw)
           closed == Settled(ready, e)
           accepted ==
               /\ EntersInOrder(v, e)
               /\ rank >= entered.rank
               /\ PhasesDone(ready, rank)
               /\ ~(OutcomeMissing(ready, e) /\ ready.payment.required)
               /\ Continues(closed, e)
               /\ Expected(c, closed, e, w)
           refused == [v EXCEPT !.refused = e]
           next == After(closed, e, w)
<1>1. u = IF v.refused # NoEvent THEN v ELSE IF accepted THEN next ELSE refused
    BY DEF VerifyNext
<1>2. ShapeOfVerifier(refused) /\ refused.refused = e /\ e # NoEvent
    <2>1. ShapeOfVerifier(refused)
        BY NotedOf
    <2>2. refused.refused = e
        BY DEF ShapeOfVerifier
    <2>3. e # NoEvent
        BY DEF NoEvent, Event, EventType
    <2> QED BY <2>1, <2>2, <2>3
<1>3. accepted => EntersInOrder(v, e)
    OBVIOUS
<1> HIDE DEF accepted, refused, u
<1>4. /\ ShapeOfVerifier(entered) /\ entered.sequence = v.sequence
      /\ entered.started = v.started /\ entered.born = v.born /\ entered.refused = v.refused
      /\ IF StartsTick(v, e)
         THEN entered.tick = e.tick /\ ~ entered.tickCompleted /\ ~ entered.generated.known
         ELSE entered = v
    BY StartedOf DEF Began
<1> HIDE DEF entered
<1>5. /\ ShapeOfVerifier(generated) /\ Place(generated) = Place(entered)
      /\ IF e.type = "task.created"
         THEN /\ generated.generated.known
              /\ generated.sequence = IF entered.generated.known THEN entered.sequence
                                      ELSE entered.sequence + Len(Batch(entered, w))
         ELSE generated = entered
    BY <1>4, GeneratedOf
<1> HIDE DEF generated
<1>6. /\ ShapeOfVerifier(ready) /\ Place(ready) = Place(entered)
      /\ IF rank > 2 \/ e.type = "task.created"
         THEN /\ ready.generated.known
              /\ ready.sequence = IF entered.generated.known THEN entered.sequence
                                  ELSE entered.sequence + Len(Batch(entered, w))
         ELSE ready.generated.known = entered.generated.known /\ ready.sequence = entered.sequence
    <2> DEFINE early == IF rank > 2 THEN EnsureGenerated(generated, w) ELSE generated
    <2>1. Same(ready, early)
        BY <1>5, PreparedOf
    <2>2. /\ Place(early) = Place(generated)
          /\ IF rank > 2
             THEN /\ early.generated.known
                  /\ early.sequence = IF generated.generated.known THEN generated.sequence
                                      ELSE generated.sequence + Len(Batch(generated, w))
             ELSE early = generated
        BY <1>5, GeneratedOf
    <2> HIDE DEF early, rank, ready
    <2>3. CASE e.type = "task.created"
        BY <1>5, <2>1, <2>2, <2>3 DEF Same
    <2>4. CASE e.type # "task.created"
        BY <1>5, <2>1, <2>2, <2>4 DEF Same
    <2> QED BY <2>3, <2>4
<1> HIDE DEF ready
<1>7. Same(closed, ready)
    BY <1>6, SettledOf
<1> HIDE DEF closed
<1>8. IF e.type = "tick.completed" THEN Same(next, [closed EXCEPT !.tickCompleted = TRUE])
      ELSE IF e.type = "run.completed" THEN ShapeOfVerifier(next) ELSE Same(next, closed)
    BY <1>7, AfterOf DEF Same
<1> HIDE DEF next
<1>9. ShapeOfVerifier(u)
    BY <1>1, <1>2, <1>8 DEF Same
<1>10. ASSUME accepted, e.type \in EarlyType \union LateType PROVE Took(next, v, e, w)
    <2>1. v.started /\ v.born = Agents
        BY <1>3, <1>10 DEF EntersInOrder
    <2>2. e.type \notin {"run.started", "agent.created", "run.completed"} /\ e.type \in EventType
        BY <1>10 DEF EarlyType, LateType
    <2>3. StartsTick(v, e) <=> Between(v)
        BY <2>2 DEF StartsTick, Between
    <2>4. (rank > 2 \/ e.type = "task.created") <=> e.type \in LateType
        <3>1. CASE e.type \in EarlyType
            <4>1. rank \in {1, 2}
                BY <3>1 DEF PhaseRank, EarlyType
            <4> QED BY <3>1, <4>1 DEF EarlyType, LateType
        <3>2. CASE e.type \in LateType \ {"task.created"}
            <4>1. rank \in {3, 5, 6, 7, 8}
                BY <3>2 DEF PhaseRank, EarlyType, LateType, EventType
            <4> QED BY <3>2, <4>1
        <3>3. CASE e.type = "task.created"
            BY <3>3 DEF LateType, EarlyType, EventType
        <3> QED BY <1>10, <3>1, <3>2, <3>3
    <2>5. Batch(entered, w) = Batch(v, w)
        BY <1>4 DEF Batch
    <2>6. entered.tick # 0 /\ ~ entered.tickCompleted /\ (entered.generated.known <=> ~ Ungenerated(v))
        BY <1>4, <2>3 DEF Between, Ungenerated
    <2> HIDE DEF rank
    <2>7. /\ ready.started = v.started /\ ready.born = v.born /\ ready.tick # 0
          /\ ~ ready.tickCompleted
        BY <1>4, <1>6, <2>6 DEF Place
    <2>8. IF e.type \in LateType
          THEN /\ ready.generated.known
               /\ ready.sequence = IF Ungenerated(v) THEN v.sequence + Len(Batch(v, w))
                                   ELSE v.sequence
          ELSE (ready.generated.known <=> ~ Ungenerated(v)) /\ ready.sequence = v.sequence
        BY <1>4, <1>6, <2>4, <2>5, <2>6
    <2>9. CASE e.type = "tick.completed"
        <3>1. e.type \in LateType /\ e.type \notin EarlyType
            BY <2>9 DEF LateType, EarlyType, EventType
        <3> DEFINE done == [closed EXCEPT !.tickCompleted = TRUE]
        <3>2. /\ done.tickCompleted /\ done.started = closed.started /\ done.born = closed.born
              /\ done.generated = closed.generated /\ done.sequence = closed.sequence
            BY <1>7 DEF Same, ShapeOfVerifier
        <3>3. Same(next, done)
            BY <1>8, <2>9
        <3> HIDE DEF done
        <3>4. /\ next.tickCompleted /\ next.started = ready.started /\ next.born = ready.born
              /\ next.generated.known = ready.generated.known /\ next.sequence = ready.sequence
            BY <1>7, <3>2, <3>3 DEF Same, Place
        <3> QED BY <2>1, <2>7, <2>8, <2>9, <3>1, <3>4 DEF Took, Between
    <2>10. CASE e.type # "tick.completed"
        <3>1. Same(next, closed)
            BY <1>8, <2>2, <2>10
        <3>2. /\ next.started = ready.started /\ next.born = ready.born /\ next.tick = ready.tick
              /\ next.tickCompleted = ready.tickCompleted
              /\ next.generated.known = ready.generated.known /\ next.sequence = ready.sequence
            BY <1>7, <3>1 DEF Same, Place
        <3>3. e.type \in EarlyType => e.type \notin LateType
            BY DEF LateType
        <3> QED BY <2>1, <2>7, <2>8, <2>10, <3>2, <3>3 DEF Took, Between, Ungenerated
    <2> QED BY <2>9, <2>10
<1>11. u.refused = NoEvent => v.refused = NoEvent /\ u = next /\ accepted
    BY <1>1, <1>2
<1> QED
    BY <1>9, <1>10, <1>11 DEF u

\* What it is once it has taken an event of the genesis.
Grew(u, v) ==
    /\ u.tick = v.tick /\ u.sequence = v.sequence /\ u.started
    /\ u.born = IF v.started THEN v.born + 1 ELSE v.born

LEMMA GrownOf ==
    ASSUME NEW c, NEW v, ShapeOfVerifier(v), NEW e, e.type \in EventType, e.tick = 0,
           NEW w, NEW drw
    PROVE  LET u == VerifyNext(c, v, e, w, drw)
           IN /\ ShapeOfVerifier(u)
              /\ u.refused = NoEvent => v.refused = NoEvent /\ Grew(u, v)
<1> DEFINE u == VerifyNext(c, v, e, w, drw)
           grown == AfterGenesis(v, e)
           refused == [v EXCEPT !.refused = e]
<1>1. u = IF v.refused # NoEvent THEN v ELSE IF GenesisExpected(v, e) THEN grown ELSE refused
    BY DEF VerifyNext
<1>2. ShapeOfVerifier(refused) /\ refused.refused = e /\ e # NoEvent
    <2>1. ShapeOfVerifier(refused)
        BY NotedOf
    <2>2. refused.refused = e
        BY DEF ShapeOfVerifier
    <2>3. e # NoEvent
        BY DEF NoEvent, Event, EventType
    <2> QED BY <2>1, <2>2, <2>3
<1>3. ShapeOfVerifier(grown) /\ Grew(grown, v)
    <2>1. CASE v.started
        <3>1. grown = [v EXCEPT !.born = v.born + 1]
            BY <2>1 DEF AfterGenesis
        <3> HIDE DEF grown
        <3>2. ShapeOfVerifier(grown)
            BY <3>1, NotedOf
        <3> QED BY <2>1, <3>1, <3>2 DEF Grew, ShapeOfVerifier
    <2>2. CASE ~ v.started
        <3>1. grown = [v EXCEPT !.started = TRUE]
            BY <2>2 DEF AfterGenesis
        <3> HIDE DEF grown
        <3>2. ShapeOfVerifier(grown)
            BY <3>1, NotedOf
        <3> QED BY <2>2, <3>1, <3>2 DEF Grew, ShapeOfVerifier
    <2> QED BY <2>1, <2>2
<1> HIDE DEF u, grown, refused
<1> QED
    BY <1>1, <1>2, <1>3 DEF u

-----------------------------------------------------------------------------
(* The invariant.                                                             *)

Early == {"pressure", "expiry"}
Late == {"generation", "cognition", "decided", "resolution", "paid", "sent", "delivered",
         "metrics", "upkeep"}

OfTick(types) == Within(agenda, nextTick, types)

\* The engine's generator is a batch ahead of the verifier's.
Ahead == sequence = verifier.sequence + Len(StreamTasks(verifier.sequence, GenerationCount))

Accepting == scenario.policy # "custom" /\ verifier.refused = NoEvent

Basic ==
    /\ Tasked(world) /\ ShapeOfVerifier(verifier)
    /\ saved.tick \in Nat /\ nextTick \in Nat /\ world.tick \in Nat

\* Nothing is written yet.
Unwritten ==
    /\ world = InitialWorld /\ verifier = NewVerifier /\ rows = 0 /\ saved = NoCheckpoint
    /\ stage = "down" \/ (stage = "boundary" /\ agenda # <<>>)

\* There is a row for every metrics event, but while it is being written.
Counted ==
    \/ stage \in {"down", "done", "failed", "conflict"}
    \/ IF stage = "metrics" THEN world.metrics = rows + 1 ELSE rows = world.metrics

\* The genesis is not over: what is missing is in the agenda.
Opening ==
    /\ world.tick = 0 /\ nextTick = 1 /\ saved = NoCheckpoint
    /\ \A i \in DOMAIN agenda :
        agenda[i].tick = 0 /\ agenda[i].type \in {"run.started", "agent.created"}
    /\ Accepting =>
        /\ verifier.tick = 0 /\ sequence = verifier.sequence
        /\ verifier.born \in Nat
        /\ Len(agenda) + verifier.born = Agents + (IF verifier.started THEN 0 ELSE 1)
        /\ ~ verifier.started => verifier.born = 0

\* At the end of a tick; a checkpoint of this one is a good one.
Resting ==
    /\ nextTick = world.tick + 1 /\ saved.tick <= world.tick
    /\ Accepting =>
        /\ AtBoundary(verifier) /\ sequence = verifier.sequence
        /\ saved.tick = world.tick /\ saved # NoCheckpoint =>
              saved.atEnd /\ saved.sequence = sequence

\* In a tick, of which there is no checkpoint.
Ticking ==
    /\ saved.tick < nextTick
    /\ Accepting => verifier.started /\ verifier.born = Agents

EarlyInTick ==
    /\ Ticking /\ OfTick(EarlyType)
    /\ Accepting => Ungenerated(verifier) /\ sequence = verifier.sequence

LateInTick ==
    /\ Ticking /\ OfTick(PlannedType)
    /\ Accepting => IF Ungenerated(verifier) THEN Ahead ELSE sequence = verifier.sequence

Paused == Accepting => AtBoundary(verifier) /\ saved.atEnd /\ saved.sequence = verifier.sequence

Regular ==
    /\ Basic /\ Counted
    /\ prev = NoCause => Unwritten
    /\ stage \in {"boundary", "checkpoint", "completed"} \union Over \union Early \union Late
    /\ stage \in {"metrics", "upkeep", "checkpoint", "completed"} \union Over => agenda = <<>>
    /\ stage = "boundary" /\ agenda # <<>> => Opening
    /\ (stage = "boundary" /\ agenda = <<>>) \/ stage = "checkpoint" => Resting
    /\ stage \in Early => EarlyInTick
    /\ stage \in Late => LateInTick
    /\ stage = "paused" => Paused

(* What an append makes of the log. *)
LEMMA CommitFollows ==
    ASSUME Accounted, Basic, scenario' = scenario, NEW e, WellMade(e), Commit(e)
    PROVE  /\ Tasked(world') /\ ShapeOfVerifier(verifier') /\ prev' # NoCause
           /\ saved'.tick = saved.tick /\ (saved = NoCheckpoint => saved' = saved)
           /\ world'.tick = e.tick
           /\ world'.metrics = IF e.type = "metrics.recorded" THEN world.metrics + 1
                               ELSE world.metrics
           /\ Accepting' =>
                /\ Accepting
                /\ e.tick = 0 => Grew(verifier', verifier)
                /\ e.tick # 0 /\ e.type \in EarlyType \union LateType =>
                        Took(verifier', verifier, e, world)
<1>1. /\ world' = Applied(world, e) /\ prev' = EventId(e) /\ saved' = [saved EXCEPT !.atEnd = FALSE]
      /\ verifier' = IF scenario.policy = "custom" THEN verifier
                     ELSE VerifyNext(scenario, verifier, e, world, draw)
    BY DEF Commit
<1>2. ShapeOfWorld(world) /\ e.type \in EventType
    BY DEF Accounted, Conserved, WellMade
<1>3. Follows(world', world, e)
    BY <1>1, <1>2, WorldFollows DEF Basic
<1>4. saved'.tick = saved.tick
    BY <1>1 DEF Accounted, Checkpoint
<1>5. saved = NoCheckpoint => saved' = saved
    <2>1. saved' = [tick |-> saved.tick, sequence |-> saved.sequence, atEnd |-> FALSE]
        BY <1>1 DEF Accounted, Checkpoint
    <2> QED BY <2>1 DEF NoCheckpoint
<1>6. prev' # NoCause
    BY <1>1 DEF EventId, NoCause
<1>7. CASE scenario.policy = "custom"
    BY <1>1, <1>3, <1>4, <1>5, <1>6, <1>7 DEF Accepting, Follows, Basic
<1>8. CASE scenario.policy # "custom"
    <2>1. verifier' = VerifyNext(scenario, verifier, e, world, draw)
        BY <1>1, <1>8
    <2>2. CASE e.tick = 0
        <3>1. /\ ShapeOfVerifier(verifier')
              /\ verifier'.refused = NoEvent => verifier.refused = NoEvent /\ Grew(verifier', verifier)
            BY <1>2, <2>1, <2>2, GrownOf DEF Basic
        <3> QED BY <1>3, <1>4, <1>5, <1>6, <1>8, <2>2, <3>1 DEF Accepting, Follows
    <2>3. CASE e.tick # 0
        <3>1. /\ ShapeOfVerifier(verifier')
              /\ verifier'.refused = NoEvent =>
                    /\ verifier.refused = NoEvent
                    /\ e.type \in EarlyType \union LateType => Took(verifier', verifier, e, world)
            BY <1>2, <2>1, <2>3, TakenOf DEF Basic
        <3> QED BY <1>3, <1>4, <1>5, <1>6, <1>8, <2>3, <3>1 DEF Accepting, Follows
    <2> QED BY <2>2, <2>3
<1> QED
    BY <1>7, <1>8

(* The events of the genesis. *)
LEMMA GenesisRegular ==
    ASSUME Accounted, Regular, Genesis
    PROVE  Regular'
<1> DEFINE e == Head(agenda)
<1>1. /\ stage = "boundary" /\ agenda # <<>> /\ Commit(e) /\ agenda' = Tail(agenda)
      /\ UNCHANGED <<scenario, rows, stage, nextTick, sequence>>
    BY DEF Genesis, CommitNext
<1>2. WellMade(e) /\ AllMade(Tail(agenda)) /\ IsList(agenda)
    BY <1>1, HeadMade DEF Accounted, AllMade
<1>3. Opening /\ Basic /\ rows = world.metrics
    BY <1>1 DEF Regular, Counted
<1>4. e.tick = 0 /\ e.type \in {"run.started", "agent.created"}
    BY <1>1, <1>2, <1>3, ListParts DEF Opening
<1>5. \A i \in DOMAIN agenda' : agenda'[i].tick = 0 /\ agenda'[i].type \in {"run.started", "agent.created"}
    BY <1>1, <1>2, <1>3, ListParts DEF Opening
<1> HIDE DEF e
<1>6. /\ Tasked(world') /\ ShapeOfVerifier(verifier') /\ prev' # NoCause
      /\ saved' = NoCheckpoint
      /\ world'.tick = 0 /\ world'.metrics = world.metrics
      /\ Accepting' => Accepting /\ Grew(verifier', verifier)
    BY <1>1, <1>2, <1>3, <1>4, CommitFollows DEF Opening
<1>7. Len(agenda') = Len(agenda) - 1 /\ Len(agenda) \in Nat /\ (agenda' = <<>> <=> Len(agenda') = 0)
    BY <1>1, <1>2, ListParts, ListPlaces DEF IsList
<1>8. Agents \in Nat
    BY LabAssumption
<1>9. Accepting' =>
        /\ verifier'.tick = 0 /\ sequence' = verifier'.sequence /\ verifier'.started
        /\ verifier'.born \in Nat /\ Len(agenda') + verifier'.born = Agents
    BY <1>1, <1>3, <1>6, <1>7, <1>8 DEF Opening, Grew
<1>10. Basic' /\ Counted'
    BY <1>1, <1>3, <1>6 DEF Basic, Counted, NoCheckpoint
<1>11. CASE agenda' # <<>>
    <2>1. Opening'
        BY <1>1, <1>3, <1>5, <1>6, <1>9, <1>8 DEF Opening
    <2> QED BY <1>1, <1>6, <1>10, <1>11, <2>1 DEF Regular, Over, Early, Late
<1>12. CASE agenda' = <<>>
    <2>3. Accepting' => verifier'.born = Agents
        <3>1. Len(agenda') = 0
            BY <1>7, <1>12
        <3> SUFFICES ASSUME Accepting' PROVE verifier'.born = Agents
            OBVIOUS
        <3>2. verifier'.born \in Nat /\ 0 + verifier'.born = Agents
            BY <1>9, <3>1
        <3> QED BY <1>8, <3>2
    <2>1. Accepting' => AtBoundary(verifier')
        <3>1. Accepting' => verifier'.refused = NoEvent
            BY DEF Accepting
        <3> QED BY <1>9, <2>3, <3>1 DEF AtBoundary
    <2>2. Resting'
        BY <1>1, <1>3, <1>6, <1>9, <2>1 DEF Resting, Opening, NoCheckpoint
    <2> QED BY <1>1, <1>6, <1>10, <1>12, <2>2 DEF Regular, Over, Early, Late
<1> QED
    BY <1>11, <1>12

(* The next event of a phase. *)
LEMMA NextOfTick ==
    ASSUME Accounted, agenda # <<>>, NEW types, OfTick(types)
    PROVE  /\ WellMade(Head(agenda)) /\ Head(agenda).tick = nextTick /\ Head(agenda).type \in types
           /\ Within(Tail(agenda), nextTick, types)
<1>1. IsList(agenda)
    BY DEF Accounted, AllMade
<1> QED
    BY <1>1, HeadMade, ListParts DEF Accounted, OfTick, Within

(* A tick begins. *)
LEMMA BeginTickRegular ==
    ASSUME Accounted, Regular, BeginTick
    PROVE  Regular'
<1>1. /\ stage = "boundary" /\ agenda = <<>> /\ stage' = "pressure"
      /\ UNCHANGED <<scenario, world, verifier, prev, saved, rows, nextTick, sequence>>
    BY DEF BeginTick, Idle, log
<1>2. PICK gone \in Retirements(world, scenario.pressures, nextTick) :
            agenda' = PressureEvents(scenario.pressures, nextTick, gone)
    BY DEF BeginTick
<1>3. gone \subseteq Agent
    <2>1. gone \subseteq world.active
        BY DEF Retirements
    <2>2. world.active \subseteq 1 .. world.born /\ world.born \in 0 .. Agents /\ Agents \in Nat
        BY LabAssumption DEF Accounted, Conserved
    <2> QED BY <2>1, <2>2 DEF Agent
<1>4. Within(agenda', nextTick, {"pressure.applied", "agent.retired"})
    BY <1>2, <1>3, PressureMade DEF Accounted
<1>5. OfTick(EarlyType)'
    BY <1>1, <1>4 DEF OfTick, Within, EarlyType
<1>6. Basic /\ Resting /\ rows = world.metrics /\ prev # NoCause
    BY <1>1 DEF Regular, Counted, Unwritten
<1>7. Basic' /\ Counted'
    BY <1>1, <1>6 DEF Basic, Counted
<1>8. Ticking' /\ (Accepting' => Ungenerated(verifier') /\ sequence' = verifier'.sequence)
    BY <1>1, <1>6 DEF Resting, Ticking, Accepting, AtBoundary, Ungenerated, Between, Basic
<1>9. EarlyInTick'
    BY <1>5, <1>8 DEF EarlyInTick
<1> QED
    BY <1>1, <1>6, <1>7, <1>9 DEF Regular, Over, Early, Late

(* The events of the early phases. *)
LEMMA EarlyRegular ==
    ASSUME Accounted, Regular, CommitPressure \/ CommitExpiry
    PROVE  Regular'
<1> DEFINE e == Head(agenda)
<1>1. /\ stage \in Early /\ agenda # <<>> /\ Commit(e) /\ agenda' = Tail(agenda)
      /\ UNCHANGED <<scenario, rows, stage, nextTick, sequence>>
    BY DEF CommitPressure, CommitExpiry, CommitNext, Early
<1>2. EarlyInTick /\ Basic /\ rows = world.metrics
    BY <1>1 DEF Regular, Counted, Early
<1>3. WellMade(e) /\ e.tick = nextTick /\ e.type \in EarlyType /\ Within(agenda', nextTick, EarlyType)
    BY <1>1, <1>2, NextOfTick DEF EarlyInTick
<1> HIDE DEF e
<1>4. nextTick # 0 /\ saved.tick < nextTick
    BY <1>2 DEF Basic, EarlyInTick, Ticking
<1>5. e.type # "metrics.recorded" /\ e.type # "tick.completed"
    BY <1>3 DEF EarlyType
<1>6. /\ Tasked(world') /\ ShapeOfVerifier(verifier') /\ prev' # NoCause
      /\ saved'.tick = saved.tick /\ world'.tick = nextTick /\ world'.metrics = world.metrics
      /\ Accepting' => Accepting /\ Took(verifier', verifier, e, world)
    BY <1>1, <1>2, <1>3, <1>4, <1>5, CommitFollows
<1>7. Basic' /\ Counted'
    BY <1>1, <1>2, <1>6 DEF Basic, Counted, Early
<1>8. Ticking' /\ (Accepting' => Ungenerated(verifier') /\ sequence' = verifier'.sequence)
    BY <1>1, <1>2, <1>3, <1>4, <1>6 DEF EarlyInTick, Ticking, Took
<1>9. EarlyInTick'
    BY <1>1, <1>3, <1>8 DEF EarlyInTick, OfTick
<1> QED
    BY <1>1, <1>6, <1>7, <1>9 DEF Regular, Over, Early, Late

LEMMA BeginExpiryRegular ==
    ASSUME Accounted, Regular, BeginExpiry
    PROVE  Regular'
<1>1. /\ stage = "pressure" /\ stage' = "expiry"
      /\ agenda' = [i \in DOMAIN Expired |-> SystemEvent("task.expired", nextTick, Expired[i], NoData)]
      /\ UNCHANGED <<scenario, world, verifier, prev, saved, rows, nextTick, sequence>>
    BY DEF BeginExpiry, Finished, log
<1>2. EarlyInTick /\ Basic /\ rows = world.metrics /\ prev # NoCause
    BY <1>1 DEF Regular, Counted, Early, Unwritten
<1>3. OfTick(EarlyType)'
    BY <1>1 DEF OfTick, Within, EarlyType, SystemEvent, Event
<1>4. Basic' /\ Counted'
    BY <1>1, <1>2 DEF Basic, Counted
<1>5. EarlyInTick'
    BY <1>1, <1>2, <1>3 DEF EarlyInTick, Ticking, Accepting
<1> QED
    BY <1>1, <1>2, <1>4, <1>5 DEF Regular, Over, Early, Late

(* The engine generates the tasks of the tick before the verifier does. *)
LEMMA BeginGenerationRegular ==
    ASSUME Accounted, Regular, BeginGeneration
    PROVE  Regular'
<1> DEFINE tasks == StreamTasks(sequence, GenerationCount)
<1>1. /\ stage = "expiry" /\ stage' = "generation"
      /\ agenda' = [i \in DOMAIN tasks |-> SystemEvent("task.created", nextTick, tasks[i], NoData)]
      /\ sequence' = sequence + Len(tasks)
      /\ UNCHANGED <<scenario, world, verifier, prev, saved, rows, nextTick>>
    BY DEF BeginGeneration, Finished, log
<1>2. EarlyInTick /\ Basic /\ rows = world.metrics /\ prev # NoCause
    BY <1>1 DEF Regular, Counted, Early, Unwritten
<1>3. OfTick(PlannedType)'
    BY <1>1 DEF OfTick, Within, PlannedType, SystemEvent, Event
<1>4. Basic' /\ Counted'
    BY <1>1, <1>2 DEF Basic, Counted
<1>5. GenerationCount' = GenerationCount
    BY <1>1 DEF GenerationCount
<1>6. Accepting' => Accepting /\ Ungenerated(verifier') /\ Ahead'
    BY <1>1, <1>2, <1>5 DEF EarlyInTick, Accepting, Ahead
<1>7. Ticking'
    BY <1>1, <1>2 DEF EarlyInTick, Ticking, Accepting
<1>8. LateInTick'
    BY <1>3, <1>6, <1>7 DEF LateInTick
<1> QED
    BY <1>1, <1>2, <1>4, <1>8 DEF Regular, Over, Early, Late

(* An event of a later phase: both generators are where they should be. *)
LEMMA LateFollows ==
    ASSUME Accounted, Regular, stage \in Late, NEW e, WellMade(e), Commit(e),
           e.tick = nextTick, e.type \in LateType, UNCHANGED <<scenario, sequence>>,
           nextTick' \in {nextTick, nextTick + 1}
    PROVE  /\ Basic' /\ prev' # NoCause /\ saved'.tick < nextTick /\ world'.tick = nextTick
           /\ world'.metrics = IF e.type = "metrics.recorded" THEN world.metrics + 1
                               ELSE world.metrics
           /\ Accepting' =>
                /\ verifier'.started /\ verifier'.born = Agents
                /\ sequence' = verifier'.sequence
                /\ IF e.type = "tick.completed" THEN Between(verifier') ELSE ~ Ungenerated(verifier')
<1>1. LateInTick /\ Basic
    BY DEF Regular
<1>2. nextTick # 0 /\ saved.tick < nextTick
    BY <1>1 DEF Basic, LateInTick, Ticking
<1>3. /\ Tasked(world') /\ ShapeOfVerifier(verifier') /\ prev' # NoCause
      /\ saved'.tick = saved.tick /\ world'.tick = nextTick
      /\ world'.metrics = IF e.type = "metrics.recorded" THEN world.metrics + 1 ELSE world.metrics
      /\ Accepting' => Accepting /\ Took(verifier', verifier, e, world)
    BY <1>1, <1>2, CommitFollows
<1>4. Basic'
    BY <1>1, <1>3 DEF Basic
<1>5. Batch(verifier, world) = StreamTasks(verifier.sequence, GenerationCount)
    BY <1>1, RoomIsCount DEF Batch, Basic
<1>6. Accepting' => sequence' = verifier'.sequence
    BY <1>1, <1>3, <1>5 DEF LateInTick, Took, Ahead
<1>7. Accepting' =>
        /\ verifier'.started /\ verifier'.born = Agents
        /\ IF e.type = "tick.completed" THEN Between(verifier') ELSE ~ Ungenerated(verifier')
    BY <1>3 DEF Took, Ungenerated
<1> QED
    BY <1>2, <1>3, <1>4, <1>6, <1>7

\* What a step within the late phases leaves to be shown.
Steps ==
    /\ stage \in Late /\ stage' \in Late \ {"metrics"}
    /\ stage' = "upkeep" => agenda' = <<>>
    /\ UNCHANGED <<scenario, rows, nextTick, sequence>>

(* One that appends an event, *)
LEMMA LateCommits ==
    ASSUME Accounted, Regular, Steps, stage # "metrics", NEW e, WellMade(e), Commit(e),
           e.tick = nextTick, e.type \in LateType \ {"metrics.recorded", "tick.completed"},
           Within(agenda', nextTick, PlannedType)
    PROVE  Regular'
<1>1. /\ stage \in Late /\ stage' \in Late \ {"metrics"} /\ (stage' = "upkeep" => agenda' = <<>>)
      /\ UNCHANGED <<scenario, rows, nextTick, sequence>>
    BY DEF Steps
<1>2. rows = world.metrics
    BY <1>1 DEF Regular, Counted, Late
<1>3. /\ Basic' /\ prev' # NoCause /\ saved'.tick < nextTick /\ world'.metrics = world.metrics
      /\ Accepting' => /\ verifier'.started /\ verifier'.born = Agents
                       /\ sequence' = verifier'.sequence /\ ~ Ungenerated(verifier')
    BY <1>1, LateFollows
<1>4. Counted'
    BY <1>1, <1>2, <1>3 DEF Counted
<1>5. LateInTick'
    BY <1>1, <1>3 DEF LateInTick, Ticking, OfTick
<1> QED
    BY <1>1, <1>3, <1>4, <1>5 DEF Regular, Over, Early, Late

(* and one that does not. *)
LEMMA LateWaits ==
    ASSUME Regular, Steps, stage # "metrics", UNCHANGED <<world, verifier, prev, saved>>,
           Within(agenda', nextTick, PlannedType)
    PROVE  Regular'
<1>1. /\ stage \in Late /\ stage' \in Late \ {"metrics"} /\ (stage' = "upkeep" => agenda' = <<>>)
      /\ UNCHANGED <<scenario, rows, nextTick, sequence>>
    BY DEF Steps
<1>2. rows = world.metrics /\ LateInTick /\ Basic /\ prev # NoCause
    BY <1>1 DEF Regular, Counted, Late, Unwritten
<1>3. Basic' /\ Counted'
    BY <1>1, <1>2 DEF Counted, Basic
<1>4. GenerationCount' = GenerationCount
    BY DEF GenerationCount
<1>5. LateInTick'
    BY <1>1, <1>2, <1>4 DEF LateInTick, Ticking, OfTick, Accepting, Ahead
<1> QED
    BY <1>1, <1>2, <1>3, <1>5 DEF Regular, Over, Early, Late

(* The other events that are determined beforehand. *)
LEMMA LateNextRegular ==
    ASSUME Accounted, Regular, CommitTask \/ CommitRecord \/ CommitPolicyError \/ Reward
    PROVE  Regular'
<1> DEFINE e == Head(agenda)
           phases == {"generation", "cognition", "decided", "resolution"}
<1>1. /\ stage \in phases /\ stage' \in phases
      /\ agenda # <<>> /\ Commit(e) /\ agenda' = Tail(agenda)
      /\ UNCHANGED <<scenario, rows, nextTick, sequence>>
    BY DEF CommitTask, CommitRecord, CommitPolicyError, Reward, CommitNext
<1>2. Steps /\ stage # "metrics" /\ stage \in Late
    BY <1>1 DEF Steps, Late
<1>3. OfTick(PlannedType)
    BY <1>2 DEF Regular, LateInTick
<1>4. /\ WellMade(e) /\ e.tick = nextTick /\ e.type \in PlannedType
      /\ Within(agenda', nextTick, PlannedType)
    BY <1>1, <1>3, NextOfTick
<1> HIDE DEF e
<1>5. e.type \in LateType \ {"metrics.recorded", "tick.completed"}
    BY <1>4 DEF PlannedType, LateType, EarlyType, EventType
<1> QED
    BY <1>1, <1>2, <1>4, <1>5, LateCommits

(* What is determined of a tick at once. *)
LEMMA DeterminedRegular ==
    ASSUME Regular, Consult \/ DecideAll
    PROVE  Regular'
<1>1. /\ stage \in {"generation", "cognition"} /\ stage' \in {"cognition", "resolution", "decided"}
      /\ UNCHANGED <<scenario, world, verifier, prev, saved, rows, nextTick, sequence>>
    BY DEF Consult, DecideAll, Finished, log
<1>2. Within(agenda', nextTick, PlannedType)
    <2>1. CASE Consult
        BY <2>1 DEF Consult, Within, Event, PlannedType
    <2>2. CASE DecideAll
        <3>1. \E thrown :
                agenda' = [i \in DOMAIN thrown |->
                    Event("violation.recorded", nextTick, thrown[i], Nobody, 0, NoCause,
                          [action |-> "reason", reason |-> "policy_error"])]
            BY <2>2 DEF DecideAll
        <3> QED BY <3>1 DEF Within, Event, PlannedType
    <2> QED BY <2>1, <2>2
<1>3. Steps /\ stage # "metrics"
    BY <1>1 DEF Steps, Late
<1> QED
    BY <1>1, <1>2, <1>3, LateWaits

(* What happens while the agenda is as it was. *)
LEMMA AgendaStays ==
    ASSUME Regular, stage \in Late, UNCHANGED <<agenda, nextTick>>
    PROVE  Within(agenda', nextTick, PlannedType)
BY DEF Regular, LateInTick, OfTick

(* A payment, or what comes in its place. *)
LEMMA PaymentRegular ==
    ASSUME Accounted, Regular, Skip \/ CostUnavailable \/ Pay
    PROVE  Regular'
<1> DEFINE d == Head(decisions)
<1>1. /\ stage = "resolution" /\ stage' \in {"resolution", "paid"}
      /\ UNCHANGED <<scenario, rows, nextTick, sequence, agenda>>
    BY DEF Skip, CostUnavailable, Pay
<1>2. Steps /\ stage \in Late /\ stage # "metrics"
    BY <1>1 DEF Steps, Late
<1>3. Within(agenda', nextTick, PlannedType)
    BY <1>1, <1>2, AgendaStays
<1>4. CASE Skip
    <2>1. UNCHANGED <<world, verifier, prev, saved>>
        BY <1>4 DEF Skip, log
    <2> QED BY <1>2, <1>3, <2>1, LateWaits
<1>5. CASE CostUnavailable
    <2> DEFINE e == ViolationEvent(d, NoCause, "cost_unavailable")
    <2>1. Commit(e)
        BY <1>5 DEF CostUnavailable
    <2>2. e.type = "violation.recorded" /\ e.tick = nextTick
        BY DEF ViolationEvent, Event
    <2> HIDE DEF e
    <2>3. WellMade(e) /\ e.type \in LateType \ {"metrics.recorded", "tick.completed"}
        BY <2>2 DEF WellMade, LateType, EarlyType, EventType
    <2> QED BY <1>2, <1>3, <2>1, <2>2, <2>3, LateCommits
<1>6. CASE Pay
    <2> DEFINE cost == ScaledCost(CostBase(d), world.physics)
               e == Event("resource.spent", nextTick, d.actor, Nobody, d.index, NoCause,
                          [action |-> d.action.type, cost |-> cost])
    <2>1. decisions # <<>> /\ CanPay(d) /\ Commit(e)
        BY <1>6 DEF Pay
    <2>2. Possible(d.action)
        BY <2>1, HeadDecided
    <2>3. cost \in Resources
        <3>1. world.physics \in Physics /\ d.action.type \in ActionType
            BY <2>2 DEF Accounted, Conserved, Possible
        <3>2. ~ Unavailable(Costs[d.action.type], world.physics)
            BY <2>1 DEF CanPay, Costless, CostBase
        <3> QED BY <3>1, <3>2, CostMade DEF CostBase
    <2> HIDE DEF d, cost
    <2>4. e.type = "resource.spent" /\ e.tick = nextTick /\ WellMade(e)
        BY <2>3 DEF WellMade, Event, EventType
    <2> HIDE DEF e
    <2>5. e.type \in LateType \ {"metrics.recorded", "tick.completed"}
        BY <2>4 DEF LateType, EarlyType, EventType
    <2> QED BY <1>2, <1>3, <2>1, <2>4, <2>5, LateCommits
<1> QED
    BY <1>4, <1>5, <1>6

(* What is tried, *)
LEMMA ActRegular ==
    ASSUME Accounted, Regular, ActSilently \/ ActFails \/ Act \/ Deliver \/ UseLink
    PROVE  Regular'
<1>1. /\ stage \in {"paid", "sent", "delivered"} /\ stage' \in {"resolution", "sent", "delivered"}
      /\ UNCHANGED <<scenario, rows, nextTick, sequence, agenda>>
    BY DEF ActSilently, ActFails, Act, Deliver, UseLink, memory
<1>2. Steps /\ stage \in Late /\ stage # "metrics"
    BY <1>1 DEF Steps, Late
<1>3. Within(agenda', nextTick, PlannedType)
    BY <1>1, <1>2, AgendaStays
<1>4. CASE ActSilently
    <2>1. UNCHANGED <<world, verifier, prev, saved>>
        BY <1>4 DEF ActSilently, log
    <2> QED BY <1>2, <1>3, <2>1, LateWaits
<1>5. CASE ActFails \/ Deliver \/ UseLink
    <2>1. \E e : /\ Commit(e) /\ e.tick = nextTick
                 /\ e.type \in {"violation.recorded", "message.delivered", "link.used"}
        BY <1>5 DEF ActFails, Deliver, UseLink, ViolationEvent, Delivery, Event
    <2>2. PICK e : /\ Commit(e) /\ e.tick = nextTick
                   /\ e.type \in {"violation.recorded", "message.delivered", "link.used"}
        BY <2>1
    <2>3. WellMade(e) /\ e.type \in LateType \ {"metrics.recorded", "tick.completed"}
        BY <2>2 DEF WellMade, LateType, EarlyType, EventType
    <2> QED BY <1>2, <1>3, <2>2, <2>3, LateCommits
<1>6. CASE Act
    <2> DEFINE e == OutcomeEvent(current)
    <2>1. ~ Silent(current) /\ Obstacle(current) = "none" /\ Commit(e)
        BY <1>6 DEF Act
    <2>2. Problem(current) = "none"
        BY <2>1 DEF Obstacle
    <2>3. Possible(current.action)
        BY DEF Accounted
    <2>4. WellMade(e)
        BY <2>1, <2>2, <2>3, OutcomeMade
    <2>5. current.action.type \in ActionType \ {"observe", "reason", "spawn"}
        BY <2>1, <2>2, <2>3, OutcomeTried
    <2>6. /\ e.tick = nextTick
          /\ e.type \in {"task.claimed", "memory.stored", "memory.retrieved",
                         "capability.published", "capability.used", "resource.transferred",
                         "task.submitted", "submission.verified", "link.created",
                         "link.removed", "message.sent"}
        BY <2>5 DEF OutcomeEvent, Event, ActionType
    <2> HIDE DEF e
    <2>7. e.type \in LateType \ {"metrics.recorded", "tick.completed"}
        BY <2>6 DEF LateType, EarlyType, EventType
    <2> QED BY <1>2, <1>3, <2>1, <2>4, <2>6, <2>7, LateCommits
<1> QED
    BY <1>4, <1>5, <1>6

(* and what is evaluated. *)
LEMMA EvaluateRegular ==
    ASSUME Accounted, Regular, Evaluate \/ EvaluationFails
    PROVE  Regular'
<1> DEFINE t == Head(pending)
<1>1. /\ stage = "resolution" /\ stage' = stage
      /\ UNCHANGED <<scenario, rows, nextTick, sequence>>
    BY DEF Evaluate, EvaluationFails, Evaluating
<1>2. Steps /\ stage \in Late /\ stage # "metrics"
    BY <1>1 DEF Steps, Late
<1>3. Within(agenda', nextTick, PlannedType)
    <2>1. CASE Evaluate
        BY <2>1 DEF Evaluate, Rewards, Within, Event, PlannedType
    <2>2. CASE EvaluationFails
        <3>1. UNCHANGED <<agenda, nextTick>>
            BY <2>2 DEF EvaluationFails
        <3> QED BY <1>2, <3>1, AgendaStays
    <2> QED BY <2>1, <2>2
<1>4. \E e : /\ Commit(e) /\ e.tick = nextTick
             /\ e.type \in {"task.evaluated", "violation.recorded"}
    BY DEF Evaluate, EvaluationFails, Evaluation, Event
<1>5. PICK e : /\ Commit(e) /\ e.tick = nextTick
               /\ e.type \in {"task.evaluated", "violation.recorded"}
    BY <1>4
<1>6. WellMade(e) /\ e.type \in LateType \ {"metrics.recorded", "tick.completed"}
    BY <1>5 DEF WellMade, LateType, EarlyType, EventType
<1> QED
    BY <1>2, <1>3, <1>5, <1>6, LateCommits

(* The metrics are written to the log and then to their file. *)
LEMMA MetricsRegular ==
    ASSUME Accounted, Regular, SkipMetrics \/ RecordMetrics \/ AppendMetrics
    PROVE  Regular'
<1>1. UNCHANGED <<scenario, nextTick, sequence, agenda>>
    BY DEF SkipMetrics, RecordMetrics, AppendMetrics, memory
<1>2. CASE SkipMetrics
    <2>1. /\ stage = "resolution" /\ stage' = "upkeep" /\ agenda = <<>>
          /\ UNCHANGED <<world, verifier, prev, saved, rows>>
        BY <1>2 DEF SkipMetrics, Evaluating, log
    <2>2. Steps /\ stage # "metrics" /\ stage \in Late
        BY <1>1, <2>1 DEF Steps, Late
    <2> QED BY <1>1, <2>1, <2>2, AgendaStays, LateWaits
<1>3. CASE RecordMetrics
    <2> DEFINE e == SystemEvent("metrics.recorded", nextTick, nextTick, NoData)
    <2>1. /\ stage = "resolution" /\ stage' = "metrics" /\ agenda = <<>> /\ Commit(e) /\ rows' = rows
        BY <1>3 DEF RecordMetrics, Evaluating
    <2>2. e.type = "metrics.recorded" /\ e.tick = nextTick
        BY DEF SystemEvent, Event
    <2> HIDE DEF e
    <2>3. WellMade(e) /\ e.type \in LateType /\ e.type # "tick.completed"
        BY <2>2 DEF WellMade, LateType, EarlyType, EventType
    <2>4. stage \in Late /\ rows = world.metrics
        BY <2>1 DEF Late, Regular, Counted
    <2>5. /\ Basic' /\ prev' # NoCause /\ saved'.tick < nextTick
          /\ world'.metrics = world.metrics + 1
          /\ Accepting' => /\ verifier'.started /\ verifier'.born = Agents
                           /\ sequence' = verifier'.sequence /\ ~ Ungenerated(verifier')
        BY <1>1, <2>1, <2>2, <2>3, <2>4, LateFollows
    <2>6. Counted'
        BY <2>1, <2>4, <2>5 DEF Counted
    <2>7. LateInTick'
        BY <1>1, <2>4, <2>5, AgendaStays DEF LateInTick, Ticking, OfTick
    <2> QED BY <1>1, <2>1, <2>5, <2>6, <2>7 DEF Regular, Over, Early, Late
<1>4. CASE AppendMetrics
    <2>1. /\ stage = "metrics" /\ stage' = "upkeep" /\ rows' = rows + 1
          /\ UNCHANGED <<world, verifier, prev, saved>>
        BY <1>4 DEF AppendMetrics, log
    <2>2. /\ world.metrics = rows + 1 /\ LateInTick /\ Basic /\ prev # NoCause /\ agenda = <<>>
        BY <2>1 DEF Regular, Counted, Late, Unwritten
    <2>3. Basic' /\ Counted'
        BY <1>1, <2>1, <2>2 DEF Counted, Basic
    <2>4. GenerationCount' = GenerationCount
        BY <2>1 DEF GenerationCount
    <2>5. LateInTick'
        BY <1>1, <2>1, <2>2, <2>4 DEF LateInTick, Ticking, OfTick, Accepting, Ahead
    <2> QED BY <1>1, <2>1, <2>2, <2>3, <2>5 DEF Regular, Over, Early, Late
<1> QED
    BY <1>2, <1>3, <1>4

(* The tick is over. *)
LEMMA CompleteTickRegular ==
    ASSUME Accounted, Regular, CompleteTick
    PROVE  Regular'
<1> DEFINE e == SystemEvent("tick.completed", nextTick, nextTick, NoData)
<1>1. /\ stage = "upkeep" /\ stage' \in {"checkpoint", "boundary"} /\ Commit(e)
      /\ nextTick' = nextTick + 1 /\ UNCHANGED <<scenario, rows, sequence, agenda>>
    BY DEF CompleteTick
<1>2. e.type = "tick.completed" /\ e.tick = nextTick
    BY DEF SystemEvent, Event
<1> HIDE DEF e
<1>3. WellMade(e) /\ e.type \in LateType
    BY <1>2 DEF WellMade, LateType, EarlyType, EventType
<1>4. stage \in Late /\ rows = world.metrics /\ agenda = <<>> /\ nextTick \in Nat
    BY <1>1 DEF Late, Regular, Counted, Basic
<1>5. /\ Basic' /\ prev' # NoCause /\ saved'.tick < nextTick /\ world'.tick = nextTick
      /\ world'.metrics = world.metrics
      /\ Accepting' => /\ verifier'.started /\ verifier'.born = Agents
                       /\ sequence' = verifier'.sequence /\ Between(verifier')
    BY <1>1, <1>2, <1>3, <1>4, LateFollows
<1>6. Accepting' => AtBoundary(verifier')
    BY <1>5 DEF AtBoundary, Between, Accepting
<1>7. saved'.tick \in Nat
    BY <1>5 DEF Basic
<1>8. Resting'
    BY <1>1, <1>4, <1>5, <1>6, <1>7 DEF Resting
<1>9. Counted'
    BY <1>1, <1>4, <1>5 DEF Counted
<1> QED
    BY <1>1, <1>4, <1>5, <1>8, <1>9 DEF Regular, Over, Early, Late

(* A checkpoint at the end of a tick: a good one of it is there afterwards. *)
LEMMA EmittedOf ==
    ASSUME Accounted, Regular, Resting, EmitCheckpoint
    PROVE  /\ saved'.tick = world.tick
           /\ Accepting => AtBoundary(verifier) /\ saved'.atEnd
                          /\ saved'.sequence = sequence /\ sequence = verifier.sequence
<1> DEFINE new == [tick |-> world.tick, sequence |-> sequence, atEnd |-> TRUE]
<1>1. saved' = IF saved.tick = world.tick /\ saved # NoCheckpoint THEN saved ELSE new
    BY DEF EmitCheckpoint
<1>2. new.tick = world.tick /\ new.sequence = sequence /\ new.atEnd
    OBVIOUS
<1> HIDE DEF new
<1> QED
    BY <1>1, <1>2 DEF Resting

(* The checkpoints of a run, a pause among them. *)
LEMMA CheckpointRegular ==
    ASSUME Accounted, Regular, PeriodicCheckpoint \/ Pause
    PROVE  Regular'
<1>1. /\ UNCHANGED <<scenario, world, verifier, prev, rows>> /\ EmitCheckpoint
      /\ agenda = <<>> /\ agenda' = <<>>
      /\ (stage = "boundary" /\ agenda = <<>>) \/ stage = "checkpoint"
    BY DEF PeriodicCheckpoint, Pause, Idle, log, memory, Forget, Regular
<1>2. Resting /\ Basic /\ rows = world.metrics /\ prev # NoCause
    BY <1>1 DEF Regular, Counted, Unwritten
<1>3. /\ saved'.tick = world.tick
      /\ Accepting => AtBoundary(verifier) /\ saved'.atEnd
                     /\ saved'.sequence = sequence /\ sequence = verifier.sequence
    BY <1>1, <1>2, EmittedOf
<1>4. Accepting' <=> Accepting
    BY <1>1 DEF Accepting
<1>5. CASE PeriodicCheckpoint
    <2>1. stage' = "boundary" /\ UNCHANGED <<nextTick, sequence>>
        BY <1>5 DEF PeriodicCheckpoint, memory
    <2>2. Basic' /\ Counted'
        BY <1>1, <1>2, <1>3, <2>1 DEF Basic, Counted
    <2>3. Resting'
        BY <1>1, <1>2, <1>3, <1>4, <2>1 DEF Resting, Basic
    <2> QED BY <1>1, <1>2, <2>1, <2>2, <2>3 DEF Regular, Over, Early, Late
<1>6. CASE Pause
    <2>1. stage' = "paused" /\ nextTick' = 0
        BY <1>6 DEF Pause, Forget
    <2>2. Basic' /\ Counted'
        BY <1>1, <1>2, <1>3, <2>1 DEF Basic, Counted
    <2>3. Paused'
        BY <1>1, <1>3, <1>4 DEF Paused
    <2> QED BY <1>1, <1>2, <2>1, <2>2, <2>3 DEF Regular, Over, Early, Late
<1> QED
    BY <1>5, <1>6

(* The end of the run, or of the process. *)
LEMMA EndRegular ==
    ASSUME Accounted, Regular, CompleteRun \/ FinishRun \/ Crash
    PROVE  Regular'
<1>1. CASE CompleteRun
    <2> DEFINE e == SystemEvent("run.completed", Ticks, Ticks, NoData)
    <2>1. /\ stage = "boundary" /\ agenda = <<>> /\ stage' = "completed" /\ Commit(e)
          /\ UNCHANGED <<scenario, rows, nextTick, agenda>>
        BY <1>1 DEF CompleteRun, Idle, memory
    <2>2. e.type = "run.completed" /\ e.tick \in Nat
        BY LabAssumption DEF SystemEvent, Event
    <2> HIDE DEF e
    <2>3. WellMade(e) /\ e.type # "metrics.recorded"
        BY <2>2 DEF WellMade, EventType
    <2>4. Basic /\ rows = world.metrics
        BY <2>1 DEF Regular, Counted
    <2>5. /\ Tasked(world') /\ ShapeOfVerifier(verifier') /\ prev' # NoCause
          /\ saved'.tick = saved.tick /\ world'.metrics = world.metrics /\ world'.tick \in Nat
        BY <2>1, <2>2, <2>3, <2>4, CommitFollows
    <2>6. Basic' /\ Counted'
        BY <2>1, <2>4, <2>5 DEF Basic, Counted
    <2> QED BY <2>1, <2>5, <2>6 DEF Regular, Over, Early, Late
<1>2. CASE FinishRun
    <2>1. /\ stage = "completed" /\ stage' \in {"done", "failed"} /\ EmitCheckpoint
          /\ agenda' = <<>> /\ nextTick' = 0
          /\ UNCHANGED <<scenario, world, verifier, prev, rows>>
        BY <1>2 DEF FinishRun, Forget, log
    <2>2. Basic /\ prev # NoCause
        BY <2>1 DEF Regular, Unwritten
    <2>3. saved'.tick \in Nat
        BY <2>1, <2>2 DEF EmitCheckpoint, Basic
    <2>4. Basic' /\ Counted'
        BY <2>1, <2>2, <2>3 DEF Basic, Counted
    <2> QED BY <2>1, <2>2, <2>4 DEF Regular, Over, Early, Late
<1>3. CASE Crash
    <2>1. /\ stage \notin Over /\ stage' = "down" /\ agenda' = <<>> /\ nextTick' = 0
          /\ UNCHANGED <<scenario, world, verifier, prev, saved, rows>>
        BY <1>3 DEF Crash, Forget, log
    <2>2. Basic' /\ Counted' /\ (prev' = NoCause => Unwritten')
        BY <2>1 DEF Basic, Counted, Regular, Unwritten
    <2> QED BY <2>1, <2>2 DEF Regular, Over, Early, Late
<1> QED
    BY <1>1, <1>2, <1>3

(* The events of the genesis: a start, and a birth for each agent. *)
LEMMA GenesisListed ==
    /\ Len(GenesisEvents) = Agents + 1 /\ GenesisEvents # <<>>
    /\ \A i \in DOMAIN GenesisEvents :
        GenesisEvents[i].tick = 0 /\ GenesisEvents[i].type \in {"run.started", "agent.created"}
<1> DEFINE start == SystemEvent("run.started", 0, 0, [treasury |-> TreasuryResources])
           births == [a \in Agent |-> Event("agent.created", 0, a, Nobody, 0, NoCause,
                                            [resources |-> InitialResources])]
           all == <<start>> \o births
           First(e) == e.tick = 0 /\ e.type \in {"run.started", "agent.created"}
<1>1. First(start) /\ \A a \in Agent : First(births[a])
    BY DEF SystemEvent, Event
<1>2. births \in [1 .. Agents -> {births[a] : a \in Agent}] /\ Agents \in Nat /\ DOMAIN births = Agent
    BY LabAssumption DEF Agent
<1>3. GenesisEvents = all
    BY DEF GenesisEvents
<1> HIDE DEF start, births
<1>4. IsList(births) /\ Len(births) = Agents
    BY <1>2, ListOf
<1>5. IsList(<<start>>) /\ Len(<<start>>) = 1 /\ DOMAIN <<start>> = {1} /\ <<start>>[1] = start
    BY FewMade
<1> DEFINE one == <<start>>
<1> HIDE DEF one, First
<1>6. /\ IsList(all) /\ Len(all) = Len(one) + Len(births)
      /\ \A i \in DOMAIN all :
            IF i <= Len(one) THEN i \in DOMAIN one /\ all[i] = one[i]
            ELSE i - Len(one) \in DOMAIN births /\ all[i] = births[i - Len(one)]
    BY <1>4, <1>5, ListJoin DEF one
<1> HIDE DEF all
<1>7. \A i \in DOMAIN all : First(all[i])
    BY <1>1, <1>2, <1>5, <1>6 DEF one
<1>8. Len(all) = Agents + 1 /\ all # <<>>
    <2>1. Len(all) = Agents + 1
        BY <1>2, <1>4, <1>5, <1>6 DEF one
    <2>2. Len(all) # 0
        BY <1>2, <2>1
    <2> QED BY <1>6, <2>1, <2>2, ListPlaces
<1> QED
    BY <1>3, <1>7, <1>8 DEF First

(* What a run opens with. *)
LEMMA Opens ==
    /\ Tasked(InitialWorld) /\ InitialWorld.tick = 0 /\ InitialWorld.metrics = 0
    /\ ShapeOfVerifier(NewVerifier) /\ NewVerifier.tick = 0 /\ NewVerifier.sequence = 0
    /\ NewVerifier.born = 0 /\ ~ NewVerifier.started
    /\ NoCheckpoint.tick = 0 /\ Agents \in Nat
<1>1. InitialWorld.task = [t \in Task |-> NoTask] /\ InitialWorld.tick = 0 /\ InitialWorld.metrics = 0
    BY DEF InitialWorld
<1>2. TaskRecord(NoTask)
    BY DEF TaskRecord, NoTask, Standing
<1>3. Tasked(InitialWorld)
    BY <1>1, <1>2 DEF Tasked
<1>4. /\ NewVerifier.tick = 0 /\ NewVerifier.sequence = 0 /\ NewVerifier.born = 0
      /\ ~ NewVerifier.started /\ NewVerifier.generated = NotYet
    BY DEF NewVerifier
<1>5. ShapeOfVerifier(NewVerifier)
    <2>1. NotYet = [known |-> NotYet.known, left |-> NotYet.left]
        BY DEF NotYet
    <2>2. NewVerifier.generated = [known |-> NewVerifier.generated.known,
                                   left |-> NewVerifier.generated.left]
        BY <1>4, <2>1
    <2>3. NewVerifier =
            [started |-> NewVerifier.started, born |-> NewVerifier.born, tick |-> NewVerifier.tick,
             rank |-> NewVerifier.rank, tickCompleted |-> NewVerifier.tickCompleted,
             metricsSeen |-> NewVerifier.metricsSeen, completed |-> NewVerifier.completed,
             pressures |-> NewVerifier.pressures, expiries |-> NewVerifier.expiries,
             generated |-> NewVerifier.generated, sequence |-> NewVerifier.sequence,
             records |-> NewVerifier.records, schedule |-> NewVerifier.schedule,
             payment |-> NewVerifier.payment, chain |-> NewVerifier.chain,
             submissions |-> NewVerifier.submissions, rewards |-> NewVerifier.rewards,
             oracles |-> NewVerifier.oracles, refused |-> NewVerifier.refused]
        BY DEF NewVerifier
    <2> QED BY <2>2, <2>3 DEF ShapeOfVerifier
<1>6. NoCheckpoint.tick = 0 /\ Agents \in Nat
    BY LabAssumption DEF NoCheckpoint
<1> QED
    BY <1>1, <1>3, <1>4, <1>5, <1>6

(* It opens so at first, *)
LEMMA InitRegular == UniverseInit => Regular
<1> SUFFICES ASSUME UniverseInit PROVE Regular
    OBVIOUS
<1>1. /\ world = InitialWorld /\ verifier = NewVerifier /\ saved = NoCheckpoint /\ rows = 0
      /\ stage = "boundary" /\ agenda = GenesisEvents /\ nextTick = 1 /\ sequence = 0
    BY DEF UniverseInit
<1>2. Basic /\ Opening /\ world.metrics = 0 /\ agenda # <<>>
    BY <1>1, Opens, GenesisListed DEF Basic, Opening
<1>3. Counted /\ Unwritten
    BY <1>1, <1>2 DEF Counted, Unwritten
<1> QED
    BY <1>1, <1>2, <1>3 DEF Regular, Over, Early, Late

(* and when nothing is left of an earlier start; what else is left is either *)
(* taken up at the end of a tick or not at all.                              *)
LEMMA RecoverRegular ==
    ASSUME Accounted, Regular, Recover
    PROVE  Regular'
<1>1. /\ stage \in {"paused", "down"} /\ UNCHANGED <<scenario, world, verifier, prev, saved, rows>>
      /\ Basic /\ agenda = <<>>
    BY DEF Recover, log, Regular, Over
<1>2. CASE prev = NoCause
    <2>1. stage' = "boundary" /\ agenda' = GenesisEvents /\ nextTick' = 1 /\ sequence' = 0
        BY <1>2 DEF Recover
    <2>2. Unwritten
        BY <1>2 DEF Regular
    <2>3. Basic' /\ Opening' /\ world'.metrics = 0 /\ agenda' # <<>>
        <3>1. /\ world' = InitialWorld /\ verifier' = NewVerifier /\ saved' = NoCheckpoint
            BY <1>1, <2>2 DEF Unwritten
        <3> QED BY <2>1, <3>1, Opens, GenesisListed DEF Basic, Opening
    <2> QED BY <1>1, <2>1, <2>2, <2>3 DEF Regular, Unwritten, Counted, Over, Early, Late
<1>3. CASE prev # NoCause /\ ~ world.completed /\ Resumable /\ Restorable
    <2>1. /\ stage' = "boundary" /\ agenda' = agenda
          /\ nextTick' = saved.tick + 1 /\ sequence' = saved.sequence
        BY <1>3 DEF Recover, RestoreFromCheckpoint
    <2>2. /\ AtBoundary(verifier) /\ rows = world.metrics
          /\ saved.atEnd /\ saved.sequence = verifier.sequence /\ saved.tick = world.tick
        BY <1>3 DEF Resumable, Restorable
    <2>3. Basic' /\ Counted' /\ Resting'
        BY <1>1, <2>1, <2>2 DEF Basic, Counted, Resting
    <2> QED BY <1>1, <1>3, <2>1, <2>3 DEF Regular, Over, Early, Late
<1>4. CASE prev # NoCause /\ ~ (~ world.completed /\ Resumable /\ Restorable)
    <2>1. stage' \in {"done", "conflict"} /\ agenda' = agenda /\ nextTick' = nextTick
        BY <1>4 DEF Recover
    <2>2. Basic' /\ Counted'
        BY <1>1, <2>1 DEF Basic, Counted
    <2> QED BY <1>1, <1>4, <2>1, <2>2 DEF Regular, Over, Early, Late
<1> QED
    BY <1>2, <1>3, <1>4

(* Nothing else changes what an invariant says. *)
LEMMA StutterRegular == Regular /\ UNCHANGED universeVars => Regular'
<1> SUFFICES ASSUME Regular, UNCHANGED universeVars PROVE Regular'
    OBVIOUS
<1>1. UNCHANGED <<scenario, world, verifier, prev, saved, rows, stage, nextTick, sequence, agenda>>
    BY DEF universeVars, log, memory
<1>2. (Basic <=> Basic') /\ (Counted <=> Counted') /\ (Unwritten <=> Unwritten')
    BY <1>1 DEF Basic, Counted, Unwritten
<1>3. (Accepting <=> Accepting') /\ (Ahead <=> Ahead')
    BY <1>1 DEF Accepting, Ahead, GenerationCount, Open
<1>4. (Opening <=> Opening') /\ (Resting <=> Resting') /\ (Paused <=> Paused')
    BY <1>1, <1>3 DEF Opening, Resting, Paused
<1>5. (EarlyInTick <=> EarlyInTick') /\ (LateInTick <=> LateInTick')
    BY <1>1, <1>3 DEF EarlyInTick, LateInTick, Ticking, OfTick
<1> QED
    BY <1>1, <1>2, <1>4, <1>5 DEF Regular

(* So every step keeps it, *)
LEMMA NextRegular == Accounted /\ Regular /\ [UniverseNext]_universeVars => Regular'
<1> SUFFICES ASSUME Accounted, Regular, [UniverseNext]_universeVars PROVE Regular'
    OBVIOUS
<1>1. CASE UNCHANGED universeVars
    BY <1>1, StutterRegular
<1>2. CASE Genesis \/ BeginTick \/ CommitPressure \/ CommitExpiry \/ BeginExpiry \/ BeginGeneration
    BY <1>2, GenesisRegular, BeginTickRegular, EarlyRegular, BeginExpiryRegular,
       BeginGenerationRegular
<1>3. CASE \/ CommitTask \/ CommitRecord \/ CommitPolicyError \/ Reward \/ Consult \/ DecideAll
           \/ Skip \/ CostUnavailable \/ Pay
    BY <1>3, LateNextRegular, DeterminedRegular, PaymentRegular
<1>4. CASE \/ ActSilently \/ ActFails \/ Act \/ Deliver \/ UseLink \/ Evaluate \/ EvaluationFails
    BY <1>4, ActRegular, EvaluateRegular
<1>5. CASE SkipMetrics \/ RecordMetrics \/ AppendMetrics \/ CompleteTick
    BY <1>5, MetricsRegular, CompleteTickRegular
<1>6. CASE PeriodicCheckpoint \/ Pause \/ CompleteRun \/ FinishRun \/ Crash \/ Recover
    BY <1>6, CheckpointRegular, EndRegular, RecoverRegular
<1> QED
    BY <1>1, <1>2, <1>3, <1>4, <1>5, <1>6 DEF UniverseNext, Work

(* and at a pause it says what is stated of it. *)
LEMMA RegularPauses == Regular => PauseIsResumable
BY DEF Regular, Counted, Paused, Accepting, PauseIsResumable

(* A paused run passes the checks of recoverExistingRun                       *)
(* (src/lab/genesis.ts:157): unless the verifier refused something, its log ends *)
(* at a checkpoint of the tick that is over, with the place in the task       *)
(* stream that the verifier's regeneration is at, and there is a row of       *)
(* metrics for every metrics event - whatever crashes, pauses and recoveries  *)
(* came before.                                                               *)
THEOREM APauseCanBeResumed == UniverseSpec => []PauseIsResumable
<1>1. UniverseInit => Accounted /\ Regular
    BY InitAccounted, InitRegular
<1>2. Accounted /\ Regular /\ [UniverseNext]_universeVars => Accounted' /\ Regular'
    BY NextAccounted, NextRegular
<1>3. Regular => PauseIsResumable
    BY RegularPauses
<1> QED
    BY <1>1, <1>2, <1>3, PTL DEF UniverseSpec


-----------------------------------------------------------------------------
(* What the engine determined stays legal.                                    *)

TaskType == {"task.created", "task.expired", "task.claimed", "task.submitted", "task.evaluated"}

\* What an event makes of the rest of a world.
Moves(u, w, e) ==
    /\ u.started = (IF e.type = "run.started" THEN TRUE ELSE w.started)
    /\ u.completed = (IF e.type = "run.completed" THEN TRUE ELSE w.completed)
    /\ u.born = IF e.type = "agent.created" THEN w.born + 1 ELSE w.born
    /\ u.active = IF e.type = "agent.created" THEN w.active \union {e.actor}
                  ELSE IF e.type = "agent.retired" THEN w.active \ {e.actor} ELSE w.active
    /\ e.type \notin {"link.created", "link.removed"} => u.links = w.links
    /\ u.message = IF e.type = "message.sent"
                   THEN [stage |-> "sent", from |-> e.actor, to |-> e.target]
                   ELSE IF e.type = "message.delivered"
                   THEN [w.message EXCEPT !.stage = "delivered"]
                   ELSE IF e.type = "link.used" THEN NoMessage ELSE w.message
    /\ e.type \notin TaskType => u.task = w.task
    /\ e.type \in TaskType => u.treasury = w.treasury
    /\ e.type = "resource.transferred" /\ e.actor = Treasury =>
        u.treasury = [w.treasury EXCEPT ![e.data.kind] = @ - e.data.amount]

LEMMA WorldMoves ==
    ASSUME NEW w, ShapeOfWorld(w), NEW e, e.type \in EventType
    PROVE  Moves(Mutated(w, e), w, e) /\ ShapeOfWorld(Mutated(w, e))
<1> DEFINE u == Mutated(w, e)
           Goal(v) == Moves(v, w, e) /\ ShapeOfWorld(v)
           Still(v) ==
               /\ ShapeOfWorld(v)
               /\ v.started = w.started /\ v.completed = w.completed /\ v.born = w.born
               /\ v.active = w.active /\ v.links = w.links /\ v.message = w.message
<1>1. CASE e.type = "run.started"
    <2>1. u = [w EXCEPT !.started = TRUE, !.treasury = e.data.treasury]
        BY <1>1 DEF Mutated
    <2> QED BY <1>1, <2>1 DEF ShapeOfWorld, Moves, TaskType
<1>2. CASE e.type = "agent.created"
    <2>1. u = [w EXCEPT !.born = @ + 1, !.active = @ \union {e.actor},
                        !.balance[e.actor] = e.data.resources]
        BY <1>2 DEF Mutated
    <2> QED BY <1>2, <2>1 DEF ShapeOfWorld, Moves, TaskType
<1>3. CASE e.type = "agent.retired"
    <2>1. u = [w EXCEPT !.active = @ \ {e.actor}]
        BY <1>3 DEF Mutated
    <2> QED BY <1>3, <2>1 DEF ShapeOfWorld, Moves, TaskType
<1>4. CASE e.type = "run.completed"
    <2>1. u = [w EXCEPT !.completed = TRUE]
        BY <1>4 DEF Mutated
    <2> QED BY <1>4, <2>1 DEF ShapeOfWorld, Moves, TaskType
<1>5. CASE e.type \in {"link.created", "link.removed"}
    <2>1. \E l : u = [w EXCEPT !.links = l]
        BY <1>5 DEF Mutated
    <2>2. PICK l : u = [w EXCEPT !.links = l]
        BY <2>1
    <2> HIDE DEF u
    <2>3. Moves(u, w, e)
        BY <1>5, <2>2 DEF ShapeOfWorld, Moves, TaskType
    <2>4. ShapeOfWorld(u)
        BY <2>2 DEF ShapeOfWorld
    <2> QED BY <2>3, <2>4 DEF u
<1>6. CASE e.type \in {"message.sent", "message.delivered", "link.used"}
    <2> DEFINE m == IF e.type = "message.sent"
                    THEN [stage |-> "sent", from |-> e.actor, to |-> e.target]
                    ELSE IF e.type = "message.delivered"
                    THEN [w.message EXCEPT !.stage = "delivered"] ELSE NoMessage
    <2>1. u = [w EXCEPT !.message = m]
        BY <1>6 DEF Mutated
    <2>2. m = IF e.type = "message.sent"
              THEN [stage |-> "sent", from |-> e.actor, to |-> e.target]
              ELSE IF e.type = "message.delivered"
              THEN [w.message EXCEPT !.stage = "delivered"]
              ELSE IF e.type = "link.used" THEN NoMessage ELSE w.message
        BY <1>6
    <2> HIDE DEF u, m
    <2>3. ShapeOfWorld(u) /\ u.message = m
        BY <2>1 DEF ShapeOfWorld
    <2>4. /\ u.started = w.started /\ u.completed = w.completed /\ u.born = w.born
          /\ u.active = w.active /\ u.links = w.links /\ u.task = w.task
        BY <2>1 DEF ShapeOfWorld
    <2>5. Moves(u, w, e)
        BY <1>6, <2>2, <2>3, <2>4 DEF Moves, TaskType
    <2> QED BY <2>3, <2>5 DEF u
<1>7. CASE e.type = "resource.transferred"
    <2>1. u = Transferred(w, e)
        BY <1>7 DEF Mutated
    <2> DEFINE v == Transferred(w, e)
    <2>2. Still(v) /\ v.task = w.task
        BY DEF Transferred, ShapeOfWorld
    <2>3. e.actor = Treasury => v.treasury = [w.treasury EXCEPT ![e.data.kind] = @ - e.data.amount]
        BY DEF Transferred, ShapeOfWorld
    <2> HIDE DEF v
    <2>4. Goal(v)
        BY <1>7, <2>2, <2>3 DEF Moves, TaskType
    <2> QED BY <2>1, <2>4 DEF v
<1>8. CASE e.type = "capability.used"
    <2>1. u = Paid(w, e)
        BY <1>8 DEF Mutated
    <2> DEFINE v == Paid(w, e)
    <2>2. Still(v) /\ v.task = w.task
        BY DEF Paid, ShapeOfWorld
    <2> HIDE DEF v
    <2>3. Goal(v)
        BY <1>8, <2>2 DEF Moves, TaskType
    <2> QED BY <2>1, <2>3 DEF v
<1>9. CASE e.type \in {"pressure.applied", "memory.stored", "submission.verified",
                       "resource.spent", "capability.published", "metrics.recorded",
                       "memory.retrieved", "cognition.recorded", "violation.recorded",
                       "tick.completed"}
    <2>1. Still(u) /\ u.task = w.task
        <3>1. CASE e.type \in {"pressure.applied", "memory.stored", "submission.verified",
                               "resource.spent"}
            BY <3>1 DEF Mutated, ShapeOfWorld
        <3>2. CASE e.type \in {"capability.published", "metrics.recorded"}
            BY <3>2 DEF Mutated, ShapeOfWorld
        <3>3. CASE e.type \in {"memory.retrieved", "cognition.recorded", "violation.recorded",
                               "tick.completed"}
            BY <3>3 DEF Mutated, ShapeOfWorld
        <3> QED BY <1>9, <3>1, <3>2, <3>3
    <2> HIDE DEF u
    <2>2. Goal(u)
        BY <1>9, <2>1 DEF Moves, TaskType
    <2> QED BY <2>2 DEF u
<1>10. CASE e.type \in TaskType
    <2>3. Still(u) /\ u.treasury = w.treasury
        <3>1. CASE e.type = "task.created"
            BY <3>1 DEF Mutated, ShapeOfWorld
        <3>2. CASE e.type = "task.expired"
            BY <3>2 DEF Mutated, ShapeOfWorld
        <3>3. CASE e.type = "task.claimed"
            BY <3>3 DEF Mutated, ShapeOfWorld
        <3>4. CASE e.type = "task.submitted"
            BY <3>4 DEF Mutated, ShapeOfWorld
        <3>5. CASE e.type = "task.evaluated"
            BY <3>5 DEF Mutated, ShapeOfWorld
        <3> QED BY <1>10, <3>1, <3>2, <3>3, <3>4, <3>5 DEF TaskType
    <2> HIDE DEF u
    <2>4. Goal(u)
        BY <1>10, <2>3 DEF Moves, TaskType
    <2> QED BY <2>4 DEF u
<1> QED
    BY <1>1, <1>2, <1>3, <1>4, <1>5, <1>6, <1>7, <1>8, <1>9, <1>10 DEF EventType, TaskType

\* What it makes of the task it is about.
Takes(u, w, e) ==
    LET t == e.about
        r == u.task[t]
    IN /\ \A x \in Task : x # t => u.task[x] = w.task[x]
       /\ t \in Task =>
            /\ r.status = CASE e.type = "task.created" -> "available"
                            [] e.type = "task.expired" -> "expired"
                            [] e.type = "task.claimed" -> "claimed"
                            [] e.type = "task.submitted" -> "submitted"
                            [] e.type = "task.evaluated" -> "completed"
            /\ e.type = "task.claimed" => r.by = e.actor
            /\ e.type \in {"task.submitted", "task.evaluated"} => r.by = w.task[t].by
            /\ e.type = "task.evaluated" => r.accepted = e.data.accepted

LEMMA TaskTaken ==
    ASSUME NEW w, ShapeOfWorld(w), Tasked(w), NEW e, e.type \in TaskType
    PROVE  Takes(Mutated(w, e), w, e)
<1> DEFINE u == Mutated(w, e)
           t == e.about
           f == w.task
           r == f[t]
           status == CASE e.type = "task.created" -> "available"
                       [] e.type = "task.expired" -> "expired"
                       [] e.type = "task.claimed" -> "claimed"
                       [] e.type = "task.submitted" -> "submitted"
                       [] e.type = "task.evaluated" -> "completed"
           Right(q) ==
               /\ q.status = status
               /\ e.type = "task.claimed" => q.by = e.actor
               /\ e.type \in {"task.submitted", "task.evaluated"} => q.by = r.by
               /\ e.type = "task.evaluated" => q.accepted = e.data.accepted
<1>1. f = [x \in Task |-> f[x]] /\ (t \in Task => TaskRecord(r))
    BY DEF Tasked
<1>7. ASSUME NEW q, \A x \in Task : u.task[x] = IF x = t THEN q ELSE f[x], t \in Task => Right(q)
      PROVE  Takes(u, w, e)
    <2> HIDE DEF u, f
    <2> QED BY <1>7 DEF Takes, f
<1>2. CASE e.type = "task.created"
    <2> DEFINE q == [NoTask EXCEPT !.status = "available", !.created = e.tick]
    <2>1. u = [w EXCEPT !.task[t] = [NoTask EXCEPT !.status = "available", !.created = e.tick]]
        BY <1>2 DEF Mutated
    <2>2. u.task = [f EXCEPT ![t] = q]
        BY <2>1 DEF ShapeOfWorld
    <2>3. t \in Task => Right(q)
        BY <1>1, <1>2 DEF NoTask
    <2> HIDE DEF u
    <2>4. \A x \in Task : u.task[x] = IF x = t THEN q ELSE f[x]
        <3> HIDE DEF f
        <3> QED BY <1>1, <2>2
    <2> HIDE DEF q, f
    <2> QED BY <1>7, <2>3, <2>4 DEF u
<1>3. CASE e.type = "task.expired"
    <2> DEFINE q == [r EXCEPT !.status = "expired"]
    <2>1. u = [w EXCEPT !.task[t].status = "expired"]
        BY <1>3 DEF Mutated
    <2>2. u.task = [f EXCEPT ![t].status = "expired"]
        BY <2>1 DEF ShapeOfWorld
    <2>3. t \in Task => Right(q)
        BY <1>1, <1>3 DEF TaskRecord
    <2> HIDE DEF u
    <2>4. \A x \in Task : u.task[x] = IF x = t THEN q ELSE f[x]
        <3> HIDE DEF f
        <3> QED BY <1>1, <2>2
    <2> HIDE DEF q, f
    <2> QED BY <1>7, <2>3, <2>4 DEF u
<1>4. CASE e.type = "task.claimed"
    <2> DEFINE q == [r EXCEPT !.status = "claimed", !.by = e.actor]
    <2>1. u = [w EXCEPT !.task[t].status = "claimed", !.task[t].by = e.actor]
        BY <1>4 DEF Mutated
    <2>2. u.task = [f EXCEPT ![t].status = "claimed", ![t].by = e.actor]
        BY <2>1 DEF ShapeOfWorld
    <2>3. t \in Task => Right(q)
        BY <1>1, <1>4 DEF TaskRecord
    <2> HIDE DEF u
    <2>4. \A x \in Task : u.task[x] = IF x = t THEN q ELSE f[x]
        <3> HIDE DEF f
        <3> QED BY <1>1, <2>2
    <2> HIDE DEF q, f
    <2> QED BY <1>7, <2>3, <2>4 DEF u
<1>5. CASE e.type = "task.submitted"
    <2> DEFINE q == [r EXCEPT !.status = "submitted", !.result = e.data.result]
    <2>1. u = [w EXCEPT !.task[t].status = "submitted", !.task[t].result = e.data.result]
        BY <1>5 DEF Mutated
    <2>2. u.task = [f EXCEPT ![t].status = "submitted", ![t].result = e.data.result]
        BY <2>1 DEF ShapeOfWorld
    <2>3. t \in Task => Right(q)
        BY <1>1, <1>5 DEF TaskRecord
    <2> HIDE DEF u
    <2>4. \A x \in Task : u.task[x] = IF x = t THEN q ELSE f[x]
        <3> HIDE DEF f
        <3> QED BY <1>1, <2>2
    <2> HIDE DEF q, f
    <2> QED BY <1>7, <2>3, <2>4 DEF u
<1>6. CASE e.type = "task.evaluated"
    <2> DEFINE q == [r EXCEPT !.status = "completed", !.accepted = e.data.accepted]
    <2>1. u = [w EXCEPT !.task[t].status = "completed", !.task[t].accepted = e.data.accepted]
        BY <1>6 DEF Mutated
    <2>2. u.task = [f EXCEPT ![t].status = "completed", ![t].accepted = e.data.accepted]
        BY <2>1 DEF ShapeOfWorld
    <2>3. t \in Task => Right(q)
        BY <1>1, <1>6 DEF TaskRecord
    <2> HIDE DEF u
    <2>4. \A x \in Task : u.task[x] = IF x = t THEN q ELSE f[x]
        <3> HIDE DEF f
        <3> QED BY <1>1, <2>2
    <2> HIDE DEF q, f
    <2> QED BY <1>7, <2>3, <2>4 DEF u
<1> QED
    BY <1>2, <1>3, <1>4, <1>5, <1>6 DEF TaskType

(* What an append does. *)
LEMMA CommitMoves ==
    ASSUME Accounted, Basic, NEW e, WellMade(e), Commit(e)
    PROVE  /\ Legal(world, e, prev) /\ Moves(world', world, e) /\ world'.tick = e.tick
           /\ e.type \in TaskType => Takes(world', world, e)
           /\ ~ saved'.atEnd /\ saved'.sequence = saved.sequence
<1> DEFINE m == Mutated(world, e)
<1>1. /\ Legal(world, e, prev) /\ world' = Applied(world, e)
      /\ saved' = [saved EXCEPT !.atEnd = FALSE]
    BY DEF Commit
<1>2. ShapeOfWorld(world) /\ e.type \in EventType /\ Tasked(world)
    BY DEF Accounted, Conserved, WellMade, Basic
<1>3. Moves(m, world, e) /\ ShapeOfWorld(m) /\ (e.type \in TaskType => Takes(m, world, e))
    BY <1>2, WorldMoves, TaskTaken
<1>4. world' = [m EXCEPT !.tick = e.tick]
    BY <1>1 DEF Applied
<1> HIDE DEF m
<1>5. /\ world'.tick = e.tick
      /\ world'.started = m.started /\ world'.completed = m.completed /\ world'.born = m.born
      /\ world'.active = m.active /\ world'.links = m.links /\ world'.message = m.message
      /\ world'.task = m.task /\ world'.treasury = m.treasury
    BY <1>3, <1>4 DEF ShapeOfWorld
<1>6. Moves(world', world, e)
    BY <1>3, <1>5 DEF Moves
<1>7. e.type \in TaskType => Takes(world', world, e)
    BY <1>3, <1>5 DEF Takes
<1>8. ~ saved'.atEnd /\ saved'.sequence = saved.sequence
    BY <1>1 DEF Accounted, Checkpoint
<1> QED
    BY <1>1, <1>5, <1>6, <1>7, <1>8

-----------------------------------------------------------------------------
(* The invariant.                                                             *)

\* No event comes after its time.
Timely ==
    /\ world.tick <= Ticks
    /\ stage \notin Over => world.tick <= nextTick
    /\ stage \in Early \union Late => nextTick <= Ticks

\* Whether the run has started, and is over.
InRun ==
    /\ stage \notin Over \union {"completed"} => ~ world.completed
    /\ stage \in {"checkpoint"} \union Early \union Late \/ (stage = "boundary" /\ agenda = <<>>)
            => world.started

\* No task with a greater number is generated.
NoneAfter(n) == \A t \in Task : t > n => world.task[t].status = "none"

\* The engine's place in the task stream, also that of a checkpoint after
\* which nothing is written, is past every task there is.
Numbered ==
    /\ sequence \in Nat /\ saved.sequence \in Nat
    /\ saved.atEnd => NoneAfter(saved.sequence)
    /\ stage \notin Over =>
        NoneAfter(IF stage = "generation" THEN sequence - Len(agenda) ELSE sequence)

\* The agenda: who is missing, in their order;
Births ==
    \A i \in DOMAIN agenda :
        LET e == agenda[i]
        IN IF ~ world.started /\ i = 1 THEN e.type = "run.started"
           ELSE e.type = "agent.created"
                /\ e.actor = IF world.started THEN world.born + i ELSE i - 1

\* pressures, and agents that are there, each retired once;
Retiring ==
    /\ \A i \in DOMAIN agenda : agenda[i].type \in {"pressure.applied", "agent.retired"}
    /\ \A i \in DOMAIN agenda : agenda[i].type = "agent.retired" =>
        agenda[i].actor \in world.active /\ agenda[i].cause # NoCause
    /\ \A i, j \in DOMAIN agenda :
        /\ agenda[i].type = "agent.retired" /\ agenda[j].type = "agent.retired"
        /\ agenda[i].actor = agenda[j].actor
        => i = j

\* tasks that are overdue, each once;
Expiring ==
    /\ \A i \in DOMAIN agenda :
        LET t == agenda[i].about
        IN /\ agenda[i].type = "task.expired" /\ t \in Task
           /\ world.task[t].status \in {"available", "claimed"} /\ Overdue(world, t, nextTick)
    /\ \A i, j \in DOMAIN agenda : agenda[i].about = agenda[j].about => i = j

\* the next of the stream;
Creating ==
    \A i \in DOMAIN agenda :
        /\ agenda[i].type = "task.created" /\ agenda[i].about \in Task
        /\ agenda[i].about = sequence - Len(agenda) + i

\* the errors of agents that are there;
Failing ==
    \A i \in DOMAIN agenda :
        agenda[i].type = "violation.recorded" /\ agenda[i].actor \in world.active

\* the rewards of an accepted task, one of each kind.
Rewarding ==
    /\ agenda # <<>> => decisions = <<>>
    /\ \A i \in DOMAIN agenda :
        LET e == agenda[i]
            t == e.about
        IN /\ e.type = "resource.transferred" /\ e.actor = Treasury /\ e.target \in world.active
           /\ t \in Task /\ world.task[t].status = "completed" /\ world.task[t].accepted
           /\ e.target = world.task[t].by /\ e.cause = <<"task.evaluated", e.target, t>>
           /\ e.data.amount > 0 /\ world.treasury[e.data.kind] >= e.data.amount
    /\ \A i, j \in DOMAIN agenda : agenda[i].data.kind = agenda[j].data.kind => i = j

Listed ==
    /\ stage = "boundary" => Births
    /\ stage = "pressure" => Retiring
    /\ stage = "expiry" => Expiring
    /\ stage = "generation" => Creating
    /\ stage = "cognition" => \A i \in DOMAIN agenda : agenda[i].type = "cognition.recorded"
    /\ stage = "decided" => Failing
    /\ stage = "resolution" => Rewarding
    /\ stage \in {"paid", "sent", "delivered", "metrics", "upkeep", "checkpoint", "completed"}
            \union Over
        => agenda = <<>>

\* What is to be evaluated: submissions of this tick, each once.
Submissions ==
    /\ IsList(pending)
    /\ stage \notin {"resolution", "paid", "sent", "delivered"} => pending = <<>>
    /\ \A i \in DOMAIN pending :
        LET t == pending[i]
        IN /\ t \in Task /\ world.task[t].status = "submitted" /\ world.task[t].by \in world.active
    /\ \A i, j \in DOMAIN pending : pending[i] = pending[j] => i = j

\* A message on its way is that of the decision that is paid for.
Message(way) == [stage |-> way, from |-> current.actor, to |-> current.action.ref]

Sending ==
    /\ stage = "sent" =>
        /\ current.actor \in world.active
        /\ current.action.ref \in world.active \ {current.actor}
        /\ Linked(world, current.actor, current.action.ref)
        /\ world.message = Message("sent")
    /\ stage = "delivered" => world.message = Message("delivered")

Lawful == Timely /\ InRun /\ Numbered /\ Listed /\ Submissions /\ Sending

(* Nobody writes of a task that is not generated. *)
LEMMA NoneStays ==
    ASSUME Accounted, Basic, NEW e, WellMade(e), Commit(e), e.type # "task.created"
    PROVE  \A t \in Task : world.task[t].status = "none" => world'.task[t].status = "none"
<1>1. /\ Legal(world, e, prev) /\ Moves(world', world, e)
      /\ e.type \in TaskType => Takes(world', world, e)
    BY CommitMoves
<1>2. CASE e.type \notin TaskType
    BY <1>1, <1>2 DEF Moves
<1>3. CASE e.type \in TaskType
    <2>1. e.about \in Task => world.task[e.about].status # "none"
        BY <1>1, <1>3 DEF Legal, LegalOfTask, LegalOfJudgement, HeldBy, Available, TaskType
    <2>2. \A x \in Task : x # e.about => world'.task[x] = world.task[x]
        BY <1>1, <1>3 DEF Takes
    <2> QED BY <2>1, <2>2, <1>1, <1>3 DEF Takes
<1> QED
    BY <1>2, <1>3

(* What holds of every append within a tick. *)
LEMMA InTickLawful ==
    ASSUME Accounted, Regular, Lawful, NEW e, WellMade(e), Commit(e), e.tick = nextTick,
           e.type \notin {"run.started", "run.completed", "task.created"},
           stage \in (Early \union Late) \ {"generation"},
           stage' \in (Early \union Late) \ {"generation"},
           UNCHANGED <<nextTick, sequence>>
    PROVE  Timely' /\ InRun' /\ Numbered'
<1>1. /\ Moves(world', world, e) /\ world'.tick = e.tick
      /\ ~ saved'.atEnd /\ saved'.sequence = saved.sequence
    BY CommitMoves DEF Regular
<1>2. nextTick \in Nat
    BY DEF Regular, Basic
<1>3. Timely'
    BY <1>1, <1>2 DEF Lawful, Timely, Over, Early, Late
<1>4. InRun'
    BY <1>1 DEF Lawful, InRun, Moves, Over, Early, Late
<1>5. \A t \in Task : world.task[t].status = "none" => world'.task[t].status = "none"
    BY NoneStays DEF Regular
<1>6. Numbered'
    <2>1. stage \notin Over /\ stage' \notin Over
        BY DEF Over, Early, Late
    <2> QED BY <1>1, <1>5, <2>1 DEF Lawful, Numbered, NoneAfter
<1> QED
    BY <1>3, <1>4, <1>6

(* The genesis. *)
LEMMA GenesisLawful ==
    ASSUME Accounted, Regular, Lawful, Genesis
    PROVE  Lawful'
<1> DEFINE e == Head(agenda)
<1>1. /\ stage = "boundary" /\ agenda # <<>> /\ Commit(e) /\ agenda' = Tail(agenda)
      /\ UNCHANGED <<stage, nextTick, sequence, decisions, current, pending>>
    BY DEF Genesis, CommitNext
<1>2. WellMade(e) /\ IsList(agenda)
    BY <1>1, HeadMade DEF Accounted, AllMade
<1>3. Opening /\ Births /\ Basic
    BY <1>1 DEF Regular, Lawful, Listed
<1>4. /\ 1 \in DOMAIN agenda /\ e = agenda[1]
      /\ \A i \in DOMAIN agenda' : i + 1 \in DOMAIN agenda /\ agenda'[i] = agenda[i + 1]
      /\ Len(agenda) \in Nat /\ DOMAIN agenda' \subseteq Nat \ {0}
    BY <1>1, <1>2, ListParts, ListPlaces DEF IsList
<1> HIDE DEF e
<1>5. e.tick = 0 /\ e.type \in {"run.started", "agent.created"}
    BY <1>3, <1>4 DEF Opening
<1>6. /\ Legal(world, e, prev) /\ Moves(world', world, e) /\ world'.tick = 0
      /\ ~ saved'.atEnd /\ saved'.sequence = saved.sequence
    BY <1>1, <1>2, <1>3, <1>5, CommitMoves
<1>7. world.started <=> e.type # "run.started"
    BY <1>6 DEF Legal, InCourse
<1>8. /\ world.born \in Nat /\ world.started \in BOOLEAN /\ (~ world.started => world.born = 0)
      /\ Ticks \in Nat
    BY LabAssumption DEF Accounted, Conserved
<1>9. Timely'
    BY <1>1, <1>6, <1>8 DEF Lawful, Timely, Over, Early, Late, Regular, Basic
<1>10. world'.started /\ ~ world'.completed
    BY <1>1, <1>5, <1>6, <1>7 DEF Moves, Lawful, InRun, Over
<1>11. InRun'
    BY <1>1, <1>10 DEF InRun, Early, Late, Over
<1>12. Numbered'
    <2>1. \A t \in Task : world.task[t].status = "none" => world'.task[t].status = "none"
        BY <1>1, <1>2, <1>3, <1>5, NoneStays
    <2> QED BY <1>1, <1>6, <2>1 DEF Lawful, Numbered, NoneAfter, Over
<1>13. Births'
    <2> SUFFICES ASSUME NEW i \in DOMAIN agenda'
                 PROVE  agenda'[i].type = "agent.created" /\ agenda'[i].actor = world'.born + i
        BY <1>10 DEF Births
    <2>1. i \in Nat \ {0} /\ i + 1 \in DOMAIN agenda /\ agenda'[i] = agenda[i + 1] /\ i + 1 # 1
        BY <1>4
    <2>2. /\ agenda[i + 1].type = "agent.created"
          /\ agenda[i + 1].actor = IF world.started THEN world.born + (i + 1) ELSE (i + 1) - 1
        BY <1>3, <2>1 DEF Births
    <2>3. world'.born = IF world.started THEN world.born + 1 ELSE 0
        BY <1>5, <1>6, <1>7, <1>8 DEF Moves
    <2> QED BY <1>8, <2>1, <2>2, <2>3
<1>14. Listed' /\ Submissions' /\ Sending'
    BY <1>1, <1>13 DEF Lawful, Listed, Submissions, Sending, Over
<1> QED
    BY <1>9, <1>11, <1>12, <1>14 DEF Lawful

(* Who is retired is there, and is retired once. *)
LEMMA PressureRetires ==
    ASSUME NEW s \in Scenarios, NEW tick, NEW gone, gone \subseteq Agent
    PROVE  LET all == PressureEvents(s.pressures, tick, gone)
           IN /\ \A i \in DOMAIN all : all[i].type = "agent.retired" =>
                    all[i].actor \in gone /\ all[i].cause # NoCause
              /\ \A i, j \in DOMAIN all :
                    /\ all[i].type = "agent.retired" /\ all[j].type = "agent.retired"
                    /\ all[i].actor = all[j].actor
                    => i = j
<1> DEFINE all == PressureEvents(s.pressures, tick, gone)
           places == {i \in DOMAIN s.pressures : s.pressures[i].tick = tick}
           due == Selected(s.pressures, places)
           announced == [i \in DOMAIN due |-> SystemEvent("pressure.applied", tick, i, due[i])]
           causes == {i \in DOMAIN due : due[i].type = "retire_agent_fraction"}
           order == Ascending(gone)
           retired == [i \in DOMAIN order |->
               Event("agent.retired", tick, order[i], Nobody, tick,
                     EventId(announced[CHOOSE c \in causes : TRUE]), NoData)]
           n == Cardinality(gone)
<1>1. all = announced \o retired
    BY DEF PressureEvents
<1>2. IsList(due)
    <2>1. s.pressures \in Seq([type : PressureType, tick : Nat, value : Nat])
        BY UniverseAssumption
    <2>2. IsList(s.pressures)
        BY <2>1, ListSeq
    <2>3. places \subseteq DOMAIN s.pressures
        OBVIOUS
    <2> HIDE DEF places
    <2> QED BY <2>2, <2>3, SelectedOf
<1>3. n \in Nat /\ order \in [1 .. n -> gone] /\ \A i, j \in 1 .. n : order[i] = order[j] => i = j
    <2>1. gone \in SUBSET Agent
        OBVIOUS
    <2>2. IsFiniteSet(gone) /\ gone \subseteq Int
        BY <2>1, OrderMade, AgentsAreFew
    <2> QED BY <2>2, AscendingOf
<1> HIDE DEF due, order, n
<1>4. \A i \in DOMAIN announced : announced[i].type = "pressure.applied"
    BY DEF SystemEvent, Event
<1>5. \A i \in DOMAIN retired : retired[i].actor = order[i] /\ retired[i].cause # NoCause
    BY DEF Event, EventId, NoCause
<1>6. IsList(announced)
    <2>1. announced = [i \in DOMAIN due |-> announced[i]]
        OBVIOUS
    <2> HIDE DEF announced
    <2> QED BY <1>2, <2>1, ListMap
<1>7. IsList(retired) /\ DOMAIN retired = 1 .. n
    <2>1. retired = [i \in DOMAIN order |-> retired[i]]
        OBVIOUS
    <2>2. IsList(order) /\ DOMAIN order = 1 .. n
        BY <1>3, ListOf
    <2> HIDE DEF retired
    <2> QED BY <2>1, <2>2, ListMap
<1> HIDE DEF announced, retired
<1> DEFINE j == announced \o retired
<1>8. /\ Len(announced) \in Nat /\ DOMAIN j \subseteq Nat
      /\ \A i \in DOMAIN j :
            IF i <= Len(announced) THEN i \in DOMAIN announced /\ j[i] = announced[i]
            ELSE i - Len(announced) \in DOMAIN retired /\ j[i] = retired[i - Len(announced)]
    <2>1. Len(announced) \in Nat
        BY <1>6 DEF IsList
    <2>2. /\ IsList(j)
          /\ \A i \in DOMAIN j :
                IF i <= Len(announced) THEN i \in DOMAIN announced /\ j[i] = announced[i]
                ELSE i - Len(announced) \in DOMAIN retired /\ j[i] = retired[i - Len(announced)]
        BY <1>6, <1>7, ListJoin
    <2> HIDE DEF j
    <2>3. DOMAIN j \subseteq Nat
        BY <2>2, ListPlaces DEF IsList
    <2> QED BY <2>1, <2>2, <2>3
<1> HIDE DEF j
<1>9. ASSUME NEW i \in DOMAIN j, j[i].type = "agent.retired"
      PROVE  /\ i - Len(announced) \in 1 .. n /\ j[i].actor = order[i - Len(announced)]
             /\ j[i].cause # NoCause
    BY <1>4, <1>5, <1>7, <1>8, <1>9
<1>10. \A i \in DOMAIN j : j[i].type = "agent.retired" => j[i].actor \in gone /\ j[i].cause # NoCause
    BY <1>3, <1>9
<1>11. ASSUME NEW i \in DOMAIN j, NEW k \in DOMAIN j, j[i].type = "agent.retired",
              j[k].type = "agent.retired", j[i].actor = j[k].actor
       PROVE  i = k
    <2>1. i - Len(announced) = k - Len(announced)
        BY <1>3, <1>9, <1>11
    <2> QED BY <1>8, <2>1
<1>12. all = j
    BY <1>1 DEF j
<1> HIDE DEF all
<1> QED
    BY <1>10, <1>11, <1>12 DEF all

(* Pressures, and who is retired. *)
LEMMA BeginTickLawful ==
    ASSUME Accounted, Regular, Lawful, BeginTick
    PROVE  Lawful'
<1>1. /\ stage = "boundary" /\ agenda = <<>> /\ nextTick <= Ticks /\ stage' = "pressure"
      /\ UNCHANGED <<world, saved, nextTick, sequence, decisions, current, pending>>
    BY DEF BeginTick, Idle, log
<1>2. PICK gone \in Retirements(world, scenario.pressures, nextTick) :
            agenda' = PressureEvents(scenario.pressures, nextTick, gone)
    BY DEF BeginTick
<1>3. gone \subseteq world.active
    BY DEF Retirements
<1>4. gone \subseteq Agent
    <2>1. world.active \subseteq 1 .. world.born /\ world.born \in 0 .. Agents /\ Agents \in Nat
        BY LabAssumption DEF Accounted, Conserved
    <2> QED BY <1>3, <2>1 DEF Agent
<1>5. Retiring'
    <2>1. scenario \in Scenarios
        BY DEF Accounted
    <2>2. \A i \in DOMAIN agenda' : agenda'[i].type \in {"pressure.applied", "agent.retired"}
        BY <1>2, <1>4, <2>1, PressureMade DEF Within
    <2> QED BY <1>1, <1>2, <1>3, <1>4, <2>1, <2>2, PressureRetires DEF Retiring
<1>6. Timely' /\ InRun'
    BY <1>1 DEF Lawful, Timely, InRun, Over, Early, Late
<1>7. Numbered'
    BY <1>1 DEF Lawful, Numbered, NoneAfter, Over
<1> QED
    BY <1>1, <1>5, <1>6, <1>7 DEF Lawful, Listed, Submissions, Sending, Over

(* The next event of a loop: the rest of the agenda. *)
LEMMA RestOfAgenda ==
    ASSUME Accounted, agenda # <<>>, agenda' = Tail(agenda)
    PROVE  /\ WellMade(Head(agenda)) /\ 1 \in DOMAIN agenda /\ Head(agenda) = agenda[1]
           /\ \A i \in DOMAIN agenda' :
                i \in Nat \ {0} /\ i + 1 \in DOMAIN agenda /\ agenda'[i] = agenda[i + 1]
           /\ Len(agenda') = Len(agenda) - 1 /\ Len(agenda) \in Nat
<1>1. IsList(agenda) /\ WellMade(Head(agenda))
    BY HeadMade DEF Accounted, AllMade
<1>2. IsList(Tail(agenda))
    BY <1>1, ListParts
<1> QED
    BY <1>1, <1>2, ListParts, ListPlaces DEF IsList

LEMMA CommitPressureLawful ==
    ASSUME Accounted, Regular, Lawful, CommitPressure
    PROVE  Lawful'
<1> DEFINE e == Head(agenda)
<1>1. /\ stage = "pressure" /\ stage' = stage /\ agenda # <<>> /\ Commit(e) /\ agenda' = Tail(agenda)
      /\ UNCHANGED <<nextTick, sequence, decisions, current, pending>>
    BY DEF CommitPressure, CommitNext
<1>2. /\ WellMade(e) /\ 1 \in DOMAIN agenda /\ e = agenda[1]
      /\ \A i \in DOMAIN agenda' :
            i \in Nat \ {0} /\ i + 1 \in DOMAIN agenda /\ agenda'[i] = agenda[i + 1]
    BY <1>1, RestOfAgenda
<1>3. e.tick = nextTick /\ e.type \in EarlyType
    BY <1>1, <1>2 DEF Regular, EarlyInTick, OfTick, Within, Early
<1> HIDE DEF e
<1>4. Timely' /\ InRun' /\ Numbered'
    BY <1>1, <1>2, <1>3, InTickLawful DEF Early, Late, EarlyType
<1>5. Moves(world', world, e)
    BY <1>1, <1>2, CommitMoves DEF Regular
<1>6. Retiring
    BY <1>1 DEF Lawful, Listed
<1>7. Retiring'
    <2>1. ASSUME NEW i \in DOMAIN agenda', agenda'[i].type = "agent.retired"
          PROVE  agenda'[i].actor \in world'.active /\ agenda'[i].cause # NoCause
        <3>1. i + 1 \in DOMAIN agenda /\ agenda'[i] = agenda[i + 1] /\ i + 1 # 1
            BY <1>2
        <3>2. agenda[i + 1].actor \in world.active /\ agenda[i + 1].cause # NoCause
            BY <1>6, <2>1, <3>1 DEF Retiring
        <3>3. e.type = "agent.retired" => e.actor # agenda[i + 1].actor
            BY <1>2, <1>6, <2>1, <3>1 DEF Retiring
        <3> QED BY <1>3, <1>5, <3>1, <3>2, <3>3 DEF Moves, EarlyType
    <2>2. ASSUME NEW i \in DOMAIN agenda', NEW j \in DOMAIN agenda',
                 agenda'[i].type = "agent.retired", agenda'[j].type = "agent.retired",
                 agenda'[i].actor = agenda'[j].actor
          PROVE  i = j
        <3>1. i + 1 = j + 1
            BY <1>2, <1>6, <2>2 DEF Retiring
        <3> QED BY <1>2, <3>1
    <2>3. \A i \in DOMAIN agenda' : agenda'[i].type \in {"pressure.applied", "agent.retired"}
        BY <1>2, <1>6 DEF Retiring
    <2> QED BY <2>1, <2>2, <2>3 DEF Retiring
<1> QED
    BY <1>1, <1>4, <1>7 DEF Lawful, Listed, Submissions, Sending, Over

(* A tick takes every task that is overdue, once. *)
LEMMA BeginExpiryLawful ==
    ASSUME Accounted, Regular, Lawful, BeginExpiry
    PROVE  Lawful'
<1> DEFINE late == {t \in Task : /\ world.task[t].status \in {"available", "claimed"}
                                /\ Overdue(world, t, nextTick)}
           n == Cardinality(late)
           order == Ascending(late)
<1>1. /\ stage = "pressure" /\ stage' = "expiry"
      /\ UNCHANGED <<world, saved, nextTick, sequence, decisions, current, pending>>
    BY DEF BeginExpiry, Finished, log
<1>2. agenda' = [i \in DOMAIN order |-> SystemEvent("task.expired", nextTick, order[i], NoData)]
    BY DEF BeginExpiry, Expired
<1>3. order \in [1 .. n -> late] /\ \A i, j \in 1 .. n : order[i] = order[j] => i = j
    <2>1. late \in SUBSET Task /\ late \subseteq Int
        BY DEF Task
    <2> HIDE DEF late
    <2>2. IsFiniteSet(late)
        BY <2>1, OrderMade
    <2> QED BY <2>1, <2>2, AscendingOf
<1> HIDE DEF n, order
<1>4. /\ DOMAIN agenda' = 1 .. n
      /\ \A i \in 1 .. n : agenda'[i].type = "task.expired" /\ agenda'[i].about = order[i]
    BY <1>2, <1>3 DEF SystemEvent, Event
<1>5. \A i \in 1 .. n : /\ order[i] \in Task /\ world.task[order[i]].status \in {"available", "claimed"}
                       /\ Overdue(world, order[i], nextTick)
    BY <1>3
<1>6. Expiring'
    BY <1>1, <1>3, <1>4, <1>5 DEF Expiring, Overdue, Deadline
<1>7. Timely' /\ InRun'
    BY <1>1 DEF Lawful, Timely, InRun, Over, Early, Late
<1>8. Numbered'
    BY <1>1 DEF Lawful, Numbered, NoneAfter, Over
<1> QED
    BY <1>1, <1>6, <1>7, <1>8 DEF Lawful, Listed, Submissions, Sending, Over

LEMMA CommitExpiryLawful ==
    ASSUME Accounted, Regular, Lawful, CommitExpiry
    PROVE  Lawful'
<1> DEFINE e == Head(agenda)
<1>1. /\ stage = "expiry" /\ stage' = stage /\ agenda # <<>> /\ Commit(e) /\ agenda' = Tail(agenda)
      /\ UNCHANGED <<nextTick, sequence, decisions, current, pending>>
    BY DEF CommitExpiry, CommitNext
<1>2. /\ WellMade(e) /\ 1 \in DOMAIN agenda /\ e = agenda[1]
      /\ \A i \in DOMAIN agenda' :
            i \in Nat \ {0} /\ i + 1 \in DOMAIN agenda /\ agenda'[i] = agenda[i + 1]
    BY <1>1, RestOfAgenda
<1>3. Expiring
    BY <1>1 DEF Lawful, Listed
<1>4. e.tick = nextTick /\ e.type = "task.expired"
    BY <1>1, <1>2, <1>3 DEF Regular, EarlyInTick, OfTick, Within, Early, Expiring
<1> HIDE DEF e
<1>5. Timely' /\ InRun' /\ Numbered'
    BY <1>1, <1>2, <1>4, InTickLawful DEF Early, Late
<1>6. \A x \in Task : x # e.about => world'.task[x] = world.task[x]
    BY <1>1, <1>2, <1>4, CommitMoves DEF Regular, Takes, TaskType
<1>7. Expiring'
    <2>1. ASSUME NEW i \in DOMAIN agenda'
          PROVE  /\ agenda'[i].type = "task.expired" /\ agenda'[i].about \in Task
                 /\ world'.task[agenda'[i].about].status \in {"available", "claimed"}
                 /\ Overdue(world', agenda'[i].about, nextTick')
        <3>1. i + 1 \in DOMAIN agenda /\ agenda'[i] = agenda[i + 1] /\ i + 1 # 1
            BY <1>2
        <3> DEFINE t == agenda[i + 1].about
        <3>2. /\ agenda[i + 1].type = "task.expired" /\ t \in Task
              /\ world.task[t].status \in {"available", "claimed"} /\ Overdue(world, t, nextTick)
            BY <1>3, <3>1 DEF Expiring
        <3>3. t # e.about
            BY <1>2, <1>3, <3>1 DEF Expiring
        <3> HIDE DEF t
        <3>4. world'.task[t] = world.task[t]
            BY <1>6, <3>2, <3>3
        <3>5. Overdue(world', t, nextTick')
            BY <1>1, <3>2, <3>4 DEF Overdue, Deadline
        <3> QED BY <3>1, <3>2, <3>4, <3>5 DEF t
    <2>2. ASSUME NEW i \in DOMAIN agenda', NEW j \in DOMAIN agenda',
                 agenda'[i].about = agenda'[j].about
          PROVE  i = j
        <3>1. i + 1 = j + 1
            BY <1>2, <1>3, <2>2 DEF Expiring
        <3> QED BY <1>2, <3>1
    <2> QED BY <2>1, <2>2 DEF Expiring
<1> QED
    BY <1>1, <1>5, <1>7 DEF Lawful, Listed, Submissions, Sending, Over

(* The lesser of two numbers is not greater than either. *)
LEMMA LesserOf ==
    ASSUME NEW m \in Int, NEW n \in Int
    PROVE  Min({m, n}) \in Int /\ Min({m, n}) <= m /\ Min({m, n}) <= n
<1>1. \E x \in {m, n} : \A y \in {m, n} : x <= y
    OBVIOUS
<1>2. Min({m, n}) \in {m, n} /\ \A y \in {m, n} : Min({m, n}) <= y
    BY <1>1 DEF Min
<1> QED
    BY <1>2

(* The next tasks of the stream: their numbers follow on. *)
LEMMA BeginGenerationLawful ==
    ASSUME Accounted, Regular, Lawful, BeginGeneration
    PROVE  Lawful'
<1> DEFINE tasks == StreamTasks(sequence, GenerationCount)
           m == Min({GenerationCount, Tasks - sequence})
<1>1. /\ stage = "expiry" /\ stage' = "generation" /\ agenda = <<>>
      /\ agenda' = [i \in DOMAIN tasks |-> SystemEvent("task.created", nextTick, tasks[i], NoData)]
      /\ sequence' = sequence + Len(tasks)
      /\ UNCHANGED <<world, saved, nextTick, decisions, current, pending>>
    BY DEF BeginGeneration, Finished, log
<1>2. sequence \in Nat /\ Tasks \in Nat
    BY LabAssumption DEF Lawful, Numbered
<1>3. m \in Int /\ m <= Tasks - sequence
    <2>1. GenerationCount \in Int /\ Tasks - sequence \in Int
        BY <1>2, GenerationIsInt
    <2> QED BY <2>1, LesserOf
<1>4. tasks = [i \in 1 .. m |-> sequence + i]
    BY DEF StreamTasks
<1> HIDE DEF m, tasks
<1>5. IsList(tasks) /\ DOMAIN tasks = 1 .. m /\ \A i \in 1 .. m : tasks[i] = sequence + i
    <2>1. tasks = [i \in 1 .. m |-> tasks[i]]
        BY <1>4
    <2> QED BY <1>3, <1>4, <2>1, RangeMade
<1>6. Len(tasks) \in Nat /\ Len(agenda') = Len(tasks) /\ DOMAIN agenda' = 1 .. m
    <2>1. agenda' = [i \in DOMAIN tasks |-> agenda'[i]]
        BY <1>1
    <2> QED BY <1>5, <2>1, ListMap DEF IsList
<1>7. sequence' \in Nat /\ sequence' - Len(agenda') = sequence
    <2> DEFINE k == Len(tasks)
    <2>1. k \in Nat /\ Len(agenda') = k /\ sequence' = sequence + k
        BY <1>1, <1>6
    <2> HIDE DEF k
    <2> QED BY <1>2, <2>1
<1>8. Creating'
    <2> SUFFICES ASSUME NEW i \in 1 .. m
                 PROVE  /\ agenda'[i].type = "task.created" /\ agenda'[i].about \in Task
                        /\ agenda'[i].about = sequence' - Len(agenda') + i
        BY <1>6 DEF Creating
    <2>1. agenda'[i].type = "task.created" /\ agenda'[i].about = sequence + i
        BY <1>1, <1>5 DEF SystemEvent, Event
    <2>2. sequence + i \in Task
        BY <1>2, <1>3 DEF Task
    <2> QED BY <1>7, <2>1, <2>2
<1>9. Timely' /\ InRun'
    BY <1>1 DEF Lawful, Timely, InRun, Over, Early, Late
<1>10. Numbered'
    BY <1>1, <1>7 DEF Lawful, Numbered, NoneAfter, Over
<1> QED
    BY <1>1, <1>8, <1>9, <1>10 DEF Lawful, Listed, Submissions, Sending, Over

LEMMA CommitTaskLawful ==
    ASSUME Accounted, Regular, Lawful, CommitTask
    PROVE  Lawful'
<1> DEFINE e == Head(agenda)
           n == sequence - Len(agenda)
<1>1. /\ stage = "generation" /\ stage' = stage /\ agenda # <<>> /\ Commit(e) /\ agenda' = Tail(agenda)
      /\ UNCHANGED <<nextTick, sequence, decisions, current, pending>>
    BY DEF CommitTask, CommitNext
<1>2. /\ WellMade(e) /\ 1 \in DOMAIN agenda /\ e = agenda[1]
      /\ \A i \in DOMAIN agenda' :
            i \in Nat \ {0} /\ i + 1 \in DOMAIN agenda /\ agenda'[i] = agenda[i + 1]
      /\ Len(agenda') = Len(agenda) - 1 /\ Len(agenda) \in Nat
    BY <1>1, RestOfAgenda
<1>3. Creating /\ sequence \in Nat /\ NoneAfter(n)
    BY <1>1 DEF Lawful, Listed, Numbered, Over
<1>4. e.tick = nextTick /\ e.type = "task.created" /\ e.about = n + 1
    BY <1>1, <1>2, <1>3 DEF Regular, LateInTick, OfTick, Within, Late, Creating
<1> HIDE DEF e
<1>5. sequence' - Len(agenda') = n + 1 /\ n \in Int
    BY <1>1, <1>2, <1>3
<1> HIDE DEF n
<1>6. /\ Moves(world', world, e) /\ Takes(world', world, e) /\ world'.tick = e.tick
      /\ ~ saved'.atEnd /\ saved'.sequence = saved.sequence
    BY <1>1, <1>2, <1>4, CommitMoves DEF Regular, TaskType
<1>7. Timely' /\ InRun'
    <2>1. nextTick \in Nat
        BY DEF Regular, Basic
    <2> QED BY <1>1, <1>4, <1>6, <2>1 DEF Lawful, Timely, InRun, Moves, Over, Early, Late
<1>8. \A t \in Task : t > n + 1 => world'.task[t].status = "none"
    <2> SUFFICES ASSUME NEW t \in Task, t > n + 1 PROVE world'.task[t].status = "none"
        OBVIOUS
    <2>1. t > n /\ t # e.about
        BY <1>4, <1>5 DEF Task
    <2> QED BY <1>3, <1>6, <2>1 DEF NoneAfter, Takes
<1>9. Numbered'
    BY <1>1, <1>3, <1>5, <1>6, <1>8 DEF Lawful, Numbered, Over, NoneAfter
<1>10. Creating'
    <2> SUFFICES ASSUME NEW i \in DOMAIN agenda'
                 PROVE  /\ agenda'[i].type = "task.created" /\ agenda'[i].about \in Task
                        /\ agenda'[i].about = sequence' - Len(agenda') + i
        BY DEF Creating
    <2>1. i \in Nat /\ i + 1 \in DOMAIN agenda /\ agenda'[i] = agenda[i + 1]
        BY <1>2
    <2>2. /\ agenda[i + 1].type = "task.created" /\ agenda[i + 1].about \in Task
          /\ agenda[i + 1].about = sequence - Len(agenda) + (i + 1)
        BY <1>3, <2>1 DEF Creating
    <2> QED BY <1>1, <1>2, <1>3, <2>1, <2>2
<1> QED
    BY <1>1, <1>7, <1>9, <1>10 DEF Lawful, Listed, Submissions, Sending, Over

(* What holds of every step within a tick that writes nothing. *)
LEMMA WaitsLawful ==
    ASSUME Lawful, Regular, stage \in Late, stage' \in Late \ {"generation"},
           stage = "generation" => agenda = <<>>,
           UNCHANGED <<world, saved, nextTick, sequence>>
    PROVE  Timely' /\ InRun' /\ Numbered'
<1>1. Timely' /\ InRun'
    BY DEF Lawful, Timely, InRun, Over, Early, Late
<1>2. sequence \in Nat /\ Len(<<>>) = 0
    BY DEF Lawful, Numbered
<1>3. sequence - Len(<<>>) = sequence
    BY <1>2
<1>4. NoneAfter(sequence)
    BY <1>3 DEF Lawful, Numbered, Over, Late
<1>5. Numbered'
    BY <1>4 DEF Lawful, Numbered, NoneAfter, Over
<1> QED
    BY <1>1, <1>5

(* What models answer. *)
LEMMA ConsultLawful ==
    ASSUME Accounted, Regular, Lawful, Consult
    PROVE  Lawful'
<1>1. /\ stage = "generation" /\ agenda = <<>> /\ stage' = "cognition"
      /\ agenda' = [i \in DOMAIN records' |->
                       Event("cognition.recorded", nextTick, records'[i].agent, Nobody, 0,
                             NoCause, [actions |-> records'[i].actions])]
      /\ UNCHANGED <<world, saved, nextTick, sequence, decisions, current, pending>>
    BY DEF Consult, Finished, log
<1>2. Timely' /\ InRun' /\ Numbered'
    BY <1>1, WaitsLawful DEF Late
<1>3. \A i \in DOMAIN agenda' : agenda'[i].type = "cognition.recorded"
    BY <1>1 DEF Event
<1> QED
    BY <1>1, <1>2, <1>3 DEF Lawful, Listed, Submissions, Sending, Over

LEMMA CommitRecordLawful ==
    ASSUME Accounted, Regular, Lawful, CommitRecord
    PROVE  Lawful'
<1> DEFINE e == Head(agenda)
<1>1. /\ stage = "cognition" /\ stage' = stage /\ agenda # <<>> /\ Commit(e) /\ agenda' = Tail(agenda)
      /\ UNCHANGED <<nextTick, sequence, decisions, current, pending>>
    BY DEF CommitRecord, CommitNext
<1>2. /\ WellMade(e) /\ 1 \in DOMAIN agenda /\ e = agenda[1]
      /\ \A i \in DOMAIN agenda' :
            i \in Nat \ {0} /\ i + 1 \in DOMAIN agenda /\ agenda'[i] = agenda[i + 1]
    BY <1>1, RestOfAgenda
<1>3. \A i \in DOMAIN agenda : agenda[i].type = "cognition.recorded"
    BY <1>1 DEF Lawful, Listed
<1>4. e.tick = nextTick /\ e.type = "cognition.recorded"
    BY <1>1, <1>2, <1>3 DEF Regular, LateInTick, OfTick, Within, Late
<1> HIDE DEF e
<1>5. Timely' /\ InRun' /\ Numbered'
    BY <1>1, <1>2, <1>4, InTickLawful DEF Early, Late
<1>6. \A i \in DOMAIN agenda' : agenda'[i].type = "cognition.recorded"
    BY <1>2, <1>3
<1> QED
    BY <1>1, <1>5, <1>6 DEF Lawful, Listed, Submissions, Sending, Over

(* The policies that threw. *)
LEMMA DecideLawful ==
    ASSUME Accounted, Regular, Lawful, DecideAll
    PROVE  Lawful'
<1> DEFINE all == UNION {OptionsOf(a) : a \in world.active}
           threw(f) == {a \in world.active : f[a] = Throws}
<1>1. /\ stage = "cognition" /\ agenda = <<>>
      /\ UNCHANGED <<world, saved, nextTick, sequence, current, pending>>
    BY DEF DecideAll, Finished, log
<1>2. PICK f \in [world.active -> all] :
        /\ agenda' = [i \in DOMAIN Ascending(threw(f)) |->
                        Event("violation.recorded", nextTick, Ascending(threw(f))[i], Nobody, 0,
                              NoCause, [action |-> "reason", reason |-> "policy_error"])]
        /\ stage' = IF Ascending(threw(f)) = <<>> THEN "resolution" ELSE "decided"
    BY DEF DecideAll
<1> DEFINE some == threw(f)
           order == Ascending(some)
           n == Cardinality(some)
<1>3. some \subseteq world.active
    OBVIOUS
<1>4. some \in SUBSET Agent
    <2>1. world.active \subseteq 1 .. world.born /\ world.born \in 0 .. Agents /\ Agents \in Nat
        BY LabAssumption DEF Accounted, Conserved
    <2> QED BY <2>1 DEF Agent
<1> HIDE DEF some
<1>5. order \in [1 .. n -> some]
    <2>1. IsFiniteSet(some) /\ some \subseteq Int
        BY <1>4, OrderMade, AgentsAreFew
    <2> QED BY <2>1, AscendingOf
<1>6. /\ agenda' = [i \in DOMAIN order |->
                        Event("violation.recorded", nextTick, order[i], Nobody, 0,
                              NoCause, [action |-> "reason", reason |-> "policy_error"])]
      /\ stage' = IF order = <<>> THEN "resolution" ELSE "decided"
    BY <1>2 DEF some
<1> HIDE DEF order, n
<1>7. Failing'
    BY <1>1, <1>3, <1>5, <1>6 DEF Failing, Event
<1>8. stage' = "resolution" => agenda' = <<>>
    BY <1>6, FewMade
<1>9. stage' = "resolution" => Rewarding'
    BY <1>8, FewMade DEF Rewarding
<1>10. Timely' /\ InRun' /\ Numbered'
    BY <1>1, <1>6, WaitsLawful DEF Late
<1> QED
    BY <1>1, <1>6, <1>7, <1>9, <1>10 DEF Lawful, Listed, Submissions, Sending, Over

LEMMA CommitPolicyErrorLawful ==
    ASSUME Accounted, Regular, Lawful, CommitPolicyError
    PROVE  Lawful'
<1> DEFINE e == Head(agenda)
<1>1. /\ stage = "decided" /\ agenda # <<>> /\ Commit(e) /\ agenda' = Tail(agenda)
      /\ stage' = IF Len(agenda) = 1 THEN "resolution" ELSE "decided"
      /\ UNCHANGED <<nextTick, sequence, decisions, current, pending>>
    BY DEF CommitPolicyError, CommitNext
<1>2. /\ WellMade(e) /\ 1 \in DOMAIN agenda /\ e = agenda[1]
      /\ \A i \in DOMAIN agenda' :
            i \in Nat \ {0} /\ i + 1 \in DOMAIN agenda /\ agenda'[i] = agenda[i + 1]
      /\ Len(agenda') = Len(agenda) - 1
    BY <1>1, RestOfAgenda
<1>3. Failing
    BY <1>1 DEF Lawful, Listed
<1>4. e.tick = nextTick /\ e.type = "violation.recorded"
    BY <1>1, <1>2, <1>3 DEF Regular, LateInTick, OfTick, Within, Late, Failing
<1> HIDE DEF e
<1>5. Timely' /\ InRun' /\ Numbered'
    BY <1>1, <1>2, <1>4, InTickLawful DEF Early, Late
<1>6. world'.active = world.active
    BY <1>1, <1>2, <1>4, CommitMoves DEF Regular, Moves
<1>7. Failing'
    BY <1>2, <1>3, <1>6 DEF Failing
<1>8. stage' = "resolution" => agenda' = <<>>
    <2>1. IsList(agenda')
        BY <1>1, HeadMade DEF Accounted, AllMade
    <2>2. stage' = "resolution" => Len(agenda') = 0
        BY <1>1, <1>2
    <2> QED BY <2>1, <2>2, ListPlaces
<1>9. stage' = "resolution" => Rewarding'
    BY <1>8, FewMade DEF Rewarding
<1> QED
    BY <1>1, <1>5, <1>7, <1>9 DEF Lawful, Listed, Submissions, Sending, Over

(* While decisions are resolved there is nothing in the agenda. *)
LEMMA Resolving ==
    ASSUME Lawful,
           \/ stage = "resolution" /\ (decisions # <<>> \/ agenda = <<>>)
           \/ stage \in {"paid", "sent", "delivered"}
    PROVE  agenda = <<>> /\ Submissions
BY DEF Lawful, Listed, Rewarding

\* Events after which every submission is as it was.
Aside == EventType \ (TaskType \union {"run.started", "run.completed", "agent.created", "agent.retired"})

(* A step of the resolution that ends in one, and writes at most such an event. *)
LEMMA ResolvingLawful ==
    ASSUME Accounted, Regular, Lawful, agenda = <<>>, agenda' = <<>>,
           stage \in {"resolution", "paid", "delivered"}, stage' \in {"resolution", "paid"},
           \/ UNCHANGED <<world, saved>>
           \/ \E e : WellMade(e) /\ Commit(e) /\ e.tick = nextTick /\ e.type \in Aside,
           UNCHANGED <<nextTick, sequence, pending>>
    PROVE  Lawful'
<1>1. Submissions
    BY DEF Lawful
<1>2. CASE UNCHANGED <<world, saved>>
    <2>1. Timely' /\ InRun' /\ Numbered'
        BY <1>2, WaitsLawful DEF Late
    <2>2. Listed' /\ Submissions' /\ Sending'
        BY <1>1, <1>2, FewMade DEF Listed, Rewarding, Submissions, Sending, Over
    <2> QED BY <2>1, <2>2 DEF Lawful
<1>3. CASE \E e : WellMade(e) /\ Commit(e) /\ e.tick = nextTick /\ e.type \in Aside
    <2>1. PICK e : WellMade(e) /\ Commit(e) /\ e.tick = nextTick /\ e.type \in Aside
        BY <1>3
    <2>2. Timely' /\ InRun' /\ Numbered'
        BY <2>1, InTickLawful DEF Early, Late, Aside, TaskType
    <2>3. world'.task = world.task /\ world'.active = world.active
        BY <2>1, CommitMoves DEF Regular, Moves, Aside
    <2>4. Listed' /\ Submissions' /\ Sending'
        BY <1>1, <2>3, FewMade DEF Listed, Rewarding, Submissions, Sending, Over
    <2> QED BY <2>2, <2>4 DEF Lawful
<1> QED
    BY <1>2, <1>3

(* Decisions that are paid for, and others. *)
LEMMA PaymentLawful ==
    ASSUME Accounted, Regular, Lawful, Skip \/ CostUnavailable \/ Pay
    PROVE  Lawful'
<1>1. /\ stage = "resolution" /\ decisions # <<>> /\ stage' \in {"resolution", "paid"}
      /\ UNCHANGED <<nextTick, sequence, agenda, pending>>
    BY DEF Skip, CostUnavailable, Pay
<1>2. agenda = <<>>
    BY <1>1, Resolving
<1>3. CASE Skip
    BY <1>1, <1>2, <1>3, ResolvingLawful DEF Skip, log
<1>4. CASE CostUnavailable
    <2> DEFINE e == ViolationEvent(Head(decisions), NoCause, "cost_unavailable")
    <2>1. Commit(e) /\ e.tick = nextTick /\ e.type \in Aside /\ e.type \in Quiet
        BY <1>4 DEF CostUnavailable, ViolationEvent, Event, Aside, TaskType, Quiet, EventType
    <2> HIDE DEF e
    <2> QED BY <1>1, <1>2, <2>1, QuietMade, ResolvingLawful
<1>5. CASE Pay
    <2> DEFINE d == Head(decisions)
               cost == ScaledCost(CostBase(d), world.physics)
               e == Event("resource.spent", nextTick, d.actor, Nobody, d.index, NoCause,
                          [action |-> d.action.type, cost |-> cost])
    <2>1. CanPay(d) /\ Commit(e)
        BY <1>5 DEF Pay
    <2>2. cost \in Resources
        <3>1. Possible(d.action)
            BY <1>1, HeadDecided
        <3>2. world.physics \in Physics /\ d.action.type \in ActionType
            BY <3>1 DEF Accounted, Conserved, Possible
        <3>3. ~ Unavailable(Costs[d.action.type], world.physics)
            BY <2>1 DEF CanPay, Costless, CostBase
        <3> QED BY <3>2, <3>3, CostMade DEF CostBase
    <2> HIDE DEF d, cost
    <2>3. WellMade(e) /\ e.tick = nextTick /\ e.type \in Aside
        BY <2>2 DEF WellMade, Event, Aside, TaskType, EventType
    <2> HIDE DEF e
    <2> QED BY <1>1, <1>2, <2>1, <2>3, ResolvingLawful
<1> QED
    BY <1>3, <1>4, <1>5

(* One more at the end of a list. *)
LEMMA ListAppend ==
    ASSUME NEW s, IsList(s), NEW x
    PROVE  /\ IsList(Append(s, x))
           /\ \A i \in DOMAIN Append(s, x) :
                \/ i \in DOMAIN s /\ Append(s, x)[i] = s[i]
                \/ i \notin DOMAIN s /\ i = Len(s) + 1 /\ Append(s, x)[i] = x
<1> DEFINE S == {s[i] : i \in 1 .. Len(s)} \union {x}
           t == Append(s, x)
<1>1. s \in [1 .. Len(s) -> S] /\ x \in S
    BY DEF IsList
<1> HIDE DEF S
<1>2. s \in Seq(S) /\ Len(s) \in Nat
    BY <1>1 DEF IsList
<1>3. t \in Seq(S) /\ Len(t) = Len(s) + 1
    BY <1>1, <1>2
<1>4. DOMAIN s = 1 .. Len(s) /\ DOMAIN t = 1 .. (Len(s) + 1)
    BY <1>2, <1>3
<1>5. \A i \in 1 .. (Len(s) + 1) : t[i] = IF i = Len(s) + 1 THEN x ELSE s[i]
    BY <1>1, <1>2
<1>6. IsList(t)
    BY <1>3, ListSeq
<1> HIDE DEF t
<1>7. ASSUME NEW i \in DOMAIN t
      PROVE  \/ i \in DOMAIN s /\ t[i] = s[i]
             \/ i \notin DOMAIN s /\ i = Len(s) + 1 /\ t[i] = x
    BY <1>2, <1>4, <1>5
<1> QED
    BY <1>6, <1>7 DEF t

(* What an action is written as. *)
LEMMA OutcomeListed ==
    ASSUME NEW d, Possible(d.action), ~ Silent(d), Problem(d) = "none"
    PROVE  LET e == OutcomeEvent(d)
               type == d.action.type
           IN /\ WellMade(e) /\ e.tick = nextTick /\ e.actor = d.actor
              /\ type = "claimTask" => e.type = "task.claimed"
              /\ type = "submit" => e.type = "task.submitted" /\ e.about = d.action.ref
              /\ type = "send" => e.type = "message.sent" /\ e.target = d.action.ref
              /\ type \notin {"claimTask", "submit"} => e.type \in Aside
<1> DEFINE e == OutcomeEvent(d)
           type == d.action.type
           Goal(x) ==
              /\ x.tick = nextTick /\ x.actor = d.actor
              /\ type = "claimTask" => x.type = "task.claimed"
              /\ type = "submit" => x.type = "task.submitted" /\ x.about = d.action.ref
              /\ type = "send" => x.type = "message.sent" /\ x.target = d.action.ref
              /\ type \notin {"claimTask", "submit"} => x.type \in Aside
<1>1. WellMade(e)
    BY OutcomeMade
<1>2. type \in ActionType \ {"observe", "reason", "spawn"}
    BY OutcomeTried
<1> DEFINE Makes(as) == e.type = as /\ e.tick = nextTick /\ e.actor = d.actor
<1>3. type = "claimTask" => Makes("task.claimed")
    BY DEF OutcomeEvent, Event
<1>4. type \in {"execute", "store"} => Makes("memory.stored")
    BY DEF OutcomeEvent, Event
<1>5. type = "retrieve" => Makes("memory.retrieved")
    BY DEF OutcomeEvent, Event
<1>6. type = "publishCapability" => Makes("capability.published")
    BY DEF OutcomeEvent, Event
<1>7. type = "useCapability" => Makes("capability.used")
    BY DEF OutcomeEvent, Event
<1>8. type = "transfer" => Makes("resource.transferred")
    BY DEF OutcomeEvent, Event
<1>9. type = "submit" => Makes("task.submitted") /\ e.about = d.action.ref
    BY DEF OutcomeEvent, Event
<1>10. type = "verify" => Makes("submission.verified")
    BY DEF OutcomeEvent, Event
<1>11. type = "connect" => Makes("link.created")
    BY DEF OutcomeEvent, Event
<1>12. type = "disconnect" => Makes("link.removed")
    BY DEF OutcomeEvent, Event
<1>13. type = "send" => Makes("message.sent") /\ e.target = d.action.ref
    BY DEF OutcomeEvent, Event
<1> HIDE DEF e, type
<1>14. Goal(e)
    BY <1>2, <1>3, <1>4, <1>5, <1>6, <1>7, <1>8, <1>9, <1>10, <1>11, <1>12, <1>13
       DEF ActionType, Aside, TaskType, EventType
<1> QED
    BY <1>1, <1>14 DEF e, type

(* An action upon the tasks: none that is to be evaluated is touched. *)
LEMMA WorkLawful ==
    ASSUME Accounted, Regular, Lawful, stage = "paid", stage' = "resolution",
           UNCHANGED <<nextTick, sequence, agenda>>,
           NEW e, WellMade(e), Commit(e), e.tick = nextTick,
           \/ e.type = "task.claimed" /\ pending' = pending
           \/ e.type = "task.submitted" /\ pending' = Append(pending, e.about)
    PROVE  Lawful'
<1>1. agenda = <<>> /\ agenda' = <<>>
    BY Resolving
<1>2. Submissions
    BY DEF Lawful
<1>3. e.type \in TaskType \ {"task.created"}
    BY DEF TaskType
<1>4. Timely' /\ InRun' /\ Numbered'
    BY <1>3, InTickLawful DEF Early, Late, TaskType
<1>5. /\ Legal(world, e, prev) /\ Takes(world', world, e) /\ world'.active = world.active
    BY <1>3, CommitMoves DEF Regular, Moves, TaskType
<1> DEFINE t == e.about
<1>6. t \in Task /\ e.actor \in world.active
    BY <1>5 DEF Legal, LegalOfTask, ActiveWithCause, HeldBy, Available
<1>7. world.task[t].status # "submitted"
    BY <1>5 DEF Legal, LegalOfTask, HeldBy, Available
<1>8. e.type = "task.submitted" => world'.task[t].status = "submitted" /\ world'.task[t].by = e.actor
    BY <1>5, <1>6 DEF Legal, LegalOfTask, HeldBy, Takes
<1> HIDE DEF t
<1>9. \A i \in DOMAIN pending :
        /\ pending[i] # t /\ pending[i] \in Task
        /\ world'.task[pending[i]].status = "submitted"
        /\ world'.task[pending[i]].by \in world'.active
    BY <1>2, <1>5, <1>7 DEF Submissions, Takes, t
<1>10. \A i, j \in DOMAIN pending : pending[i] = pending[j] => i = j
    BY <1>2 DEF Submissions
<1>11. CASE pending' = pending
    <2>1. Submissions'
        BY <1>2, <1>9, <1>10, <1>11 DEF Submissions
    <2> QED BY <1>1, <1>4, <2>1, FewMade DEF Lawful, Listed, Rewarding, Sending, Over
<1>12. CASE e.type = "task.submitted" /\ pending' = Append(pending, t)
    <2>1. /\ IsList(pending')
          /\ \A i \in DOMAIN pending' :
                \/ i \in DOMAIN pending /\ pending'[i] = pending[i]
                \/ i = Len(pending) + 1 /\ pending'[i] = t
        BY <1>2, <1>12, ListAppend DEF Submissions
    <2>2. \A i \in DOMAIN pending' :
            /\ pending'[i] \in Task /\ world'.task[pending'[i]].status = "submitted"
            /\ world'.task[pending'[i]].by \in world'.active
        BY <1>5, <1>6, <1>8, <1>9, <1>12, <2>1 DEF t
    <2>3. \A i, j \in DOMAIN pending' : pending'[i] = pending'[j] => i = j
        BY <1>9, <1>10, <2>1
    <2>4. Submissions'
        BY <2>1, <2>2, <2>3 DEF Submissions
    <2> QED BY <1>1, <1>4, <2>4, FewMade DEF Lawful, Listed, Rewarding, Sending, Over
<1> QED
    BY <1>11, <1>12 DEF t

(* A message. *)
LEMMA SendLawful ==
    ASSUME Accounted, Regular, Lawful, Act, current.action.type = "send"
    PROVE  Lawful'
<1> DEFINE e == OutcomeEvent(current)
<1>1. /\ stage = "paid" /\ stage' = "sent" /\ Commit(e) /\ ~ Silent(current) /\ Problem(current) = "none"
      /\ UNCHANGED <<nextTick, sequence, agenda, current, pending>>
    BY DEF Act, Obstacle
<1>2. agenda = <<>> /\ Submissions
    BY <1>1, Resolving
<1>3. /\ WellMade(e) /\ e.tick = nextTick /\ e.actor = current.actor
      /\ e.type = "message.sent" /\ e.target = current.action.ref
    BY <1>1, OutcomeListed DEF Accounted
<1> HIDE DEF e
<1>4. Timely' /\ InRun' /\ Numbered'
    BY <1>1, <1>3, InTickLawful DEF Early, Late
<1>5. Legal(world, e, prev) /\ Moves(world', world, e)
    BY <1>1, <1>3, CommitMoves DEF Regular
<1>6. /\ world'.task = world.task /\ world'.active = world.active /\ world'.links = world.links
      /\ world'.message = Message("sent")
    BY <1>3, <1>5 DEF Moves, TaskType, Message
<1>7. /\ current.actor \in world.active /\ current.action.ref \in world.active \ {current.actor}
      /\ Linked(world, current.actor, current.action.ref)
    BY <1>3, <1>5 DEF Legal, LegalOfMessage, ActiveWithCause
<1>8. Sending'
    BY <1>1, <1>6, <1>7 DEF Sending, Message, Linked
<1>9. Submissions'
    BY <1>1, <1>2, <1>6 DEF Submissions
<1> QED
    BY <1>1, <1>2, <1>4, <1>8, <1>9 DEF Lawful, Listed, Over

(* What is tried. *)
LEMMA ActLawful ==
    ASSUME Accounted, Regular, Lawful, ActSilently \/ ActFails \/ Act
    PROVE  Lawful'
<1>1. stage = "paid" /\ UNCHANGED <<nextTick, sequence, agenda>>
    BY DEF ActSilently, ActFails, Act
<1>2. agenda = <<>> /\ agenda' = <<>>
    BY <1>1, Resolving
<1>3. CASE ActSilently
    BY <1>1, <1>2, <1>3, ResolvingLawful DEF ActSilently, log
<1>4. CASE ActFails
    <2> DEFINE e == ViolationEvent(current, PaymentId, Obstacle(current))
    <2>1. /\ Commit(e) /\ e.tick = nextTick /\ e.type \in Aside /\ e.type \in Quiet
          /\ stage' = "resolution" /\ pending' = pending
        BY <1>4 DEF ActFails, ViolationEvent, Event, Aside, TaskType, Quiet, EventType
    <2> HIDE DEF e
    <2> QED BY <1>1, <1>2, <2>1, QuietMade, ResolvingLawful
<1>5. CASE Act /\ current.action.type # "send"
    <2> DEFINE e == OutcomeEvent(current)
               type == current.action.type
    <2>1. /\ Commit(e) /\ ~ Silent(current) /\ Problem(current) = "none" /\ stage' = "resolution"
          /\ pending' = IF type = "submit" THEN Append(pending, current.action.ref) ELSE pending
        BY <1>5 DEF Act, Obstacle
    <2>2. /\ WellMade(e) /\ e.tick = nextTick
          /\ type = "claimTask" => e.type = "task.claimed"
          /\ type = "submit" => e.type = "task.submitted" /\ e.about = current.action.ref
          /\ type \notin {"claimTask", "submit"} => e.type \in Aside
        BY <2>1, OutcomeListed DEF Accounted
    <2> HIDE DEF e, type
    <2>3. CASE type \in {"claimTask", "submit"}
        <3>1. \/ e.type = "task.claimed" /\ pending' = pending
              \/ e.type = "task.submitted" /\ pending' = Append(pending, e.about)
            BY <2>1, <2>2, <2>3
        <3> QED BY <1>1, <2>1, <2>2, <3>1, WorkLawful
    <2>4. CASE type \notin {"claimTask", "submit"}
        BY <1>1, <1>2, <2>1, <2>2, <2>4, ResolvingLawful
    <2> QED BY <2>3, <2>4
<1> QED
    BY <1>3, <1>4, <1>5, SendLawful

(* The way of a message. *)
LEMMA DeliveryLawful ==
    ASSUME Accounted, Regular, Lawful, Deliver \/ UseLink
    PROVE  Lawful'
<1>1. CASE Deliver
    <2> DEFINE e == Delivery("message.delivered", prev)
    <2>1. /\ stage = "sent" /\ stage' = "delivered" /\ Commit(e)
          /\ UNCHANGED <<nextTick, sequence, agenda, current, pending>>
        BY <1>1 DEF Deliver, memory
    <2>2. e.tick = nextTick /\ e.type = "message.delivered" /\ e.type \in Quiet
        BY DEF Delivery, Event, Quiet, EventType
    <2> HIDE DEF e
    <2>3. agenda = <<>> /\ Submissions /\ world.message = Message("sent")
        BY <2>1, Resolving DEF Lawful, Sending
    <2>4. Timely' /\ InRun' /\ Numbered'
        BY <2>1, <2>2, QuietMade, InTickLawful DEF Early, Late
    <2>5. Moves(world', world, e)
        BY <2>1, <2>2, QuietMade, CommitMoves DEF Regular
    <2>6. /\ world'.task = world.task /\ world'.active = world.active
          /\ world'.message = Message("delivered")
        BY <2>2, <2>3, <2>5 DEF Moves, TaskType, Message
    <2>7. Sending' /\ Submissions'
        BY <2>1, <2>3, <2>6 DEF Sending, Submissions, Message
    <2> QED BY <2>1, <2>3, <2>4, <2>7 DEF Lawful, Listed, Over
<1>2. CASE UseLink
    <2> DEFINE e == Delivery("link.used", prev)
    <2>1. /\ stage = "delivered" /\ stage' = "resolution" /\ Commit(e)
          /\ UNCHANGED <<nextTick, sequence, agenda, pending>>
        BY <1>2 DEF UseLink
    <2>2. e.tick = nextTick /\ e.type \in Aside /\ e.type \in Quiet
        BY DEF Delivery, Event, Aside, TaskType, Quiet, EventType
    <2> HIDE DEF e
    <2>3. agenda = <<>> /\ agenda' = <<>>
        BY <2>1, Resolving
    <2> QED BY <2>1, <2>2, <2>3, QuietMade, ResolvingLawful
<1> QED
    BY <1>1, <1>2

(* The rewards of a task that is accepted: one of each kind there is one of, *)
(* which the treasury affords.                                               *)
LEMMA RewardsListed ==
    ASSUME NEW t, NEW e, NEW i \in DOMAIN Rewards(t, e)
    PROVE  LET r == Rewards(t, e)[i]
           IN /\ e.data.accepted /\ r.type = "resource.transferred" /\ r.actor = Treasury
              /\ r.target = world.task[t].by /\ r.about = t /\ r.cause = EventId(e)
              /\ r.data.amount > 0 /\ world.treasury[r.data.kind] >= r.data.amount
              /\ \A j \in DOMAIN Rewards(t, e) :
                    Rewards(t, e)[i].data.kind = Rewards(t, e)[j].data.kind => i = j
<1> DEFINE places == {p \in DOMAIN KindOrder : AcceptedTaskReward[KindOrder[p]] > 0}
           n == Cardinality(places)
           order == Ascending(places)
           kinds == RewardedKinds
           made == [x \in DOMAIN kinds |->
                       Event("resource.transferred", nextTick, Treasury, world.task[t].by, t,
                             EventId(e),
                             [kind |-> kinds[x], amount |-> AcceptedTaskReward[kinds[x]]])]
<1>1. DOMAIN KindOrder = {1, 2} /\ \A p, q \in {1, 2} : KindOrder[p] = KindOrder[q] => p = q
    BY DEF KindOrder
<1>2. \A p \in {1, 2} : KindOrder[p] \in Kind
    BY DEF KindOrder, Kind
<1>3. kinds = [x \in DOMAIN order |-> KindOrder[order[x]]]
    BY DEF RewardedKinds, Selected
<1>4. order \in [1 .. n -> places] /\ \A x, y \in 1 .. n : order[x] = order[y] => x = y
    <2>1. IsFiniteSet(places) /\ places \subseteq Int
        <3>1. places \subseteq {1, 2}
            BY <1>1
        <3> HIDE DEF places
        <3>2. IsFiniteSet({1, 2})
            <4>1. IsFiniteSet({1}) /\ {1, 2} = {1} \union {2}
                BY FS_Singleton
            <4> QED BY <4>1, FS_AddElement
        <3>3. IsFiniteSet(places)
            BY <3>1, <3>2, FS_Subset
        <3> QED BY <3>1, <3>3
    <2> HIDE DEF places
    <2> QED BY <2>1, AscendingOf
<1>5. \A p \in places : p \in {1, 2} /\ AcceptedTaskReward[KindOrder[p]] > 0
    BY <1>1
<1> HIDE DEF places, order, n, kinds
<1>6. /\ DOMAIN kinds = 1 .. n
      /\ \A x \in 1 .. n : kinds[x] \in Kind /\ AcceptedTaskReward[kinds[x]] > 0
      /\ \A x, y \in 1 .. n : kinds[x] = kinds[y] => x = y
    BY <1>1, <1>2, <1>3, <1>4, <1>5
<1>7. Rewards(t, e) = made /\ e.data.accepted /\ Affords(world.treasury, AcceptedTaskReward)
    <2>1. Rewards(t, e) = IF e.data.accepted /\ Affords(world.treasury, AcceptedTaskReward)
                          THEN made ELSE <<>>
        BY DEF Rewards, kinds
    <2> HIDE DEF made
    <2> QED BY <2>1, FewMade
<1>8. /\ DOMAIN made = 1 .. n
      /\ \A x \in 1 .. n :
            /\ made[x].type = "resource.transferred" /\ made[x].actor = Treasury
            /\ made[x].target = world.task[t].by /\ made[x].about = t /\ made[x].cause = EventId(e)
            /\ made[x].data.kind = kinds[x] /\ made[x].data.amount = AcceptedTaskReward[kinds[x]]
    BY <1>6 DEF Event
<1> HIDE DEF made
<1>9. \A x \in 1 .. n : world.treasury[kinds[x]] >= AcceptedTaskReward[kinds[x]]
    BY <1>6, <1>7 DEF Affords
<1> QED
    BY <1>6, <1>7, <1>8, <1>9

(* The first submission, and the others. *)
LEMMA RestOfPending ==
    ASSUME Submissions, pending # <<>>, pending' = Tail(pending)
    PROVE  /\ Head(pending) \in Task /\ world.task[Head(pending)].status = "submitted"
           /\ world.task[Head(pending)].by \in world.active
           /\ IsList(pending')
           /\ \A i \in DOMAIN pending' :
                i + 1 \in DOMAIN pending /\ i \in Nat /\ pending'[i] = pending[i + 1]
                /\ pending'[i] # Head(pending)
<1>1. IsList(pending)
    BY DEF Submissions
<1>2. /\ IsList(pending') /\ 1 \in DOMAIN pending /\ Head(pending) = pending[1]
      /\ \A i \in DOMAIN pending' : i + 1 \in DOMAIN pending /\ pending'[i] = pending[i + 1]
    BY <1>1, ListParts
<1>3. DOMAIN pending' \subseteq Nat \ {0}
    BY <1>2, ListPlaces DEF IsList
<1>4. \A i \in DOMAIN pending' : i + 1 # 1
    BY <1>3
<1> QED
    BY <1>2, <1>3, <1>4 DEF Submissions

(* An evaluation, and its rewards. *)
LEMMA EvaluateLawful ==
    ASSUME Accounted, Regular, Lawful, Evaluate
    PROVE  Lawful'
<1> DEFINE t == Head(pending)
           by == world.task[t].by
           e == Evaluation(t)
<1>1. /\ stage = "resolution" /\ decisions = <<>> /\ pending # <<>> /\ Commit(e)
      /\ agenda' = Rewards(t, e) /\ pending' = Tail(pending) /\ stage' = stage
      /\ UNCHANGED <<nextTick, sequence, decisions, current>>
    BY DEF Evaluate, Evaluating
<1>2. Submissions
    BY DEF Lawful
<1>3. /\ t \in Task /\ by \in world.active /\ IsList(pending')
      /\ \A i \in DOMAIN pending' :
            i + 1 \in DOMAIN pending /\ i \in Nat /\ pending'[i] = pending[i + 1] /\ pending'[i] # t
    BY <1>1, <1>2, RestOfPending
<1>4. /\ e.tick = nextTick /\ e.type = "task.evaluated" /\ e.about = t /\ e.type \in Quiet
      /\ EventId(e) = <<"task.evaluated", by, t>>
    BY DEF Evaluation, Event, EventId, Quiet, EventType
<1> HIDE DEF e
<1>5. Timely' /\ InRun' /\ Numbered'
    BY <1>1, <1>4, QuietMade, InTickLawful DEF Early, Late
<1>6. Moves(world', world, e) /\ Takes(world', world, e)
    BY <1>1, <1>4, QuietMade, CommitMoves DEF Regular, TaskType
<1>7. /\ world'.active = world.active /\ world'.treasury = world.treasury
      /\ \A x \in Task : x # t => world'.task[x] = world.task[x]
      /\ world'.task[t].status = "completed" /\ world'.task[t].by = by
      /\ world'.task[t].accepted = e.data.accepted
    BY <1>3, <1>4, <1>6 DEF Moves, Takes, TaskType
<1>8. Submissions'
    <2>1. \A i \in DOMAIN pending' :
            /\ pending'[i] \in Task /\ world'.task[pending'[i]].status = "submitted"
            /\ world'.task[pending'[i]].by \in world'.active
        BY <1>2, <1>3, <1>7 DEF Submissions
    <2>2. ASSUME NEW i \in DOMAIN pending', NEW j \in DOMAIN pending', pending'[i] = pending'[j]
          PROVE  i = j
        <3>1. i + 1 = j + 1
            BY <1>2, <1>3, <2>2 DEF Submissions
        <3> QED BY <1>3, <3>1
    <2> QED BY <1>1, <1>3, <2>1, <2>2 DEF Submissions
<1>9. Rewarding'
    <2> DEFINE r == Rewards(t, e)
    <2>1. \A i \in DOMAIN r :
            /\ e.data.accepted /\ r[i].type = "resource.transferred" /\ r[i].actor = Treasury
            /\ r[i].target = by /\ r[i].about = t /\ r[i].cause = EventId(e)
            /\ r[i].data.amount > 0 /\ world.treasury[r[i].data.kind] >= r[i].data.amount
            /\ \A j \in DOMAIN r : r[i].data.kind = r[j].data.kind => i = j
        BY RewardsListed
    <2> HIDE DEF r, t, by
    <2>2. agenda' = r
        BY <1>1 DEF r
    <2> QED BY <1>1, <1>3, <1>4, <1>7, <2>1, <2>2 DEF Rewarding
<1> QED
    BY <1>1, <1>5, <1>8, <1>9 DEF Lawful, Listed, Sending, Over

LEMMA EvaluationFailsLawful ==
    ASSUME Accounted, Regular, Lawful, EvaluationFails
    PROVE  Lawful'
<1> DEFINE t == Head(pending)
           e == Event("violation.recorded", nextTick, world.task[t].by, Nobody, t, NoCause,
                      [action |-> "verify", reason |-> "no_oracle"])
<1>1. /\ stage = "resolution" /\ agenda = <<>> /\ agenda' = <<>> /\ stage' = stage
      /\ pending # <<>> /\ Commit(e) /\ pending' = Tail(pending)
      /\ UNCHANGED <<nextTick, sequence, decisions, current>>
    BY DEF EvaluationFails, Evaluating
<1>2. Submissions
    BY DEF Lawful
<1>3. /\ IsList(pending')
      /\ \A i \in DOMAIN pending' :
            i + 1 \in DOMAIN pending /\ i \in Nat /\ pending'[i] = pending[i + 1]
    BY <1>1, <1>2, RestOfPending
<1>4. e.tick = nextTick /\ e.type = "violation.recorded" /\ e.type \in Quiet
    BY DEF Event, Quiet, EventType
<1> HIDE DEF e
<1>5. Timely' /\ InRun' /\ Numbered'
    BY <1>1, <1>4, QuietMade, InTickLawful DEF Early, Late
<1>6. world'.active = world.active /\ world'.task = world.task
    BY <1>1, <1>4, QuietMade, CommitMoves DEF Regular, Moves, TaskType
<1>7. Submissions'
    <2>1. ASSUME NEW i \in DOMAIN pending', NEW j \in DOMAIN pending', pending'[i] = pending'[j]
          PROVE  i = j
        <3>1. i + 1 = j + 1
            BY <1>2, <1>3, <2>1 DEF Submissions
        <3> QED BY <1>3, <3>1
    <2> QED BY <1>1, <1>2, <1>3, <1>6, <2>1 DEF Submissions
<1>8. Listed'
    BY <1>1, FewMade DEF Listed, Rewarding, Over
<1> QED
    BY <1>1, <1>5, <1>7, <1>8 DEF Lawful, Sending

LEMMA RewardLawful ==
    ASSUME Accounted, Regular, Lawful, Reward
    PROVE  Lawful'
<1> DEFINE e == Head(agenda)
<1>1. /\ stage = "resolution" /\ stage' = stage /\ decisions = <<>> /\ decisions' = decisions
      /\ agenda # <<>> /\ Commit(e) /\ agenda' = Tail(agenda)
      /\ UNCHANGED <<nextTick, sequence, current, pending>>
    BY DEF Reward, CommitNext
<1>2. /\ WellMade(e) /\ 1 \in DOMAIN agenda /\ e = agenda[1]
      /\ \A i \in DOMAIN agenda' :
            i \in Nat \ {0} /\ i + 1 \in DOMAIN agenda /\ agenda'[i] = agenda[i + 1]
    BY <1>1, RestOfAgenda
<1>3. Rewarding /\ Submissions
    BY <1>1 DEF Lawful, Listed
<1>4. e.tick = nextTick /\ e.type = "resource.transferred" /\ e.actor = Treasury
    BY <1>1, <1>2, <1>3 DEF Regular, LateInTick, OfTick, Within, Late, Rewarding
<1> HIDE DEF e
<1>5. Timely' /\ InRun' /\ Numbered'
    BY <1>1, <1>2, <1>4, InTickLawful DEF Early, Late
<1>6. /\ world'.active = world.active /\ world'.task = world.task
      /\ world'.treasury = [world.treasury EXCEPT ![e.data.kind] = @ - e.data.amount]
    BY <1>1, <1>2, <1>4, CommitMoves DEF Regular, Moves, TaskType
<1>7. world.treasury \in Resources
    BY DEF Accounted, Conserved
<1>8. \A k : k # e.data.kind => world'.treasury[k] = world.treasury[k]
    BY <1>6, <1>7 DEF Resources
<1>9. Submissions'
    BY <1>1, <1>3, <1>6 DEF Submissions
<1>10. ASSUME NEW i \in DOMAIN agenda'
       PROVE  LET x == agenda'[i]
                  t == x.about
              IN /\ x.type = "resource.transferred" /\ x.actor = Treasury /\ x.target \in world'.active
                 /\ t \in Task /\ world'.task[t].status = "completed" /\ world'.task[t].accepted
                 /\ x.target = world'.task[t].by /\ x.cause = <<"task.evaluated", x.target, t>>
                 /\ x.data.amount > 0 /\ world'.treasury[x.data.kind] >= x.data.amount
    <2>1. i + 1 \in DOMAIN agenda /\ agenda'[i] = agenda[i + 1] /\ i + 1 # 1
        BY <1>2
    <2>2. agenda[i + 1].data.kind # e.data.kind
        BY <1>2, <1>3, <2>1 DEF Rewarding
    <2>3. world'.treasury[agenda[i + 1].data.kind] = world.treasury[agenda[i + 1].data.kind]
        BY <1>8, <2>2
    <2> QED BY <1>3, <1>6, <2>1, <2>3 DEF Rewarding
<1>11. ASSUME NEW i \in DOMAIN agenda', NEW j \in DOMAIN agenda',
              agenda'[i].data.kind = agenda'[j].data.kind
       PROVE  i = j
    <2>1. i + 1 = j + 1
        BY <1>2, <1>3, <1>11 DEF Rewarding
    <2> QED BY <1>2, <2>1
<1>12. Rewarding'
    BY <1>1, <1>10, <1>11 DEF Rewarding
<1> QED
    BY <1>1, <1>5, <1>9, <1>12 DEF Lawful, Listed, Sending, Over

(* Metrics. *)
LEMMA MetricsLawful ==
    ASSUME Accounted, Regular, Lawful, SkipMetrics \/ RecordMetrics \/ AppendMetrics
    PROVE  Lawful'
<1>1. /\ stage \in {"resolution", "metrics"} /\ stage' \in {"upkeep", "metrics"}
      /\ agenda = <<>> /\ pending = <<>>
      /\ UNCHANGED <<nextTick, sequence, agenda, decisions, current, pending>>
    BY DEF SkipMetrics, RecordMetrics, AppendMetrics, Evaluating, memory, Lawful, Listed, Submissions
<1>2. Timely' /\ InRun' /\ Numbered'
    <2>1. CASE SkipMetrics \/ AppendMetrics
        BY <1>1, <2>1, WaitsLawful DEF SkipMetrics, AppendMetrics, log, Late
    <2>2. CASE RecordMetrics
        <3> DEFINE e == SystemEvent("metrics.recorded", nextTick, nextTick, NoData)
        <3>1. Commit(e) /\ e.tick = nextTick /\ e.type = "metrics.recorded" /\ e.type \in Quiet
            BY <2>2 DEF RecordMetrics, SystemEvent, Event, Quiet, EventType
        <3> HIDE DEF e
        <3> QED BY <1>1, <3>1, QuietMade, InTickLawful DEF Early, Late
    <2> QED BY <2>1, <2>2
<1>3. Submissions'
    BY <1>1, FewMade DEF Submissions
<1> QED
    BY <1>1, <1>2, <1>3 DEF Lawful, Listed, Sending, Over

(* The end of a tick. *)
LEMMA CompleteTickLawful ==
    ASSUME Accounted, Regular, Lawful, CompleteTick
    PROVE  Lawful'
<1> DEFINE e == SystemEvent("tick.completed", nextTick, nextTick, NoData)
<1>1. /\ stage = "upkeep" /\ stage' \in {"checkpoint", "boundary"} /\ Commit(e)
      /\ nextTick' = nextTick + 1 /\ agenda = <<>> /\ pending = <<>>
      /\ UNCHANGED <<sequence, agenda, decisions, current, pending>>
    BY DEF CompleteTick, Lawful, Listed, Submissions
<1>2. e.tick = nextTick /\ e.type = "tick.completed" /\ e.type \in Quiet
    BY DEF SystemEvent, Event, Quiet, EventType
<1> HIDE DEF e
<1>3. /\ Moves(world', world, e) /\ world'.tick = nextTick
      /\ ~ saved'.atEnd /\ saved'.sequence = saved.sequence
    BY <1>1, <1>2, QuietMade, CommitMoves DEF Regular
<1>4. nextTick \in Nat /\ nextTick <= Ticks
    BY <1>1 DEF Regular, Basic, Lawful, Timely, Late
<1>5. Timely' /\ InRun'
    BY <1>1, <1>2, <1>3, <1>4 DEF Lawful, Timely, InRun, Moves, Over, Early, Late
<1>6. Numbered'
    BY <1>1, <1>2, <1>3 DEF Lawful, Numbered, NoneAfter, Moves, TaskType, Over
<1>7. Births' /\ Submissions'
    BY <1>1, FewMade DEF Births, Submissions
<1> QED
    BY <1>1, <1>5, <1>6, <1>7 DEF Lawful, Listed, Sending, Over

LEMMA PeriodicLawful ==
    ASSUME Accounted, Regular, Lawful, PeriodicCheckpoint
    PROVE  Lawful'
<1>1. /\ stage = "checkpoint" /\ stage' = "boundary" /\ EmitCheckpoint
      /\ agenda = <<>> /\ pending = <<>>
      /\ UNCHANGED <<world, nextTick, sequence, agenda, decisions, current, pending>>
    BY DEF PeriodicCheckpoint, log, memory, Lawful, Listed, Submissions
<1>2. Timely' /\ InRun'
    BY <1>1 DEF Lawful, Timely, InRun, Over, Early, Late
<1>3. Numbered'
    BY <1>1 DEF Lawful, Numbered, NoneAfter, EmitCheckpoint, Over
<1>4. Births' /\ Submissions'
    BY <1>1, FewMade DEF Births, Submissions
<1> QED
    BY <1>1, <1>2, <1>3, <1>4 DEF Lawful, Listed, Sending, Over

(* The end of the run. *)
LEMMA CompleteRunLawful ==
    ASSUME Accounted, Regular, Lawful, CompleteRun
    PROVE  Lawful'
<1> DEFINE e == SystemEvent("run.completed", Ticks, Ticks, NoData)
<1>1. /\ stage = "boundary" /\ agenda = <<>> /\ nextTick > Ticks /\ stage' = "completed" /\ Commit(e)
      /\ pending = <<>>
      /\ UNCHANGED <<nextTick, sequence, agenda, decisions, current, pending>>
    BY DEF CompleteRun, Idle, memory, Lawful, Submissions
<1>2. e.tick = Ticks /\ e.type = "run.completed" /\ e.type \in Quiet /\ Ticks \in Nat
    BY LabAssumption DEF SystemEvent, Event, Quiet, EventType
<1> HIDE DEF e
<1>3. /\ Moves(world', world, e) /\ world'.tick = Ticks
      /\ ~ saved'.atEnd /\ saved'.sequence = saved.sequence
    BY <1>1, <1>2, QuietMade, CommitMoves DEF Regular
<1>4. Timely' /\ InRun'
    BY <1>1, <1>2, <1>3 DEF Lawful, Timely, InRun, Over, Early, Late, Regular, Basic
<1>5. Numbered'
    BY <1>1, <1>2, <1>3 DEF Lawful, Numbered, NoneAfter, Moves, TaskType, Over
<1>6. Submissions'
    BY <1>1, FewMade DEF Submissions
<1> QED
    BY <1>1, <1>4, <1>5, <1>6 DEF Lawful, Listed, Sending, Over

(* Where the process is gone. *)
LEMMA ForgetLawful ==
    ASSUME Accounted, Regular, Lawful, FinishRun \/ Pause \/ Crash
    PROVE  Lawful'
<1>1. /\ stage \notin Over /\ stage' \in Over /\ world' = world /\ Forget
    BY DEF FinishRun, Pause, Crash, Idle, log, Over
<1>2. \/ saved' = saved
      \/ EmitCheckpoint /\ stage \in {"boundary", "completed"}
    BY DEF FinishRun, Pause, Crash, Idle
<1>3. Timely' /\ InRun'
    BY <1>1 DEF Lawful, Timely, InRun, Over, Early, Late
<1>4. Numbered'
    BY <1>1, <1>2 DEF Lawful, Numbered, NoneAfter, EmitCheckpoint, Forget, Over
<1>5. Submissions'
    BY <1>1, FewMade DEF Submissions, Forget
<1>6. Listed' /\ Sending'
    BY <1>1 DEF Listed, Sending, Forget, Over
<1> QED
    BY <1>3, <1>4, <1>5, <1>6 DEF Lawful

(* The genesis lists the start, and every agent in its place. *)
LEMMA GenesisBirths ==
    \A i \in DOMAIN GenesisEvents :
        LET e == GenesisEvents[i]
        IN IF i = 1 THEN e.type = "run.started" ELSE e.type = "agent.created" /\ e.actor = i - 1
<1> DEFINE start == SystemEvent("run.started", 0, 0, [treasury |-> TreasuryResources])
           births == [a \in Agent |-> Event("agent.created", 0, a, Nobody, 0, NoCause,
                                            [resources |-> InitialResources])]
           one == <<start>>
           all == one \o births
<1>1. /\ start.type = "run.started"
      /\ \A a \in Agent : births[a].type = "agent.created" /\ births[a].actor = a
    BY DEF SystemEvent, Event
<1>2. births \in [1 .. Agents -> {births[a] : a \in Agent}] /\ Agents \in Nat /\ DOMAIN births = Agent
    BY LabAssumption DEF Agent
<1>3. GenesisEvents = all
    BY DEF GenesisEvents
<1> HIDE DEF start, births
<1>4. IsList(births) /\ Len(births) = Agents
    BY <1>2, ListOf
<1>5. IsList(one) /\ Len(one) = 1 /\ DOMAIN one = {1} /\ one[1] = start
    BY FewMade
<1> HIDE DEF one
<1>6. /\ IsList(all)
      /\ \A i \in DOMAIN all :
            IF i <= Len(one) THEN i \in DOMAIN one /\ all[i] = one[i]
            ELSE i - Len(one) \in DOMAIN births /\ all[i] = births[i - Len(one)]
    BY <1>4, <1>5, ListJoin
<1> HIDE DEF all
<1>7. DOMAIN all \subseteq Nat \ {0}
    BY <1>6, ListPlaces DEF IsList
<1>8. \A i \in DOMAIN all :
        IF i = 1 THEN all[i].type = "run.started"
        ELSE all[i].type = "agent.created" /\ all[i].actor = i - 1
    BY <1>1, <1>2, <1>5, <1>6, <1>7
<1> QED
    BY <1>3, <1>8

(* Where the run begins, at first or once more. *)
LEMMA Begins ==
    /\ InitialWorld.tick = 0 /\ ~ InitialWorld.started /\ ~ InitialWorld.completed
    /\ \A t \in Task : InitialWorld.task[t].status = "none"
    /\ NoCheckpoint.sequence = 0 /\ ~ NoCheckpoint.atEnd
    /\ Ticks \in Nat
BY LabAssumption DEF InitialWorld, NoTask, NoCheckpoint

LEMMA InitLawful == UniverseInit => Lawful
<1> SUFFICES ASSUME UniverseInit PROVE Lawful
    OBVIOUS
<1>1. /\ world = InitialWorld /\ saved = NoCheckpoint
      /\ stage = "boundary" /\ agenda = GenesisEvents /\ nextTick = 1 /\ sequence = 0 /\ pending = <<>>
    BY DEF UniverseInit
<1>2. agenda # <<>>
    BY <1>1, GenesisListed
<1>3. Timely /\ InRun /\ Numbered
    BY <1>1, <1>2, Begins DEF Timely, InRun, Numbered, NoneAfter, Over, Early, Late
<1>4. Births
    BY <1>1, GenesisBirths, Begins DEF Births
<1>5. Submissions
    BY <1>1, FewMade DEF Submissions
<1> QED
    BY <1>1, <1>3, <1>4, <1>5 DEF Lawful, Listed, Sending, Over

LEMMA RecoverLawful ==
    ASSUME Accounted, Regular, Lawful, Recover
    PROVE  Lawful'
<1>1. /\ stage \in {"paused", "down"} /\ UNCHANGED <<world, saved, pending>>
      /\ agenda = <<>> /\ pending = <<>>
    BY DEF Recover, log, Lawful, Listed, Submissions, Over
<1>2. Submissions'
    BY <1>1, FewMade DEF Submissions
<1>3. CASE prev = NoCause
    <2>1. stage' = "boundary" /\ agenda' = GenesisEvents /\ nextTick' = 1 /\ sequence' = 0
        BY <1>3 DEF Recover
    <2>2. world' = InitialWorld /\ saved' = NoCheckpoint
        BY <1>1, <1>3 DEF Regular, Unwritten
    <2>3. agenda' # <<>>
        BY <2>1, GenesisListed
    <2>4. Timely' /\ InRun' /\ Numbered'
        BY <2>1, <2>2, <2>3, Begins DEF Timely, InRun, Numbered, NoneAfter, Over, Early, Late
    <2>5. Births'
        BY <2>1, <2>2, GenesisBirths, Begins DEF Births
    <2> QED BY <1>2, <2>1, <2>4, <2>5 DEF Lawful, Listed, Sending, Over
<1>4. CASE prev # NoCause /\ ~ world.completed /\ Resumable /\ Restorable
    <2>1. /\ stage' = "boundary" /\ agenda' = agenda
          /\ nextTick' = saved.tick + 1 /\ sequence' = saved.sequence
        BY <1>4 DEF Recover, RestoreFromCheckpoint
    <2>2. saved.atEnd /\ saved.tick = world.tick /\ world.started /\ saved.tick \in Nat
        BY <1>4 DEF Restorable, Regular, Basic
    <2>3. Timely' /\ InRun'
        BY <1>1, <1>4, <2>1, <2>2 DEF Lawful, Timely, InRun, Over, Early, Late
    <2>4. Numbered'
        BY <1>1, <2>1, <2>2 DEF Lawful, Numbered, NoneAfter, Over
    <2>5. Births'
        BY <1>1, <2>1, FewMade DEF Births
    <2> QED BY <1>2, <2>1, <2>3, <2>4, <2>5 DEF Lawful, Listed, Sending, Over
<1>5. CASE prev # NoCause /\ ~ (~ world.completed /\ Resumable /\ Restorable)
    <2>1. stage' \in {"done", "conflict"} /\ UNCHANGED <<agenda, nextTick, sequence>>
        BY <1>5 DEF Recover
    <2>2. Timely' /\ InRun'
        BY <1>1, <2>1 DEF Lawful, Timely, InRun, Over, Early, Late
    <2>3. Numbered'
        BY <1>1, <2>1 DEF Lawful, Numbered, NoneAfter, Over
    <2> QED BY <1>1, <1>2, <2>1, <2>2, <2>3 DEF Lawful, Listed, Sending, Over
<1> QED
    BY <1>3, <1>4, <1>5

LEMMA StutterLawful == Lawful /\ UNCHANGED universeVars => Lawful'
<1> SUFFICES ASSUME Lawful, UNCHANGED universeVars PROVE Lawful'
    OBVIOUS
<1>1. UNCHANGED <<world, saved, stage, nextTick, sequence, agenda, decisions, current, pending>>
    BY DEF universeVars, log, memory
<1>2. Timely' /\ InRun' /\ Numbered'
    BY <1>1 DEF Lawful, Timely, InRun, Numbered, NoneAfter
<1>3. (Births <=> Births') /\ (Retiring <=> Retiring') /\ (Expiring <=> Expiring')
    BY <1>1 DEF Births, Retiring, Expiring, Overdue, Deadline
<1>4. (Creating <=> Creating') /\ (Failing <=> Failing') /\ (Rewarding <=> Rewarding')
    BY <1>1 DEF Creating, Failing, Rewarding
<1>5. Listed'
    BY <1>1, <1>3, <1>4 DEF Lawful, Listed
<1>6. Submissions' /\ Sending'
    BY <1>1 DEF Lawful, Submissions, Sending, Message, Linked
<1> QED
    BY <1>2, <1>5, <1>6 DEF Lawful

LEMMA NextLawful == Accounted /\ Regular /\ Lawful /\ [UniverseNext]_universeVars => Lawful'
<1> SUFFICES ASSUME Accounted, Regular, Lawful, [UniverseNext]_universeVars PROVE Lawful'
    OBVIOUS
<1>1. CASE UNCHANGED universeVars
    BY <1>1, StutterLawful
<1>2. CASE Genesis \/ BeginTick \/ CommitPressure \/ BeginExpiry \/ CommitExpiry
           \/ BeginGeneration \/ CommitTask
    BY <1>2, GenesisLawful, BeginTickLawful, CommitPressureLawful, BeginExpiryLawful,
       CommitExpiryLawful, BeginGenerationLawful, CommitTaskLawful
<1>3. CASE Consult \/ CommitRecord \/ DecideAll \/ CommitPolicyError
    BY <1>3, ConsultLawful, CommitRecordLawful, DecideLawful, CommitPolicyErrorLawful
<1>4. CASE Skip \/ CostUnavailable \/ Pay \/ ActSilently \/ ActFails \/ Act \/ Deliver \/ UseLink
    BY <1>4, PaymentLawful, ActLawful, DeliveryLawful
<1>5. CASE Evaluate \/ EvaluationFails \/ Reward \/ SkipMetrics \/ RecordMetrics \/ AppendMetrics
    BY <1>5, EvaluateLawful, EvaluationFailsLawful, RewardLawful, MetricsLawful
<1>6. CASE CompleteTick \/ PeriodicCheckpoint \/ CompleteRun \/ FinishRun \/ Pause \/ Crash \/ Recover
    BY <1>6, CompleteTickLawful, PeriodicLawful, CompleteRunLawful, ForgetLawful, RecoverLawful
<1> QED
    BY <1>1, <1>2, <1>3, <1>4, <1>5, <1>6 DEF UniverseNext, Work

(* What is asked of an event beyond its being in the course of the run. *)
LEMMA LegalOfRest ==
    ASSUME NEW e, InCourse(world, e),
           \/ e.type \in {"run.started", "pressure.applied", "cognition.recorded",
                          "metrics.recorded", "tick.completed", "run.completed"}
           \/ e.type \in {"agent.created", "agent.retired"} /\ LegalOfAgent(world, e)
           \/ e.type = "task.created" /\ LegalOfTask(world, e)
           \/ e.type \in {"task.expired", "task.evaluated"} /\ LegalOfJudgement(world, e)
           \/ e.type = "violation.recorded" /\ e.actor \in world.active
           \/ e.type = "resource.transferred" /\ LegalOfResource(world, e)
           \/ e.type = "message.delivered" /\ LegalOfMessage(world, e, prev)
           \/ e.type = "link.used" /\ LegalOfLink(world, e, prev)
    PROVE  Legal(world, e, prev)
<1>1. e.type # "agent.created" /\ e.type # "agent.retired" => LegalOfAgent(world, e)
    BY DEF LegalOfAgent
<1>2. e.type \notin {"task.created", "task.claimed", "task.submitted"} => LegalOfTask(world, e)
    BY DEF LegalOfTask
<1>3. e.type \notin {"task.expired", "task.evaluated", "submission.verified"}
        => LegalOfJudgement(world, e)
    BY DEF LegalOfJudgement
<1>4. e.type \notin {"link.created", "link.removed", "link.used"} => LegalOfLink(world, e, prev)
    BY DEF LegalOfLink
<1>5. e.type \notin {"resource.spent", "resource.transferred"} => LegalOfResource(world, e)
    BY DEF LegalOfResource
<1>6. e.type \notin {"message.sent", "message.delivered"} => LegalOfMessage(world, e, prev)
    BY DEF LegalOfMessage
<1>7. e.type \notin {"memory.stored", "memory.retrieved"} => LegalOfMemory(world, e)
    BY DEF LegalOfMemory
<1>8. e.type \notin {"capability.published", "capability.used"} => LegalOfCapability(world, e)
    BY DEF LegalOfCapability
<1> QED
    BY <1>1, <1>2, <1>3, <1>4, <1>5, <1>6, <1>7, <1>8 DEF Legal

(* The next event of the agenda. *)
LEMMA AgendaIsLegal ==
    ASSUME Accounted, Regular, Lawful, agenda # <<>>
    PROVE  Legal(world, Head(agenda), prev)
<1> DEFINE e == Head(agenda)
<1>1. IsList(agenda) /\ 1 \in DOMAIN agenda /\ e = agenda[1]
    BY ListParts DEF Accounted, AllMade
<1> HIDE DEF e
<1>2. CASE stage = "boundary"
    <2>1. Opening /\ Births /\ ~ world.completed
        BY <1>2 DEF Regular, Lawful, Listed, InRun, Over
    <2>2. e.tick = 0 /\ world.tick = 0
        BY <1>1, <2>1 DEF Opening
    <2>3. IF world.started THEN e.type = "agent.created" /\ e.actor = world.born + 1
          ELSE e.type = "run.started"
        BY <1>1, <2>1 DEF Births
    <2>4. InCourse(world, e)
        BY <2>1, <2>2, <2>3 DEF InCourse, Accounted, Conserved
    <2>5. LegalOfAgent(world, e)
        BY <2>2, <2>3 DEF LegalOfAgent
    <2> QED BY <2>3, <2>4, <2>5, LegalOfRest DEF e
<1>3. CASE stage \in {"pressure", "expiry", "generation", "cognition", "decided", "resolution"}
    <2>1. /\ e.tick = nextTick /\ e.type \in EarlyType \union PlannedType
        BY <1>1, <1>3 DEF Regular, EarlyInTick, LateInTick, OfTick, Within, Early, Late
    <2>2. world.started /\ ~ world.completed /\ world.tick <= nextTick
        BY <1>3 DEF Lawful, InRun, Timely, Over, Early, Late
    <2>3. InCourse(world, e)
        BY <2>1, <2>2 DEF InCourse, EarlyType, PlannedType, Regular, Basic
    <2>4. CASE stage = "pressure"
        <3>1. Retiring
            BY <2>4 DEF Lawful, Listed
        <3>2. e.type = "agent.retired" => ActiveWithCause(world, e)
            BY <1>1, <3>1 DEF Retiring, ActiveWithCause
        <3>3. e.type \in {"pressure.applied", "agent.retired"}
            BY <1>1, <3>1 DEF Retiring
        <3>4. LegalOfAgent(world, e)
            BY <3>2, <3>3 DEF LegalOfAgent
        <3> QED BY <2>3, <3>3, <3>4, LegalOfRest DEF e
    <2>5. CASE stage = "expiry"
        <3>1. Expiring
            BY <2>5 DEF Lawful, Listed
        <3>2. e.type = "task.expired" /\ LegalOfJudgement(world, e)
            BY <1>1, <2>1, <3>1 DEF Expiring, LegalOfJudgement
        <3> QED BY <2>3, <3>2, LegalOfRest DEF e
    <2>6. CASE stage = "generation"
        <3>1. Creating /\ NoneAfter(sequence - Len(agenda)) /\ sequence \in Nat
            BY <2>6 DEF Lawful, Listed, Numbered, Over
        <3>2. Len(agenda) \in Nat
            BY <1>1 DEF IsList
        <3>3. e.type = "task.created" /\ e.about \in Task /\ e.about > sequence - Len(agenda)
            BY <1>1, <3>1, <3>2 DEF Creating
        <3>4. LegalOfTask(world, e)
            BY <3>1, <3>3 DEF NoneAfter, LegalOfTask
        <3> QED BY <2>3, <3>3, <3>4, LegalOfRest DEF e
    <2>7. CASE stage = "cognition"
        <3>1. e.type = "cognition.recorded"
            BY <1>1, <2>7 DEF Lawful, Listed
        <3> QED BY <2>3, <3>1, LegalOfRest DEF e
    <2>8. CASE stage = "decided"
        <3>1. e.type = "violation.recorded" /\ e.actor \in world.active
            BY <1>1, <2>8 DEF Lawful, Listed, Failing
        <3> QED BY <2>3, <3>1, LegalOfRest DEF e
    <2>9. CASE stage = "resolution"
        <3>1. Rewarding
            BY <2>9 DEF Lawful, Listed
        <3>2. Treasury \notin world.active
            <4>1. world.active \subseteq 1 .. world.born /\ world.born \in 0 .. Agents /\ Agents \in Nat
                BY LabAssumption DEF Accounted, Conserved
            <4> QED BY <4>1 DEF Treasury
        <3>3. e.type = "resource.transferred" /\ LegalOfResource(world, e)
            BY <1>1, <3>1, <3>2 DEF Rewarding, LegalOfResource
        <3> QED BY <2>3, <3>3, LegalOfRest DEF e
    <2> QED BY <1>3, <2>4, <2>5, <2>6, <2>7, <2>8, <2>9
<1>4. CASE stage \in {"paid", "sent", "delivered", "metrics", "upkeep", "checkpoint", "completed"}
                \union Over
    BY <1>4 DEF Lawful, Listed
<1> QED
    BY <1>2, <1>3, <1>4 DEF Regular, Early, Late, e

(* The lesser of the tick and the last one. *)
LEMMA TickOrLast ==
    ASSUME Regular
    PROVE  Min({nextTick, Ticks}) = IF nextTick <= Ticks THEN nextTick ELSE Ticks
<1>1. nextTick \in Nat /\ Ticks \in Nat
    BY LabAssumption DEF Regular, Basic
<1>2. \E x \in {nextTick, Ticks} : \A y \in {nextTick, Ticks} : x <= y
    BY <1>1
<1>3. Min({nextTick, Ticks}) \in {nextTick, Ticks}
      /\ \A y \in {nextTick, Ticks} : Min({nextTick, Ticks}) <= y
    BY <1>2 DEF Min
<1> QED
    BY <1>1, <1>3

(* And the others. *)
LEMMA LawfulNeverThrows == Accounted /\ Regular /\ Lawful => EngineNeverThrows
<1> SUFFICES ASSUME Accounted, Regular, Lawful PROVE EngineNeverThrows
    OBVIOUS
<1> DEFINE system(type) == SystemEvent(type, Min({nextTick, Ticks}), nextTick, NoData)
           completed == system("run.completed")
           handed == Delivery("message.delivered", prev)
           used == Delivery("link.used", prev)
           evaluated == Evaluation(Head(pending))
           recorded == system("metrics.recorded")
           over == system("tick.completed")
           May(e) == Legal(world, e, prev)
<1>1. nextTick \in Nat /\ Ticks \in Nat /\ world.tick \in Nat
    BY LabAssumption DEF Regular, Basic
<1>2. ASSUME stage \in Late PROVE world.started /\ ~ world.completed /\ world.tick <= nextTick
                                  /\ nextTick <= Ticks
    BY <1>2 DEF Lawful, InRun, Timely, Over, Late
<1>3. agenda # <<>> => May(Head(agenda))
    BY AgendaIsLegal
<1>4. ASSUME Idle, nextTick > Ticks PROVE May(completed)
    <2>1. world.started /\ ~ world.completed /\ world.tick <= Ticks
        BY <1>4 DEF Idle, Lawful, InRun, Timely, Over
    <2>2. Min({nextTick, Ticks}) = Ticks
        BY <1>1, <1>4, TickOrLast
    <2>3. completed.type = "run.completed" /\ completed.tick = Ticks
        BY <2>2 DEF SystemEvent, Event
    <2> HIDE DEF completed
    <2>4. InCourse(world, completed)
        BY <1>1, <2>1, <2>3 DEF InCourse
    <2> QED BY <2>3, <2>4, LegalOfRest
<1>5. ASSUME stage = "sent" PROVE May(handed)
    <2>1. /\ handed.type = "message.delivered" /\ handed.tick = nextTick
          /\ handed.actor = current.actor /\ handed.target = current.action.ref
          /\ handed.cause = prev
        BY DEF Delivery, Event
    <2> HIDE DEF handed
    <2>2. InCourse(world, handed)
        BY <1>1, <1>2, <1>5, <2>1 DEF InCourse, Late
    <2>3. LegalOfMessage(world, handed, prev)
        BY <1>5, <2>1 DEF Lawful, Sending, Message, LegalOfMessage
    <2> QED BY <2>1, <2>2, <2>3, LegalOfRest
<1>6. ASSUME stage = "delivered" PROVE May(used)
    <2>1. /\ used.type = "link.used" /\ used.tick = nextTick
          /\ used.actor = current.actor /\ used.target = current.action.ref /\ used.cause = prev
        BY DEF Delivery, Event
    <2> HIDE DEF used
    <2>2. InCourse(world, used)
        BY <1>1, <1>2, <1>6, <2>1 DEF InCourse, Late
    <2>3. LegalOfLink(world, used, prev)
        BY <1>6, <2>1 DEF Lawful, Sending, Message, LegalOfLink
    <2> QED BY <2>1, <2>2, <2>3, LegalOfRest
<1>7. ASSUME Evaluating, pending # <<>> PROVE May(evaluated)
    <2> DEFINE t == Head(pending)
    <2>1. t \in Task /\ world.task[t].status = "submitted"
        <3>1. IsList(pending) /\ Submissions
            BY DEF Lawful, Submissions
        <3> QED BY <1>7, <3>1, ListParts DEF Submissions
    <2>2. /\ evaluated.type = "task.evaluated" /\ evaluated.tick = nextTick /\ evaluated.about = t
          /\ evaluated.actor = world.task[t].by
          /\ evaluated.cause = <<"task.submitted", world.task[t].by, t>>
        BY DEF Evaluation, Event
    <2> HIDE DEF evaluated, t
    <2>3. InCourse(world, evaluated)
        BY <1>1, <1>2, <1>7, <2>2 DEF InCourse, Late, Evaluating
    <2>4. LegalOfJudgement(world, evaluated)
        BY <2>1, <2>2 DEF LegalOfJudgement
    <2> QED BY <2>2, <2>3, <2>4, LegalOfRest
<1>8. ASSUME stage \in {"resolution", "upkeep"} PROVE May(recorded) /\ May(over)
    <2>1. Min({nextTick, Ticks}) = nextTick
        BY <1>2, <1>8, TickOrLast DEF Late
    <2>2. /\ recorded.type = "metrics.recorded" /\ recorded.tick = nextTick
          /\ over.type = "tick.completed" /\ over.tick = nextTick
        BY <2>1 DEF SystemEvent, Event
    <2> HIDE DEF recorded, over
    <2>3. InCourse(world, recorded) /\ InCourse(world, over)
        BY <1>1, <1>2, <1>8, <2>2 DEF InCourse, Late
    <2> QED BY <2>2, <2>3, LegalOfRest
<1> DEFINE determined ==
            CASE agenda # <<>> -> Head(agenda)
              [] Idle /\ nextTick > Ticks -> completed
              [] stage = "sent" -> handed
              [] stage = "delivered" -> used
              [] Evaluating /\ pending # <<>> -> evaluated
              [] Evaluating /\ pending = <<>> -> recorded
              [] stage = "upkeep" -> over
              [] OTHER -> NoEvent
<1>9. EngineNeverThrows <=> (determined # NoEvent => May(determined))
    BY DEF EngineNeverThrows
<1> HIDE DEF completed, handed, used, evaluated, recorded, over, May
<1>10. Evaluating => stage \in {"resolution", "upkeep"}
    BY DEF Evaluating
<1>11. \/ determined = Head(agenda) /\ agenda # <<>>
       \/ determined = completed /\ Idle /\ nextTick > Ticks
       \/ determined = handed /\ stage = "sent"
       \/ determined = used /\ stage = "delivered"
       \/ determined = evaluated /\ Evaluating /\ pending # <<>>
       \/ determined = recorded /\ Evaluating
       \/ determined = over /\ stage = "upkeep"
       \/ determined = NoEvent
    OBVIOUS
<1> HIDE DEF determined
<1>12. determined # NoEvent => May(determined)
    BY <1>3, <1>4, <1>5, <1>6, <1>7, <1>8, <1>10, <1>11
<1> QED
    BY <1>9, <1>12

(* A tick is never stopped halfway (src/lab/world.ts, runTick and #commit):   *)
(* every event the engine determines outside an action is one the reducer     *)
(* takes, whatever was committed since it was determined and however the run  *)
(* was interrupted, in every configuration and whatever agents choose.        *)
THEOREM TheEngineNeverThrows == UniverseSpec => []EngineNeverThrows
<1>1. UniverseInit => Accounted /\ Regular /\ Lawful
    BY InitAccounted, InitRegular, InitLawful
<1>2. Accounted /\ Regular /\ Lawful /\ [UniverseNext]_universeVars
        => Accounted' /\ Regular' /\ Lawful'
    BY NextAccounted, NextRegular, NextLawful
<1>3. Accounted /\ Regular /\ Lawful => EngineNeverThrows
    BY LawfulNeverThrows
<1> QED
    BY <1>1, <1>2, <1>3, PTL DEF UniverseSpec
=============================================================================
