-------------------------- MODULE BurstBufferProofs --------------------------
(***************************************************************************)
(* The safety properties of BurstBuffer, for any settings of the provider, *)
(* any number of components and any of AllEvents, where not said otherwise.*)
(***************************************************************************)
EXTENDS BurstBuffer, Integers, TLAPS

AllServices == UNION {Asks[j] : j \in Jobs}
GatewayType == [state : GatewayStates, services : SUBSET AllServices,
                refused : SUBSET Jobs, release : ReleaseOps]

-----------------------------------------------------------------------------
(* What the gateway and the driver may answer.                             *)

\* An answer to a reserve request: a set that is held loses no service, an
\* acceptance names services that are held, nothing is accepted beside an
\* incomplete transaction, and what leaves one is an error.
ReserveAnswer(j, a) ==
  /\ a[1] \in {"accepted", "delayed", "rejected", "error", "timeout"}
  /\ a[2] \in GatewayType
  /\ a[1] = "accepted" => a[2].state = "held" /\ Asks[j] \subseteq a[2].services
  /\ gateway.state \in {"held", "incomplete"}
       => /\ a[2].state \in {"held", "incomplete"}
          /\ gateway.services \subseteq a[2].services
  /\ gateway.state = "incomplete" => a[2].state = "incomplete"
  /\ gateway.state = "released" => a[2].state = "released"
  /\ a[2].release = gateway.release

\* The stored answer of "released" is about a released set.
ReleaseRow(g) == g.release = "released" => g.state = "released"

\* An answer to a release request: a released set stays released, and is what an
\* answer of "released" speaks of.
ReleaseAnswer(a) ==
  /\ a[1] \in {"released", "unresolved", "error", "timeout"}
  /\ a[2] \in GatewayType
  /\ a[1] = "released" => a[2].state = "released"
  /\ gateway.state = "released" => a[2].state = "released"
  /\ ReleaseRow(a[2])

\* Gateway changes what it names.
LEMMA GatewayFacts ==
  ASSUME gateway \in GatewayType, NEW state \in GatewayStates,
         NEW services \in SUBSET AllServices
  PROVE  /\ Gateway(state, services) \in GatewayType
         /\ Gateway(state, services).state = state
         /\ Gateway(state, services).services = services
         /\ Gateway(state, services).release = gateway.release
  BY DEF Gateway, GatewayType

\* A refusal adds the component to those refused.
LEMMA RefusesFacts ==
  ASSUME NEW g \in GatewayType, NEW j \in Jobs
  PROVE  /\ Refuses(j, g)[1] = "rejected"
         /\ Refuses(j, g)[2] \in GatewayType
         /\ Refuses(j, g)[2].state = g.state
         /\ Refuses(j, g)[2].services = g.services
         /\ Refuses(j, g)[2].release = g.release
  BY DEF Refuses, GatewayType

\* What the driver reports has the effect of an answer, or none.
LEMMA DriverFacts ==
  ASSUME NEW answers, NEW a \in Driver(answers)
  PROVE  \/ a \in answers
         \/ a[1] \in {"error", "timeout"} /\ a[2] = gateway
         \/ \E b \in answers : a[1] \in {"error", "timeout"} /\ a[2] = b[2]
  BY DEF Driver

\* A set that is reserved from the start.
LEMMA NewSetFacts ==
  ASSUME gateway \in GatewayType, NEW j \in Jobs, NEW b \in NewSet(j),
         gateway.state \notin {"held", "incomplete", "released"}
  PROVE  ReserveAnswer(j, b)
<1>1. Asks[j] \in SUBSET AllServices /\ {} \in SUBSET AllServices
  BY DEF AllServices
<1>2. \/ b = <<"accepted", Gateway("held", Asks[j])>>
      \/ b = <<"delayed", Gateway("free", {})>>
      \/ b = Refuses(j, Gateway("rejected", Asks[j]))
      \/ b = <<"error", Gateway("free", {})>>
      \/ b = <<"error", Gateway("incomplete", Asks[j])>>
  BY DEF NewSet
<1>3. {"held", "free", "rejected", "incomplete"} \subseteq GatewayStates
  BY DEF GatewayStates
<1> QED
  BY <1>1, <1>2, <1>3, GatewayFacts, RefusesFacts DEF ReserveAnswer

\* A set that is held and asked for, or extended.
LEMMA ExtendedFacts ==
  ASSUME gateway \in GatewayType, NEW j \in Jobs, NEW b \in Extended(j),
         gateway.state = "held"
  PROVE  ReserveAnswer(j, b)
<1> DEFINE all == gateway.services \cup Asks[j]
<1>1. /\ all \in SUBSET AllServices /\ gateway.services \in SUBSET AllServices
      /\ gateway.services \subseteq all /\ Asks[j] \subseteq all
  BY DEF AllServices, GatewayType
<1>2. \/ b = <<AcceptedAs(j, all), Gateway("held", all)>>
      \/ b = <<"delayed", gateway>>
      \/ b = Refuses(j, gateway)
      \/ b = <<"error", gateway>>
      \/ b = <<"error", Gateway("incomplete", gateway.services)>>
  BY DEF Extended
<1>3. {"held", "incomplete"} \subseteq GatewayStates
  BY DEF GatewayStates
<1>4. AcceptedAs(j, all) \in {"accepted", "error"}
  BY DEF AcceptedAs
<1> HIDE DEF all
<1> QED
  BY <1>1, <1>2, <1>3, <1>4, GatewayFacts, RefusesFacts DEF ReserveAnswer

\* What the driver tells the helper of a reserve, and leaves at the gateway.
LEMMA DriverReserves ==
  ASSUME gateway \in GatewayType, NEW j \in Jobs, NEW a \in Driver(Reserves(j))
  PROVE  ReserveAnswer(j, a)
<1>1. ASSUME NEW b \in Reserves(j) PROVE ReserveAnswer(j, b)
  <2>0. ReserveAnswer(j, <<"error", gateway>>)
    BY DEF ReserveAnswer
  <2>1. CASE j \in gateway.refused
    <3>1. Reserves(j) = {<<"rejected", gateway>>}
      BY <2>1 DEF Reserves
    <3> QED
      BY <1>1, <3>1 DEF ReserveAnswer
  <2>2. CASE j \notin gateway.refused /\ gateway.state = "held"
    <3>1. Reserves(j) = Extended(j)
      BY <2>2 DEF Reserves
    <3> QED
      BY <1>1, <2>2, <3>1, ExtendedFacts
  <2>3. CASE j \notin gateway.refused /\ gateway.state = "rejected"
    <3>1. Reserves(j) = IF gateway.services = Asks[j] THEN {Refuses(j, gateway)}
                                                      ELSE NewSet(j)
      BY <2>3 DEF Reserves
    <3>2. ReserveAnswer(j, Refuses(j, gateway))
      BY <2>3, RefusesFacts DEF ReserveAnswer
    <3> QED
      BY <1>1, <2>3, <3>1, <3>2, NewSetFacts
  <2>4. CASE j \notin gateway.refused /\ gateway.state \in {"incomplete", "released"}
    <3>1. Reserves(j) = {<<"error", gateway>>}
      BY <2>4 DEF Reserves
    <3> QED
      BY <1>1, <2>0, <3>1
  <2>5. CASE j \notin gateway.refused /\ gateway.state = "unresolved"
    <3>1. Reserves(j) \subseteq {<<"error", gateway>>} \cup NewSet(j)
      BY <2>5 DEF Reserves
    <3> QED
      BY <1>1, <2>0, <2>5, <3>1, NewSetFacts
  <2>6. CASE /\ j \notin gateway.refused
             /\ gateway.state \notin {"held", "rejected", "incomplete", "released",
                                      "unresolved"}
    <3>1. Reserves(j) = NewSet(j)
      BY <2>6 DEF Reserves
    <3> QED
      BY <1>1, <2>6, <3>1, NewSetFacts
  <2> QED
    BY <2>1, <2>2, <2>3, <2>4, <2>5, <2>6
<1>2. ASSUME a[1] \in {"error", "timeout"}, a[2] = gateway PROVE ReserveAnswer(j, a)
  BY <1>2 DEF ReserveAnswer
<1>3. ASSUME NEW b \in Reserves(j), a[1] \in {"error", "timeout"}, a[2] = b[2]
      PROVE  ReserveAnswer(j, a)
  BY <1>1, <1>3 DEF ReserveAnswer
<1> QED
  BY <1>1, <1>2, <1>3, DriverFacts

\* What the driver tells the helper of a release, and leaves at the gateway.
LEMMA DriverReleases ==
  ASSUME gateway \in GatewayType, ReleaseRow(gateway), NEW a \in Driver(Releases)
  PROVE  ReleaseAnswer(a)
<1> DEFINE Answered(state) ==
             <<state, [gateway EXCEPT !.state = state, !.services = {}, !.release = state]>>
           refused == <<"error", [gateway EXCEPT !.release = "started"]>>
<1>1. ReleaseAnswer(Answered("released"))
  BY DEF ReleaseAnswer, ReleaseRow, GatewayType, GatewayStates, ReleaseOps
<1>2. gateway.state # "released" => ReleaseAnswer(Answered("unresolved"))
  BY DEF ReleaseAnswer, ReleaseRow, GatewayType, GatewayStates, ReleaseOps
<1>3. ReleaseAnswer(refused)
  BY DEF ReleaseAnswer, ReleaseRow, GatewayType, ReleaseOps
<1>4. gateway.release \in {"released", "unresolved"}
        => ReleaseAnswer(<<gateway.release, gateway>>)
  BY DEF ReleaseAnswer, ReleaseRow
<1>5. ASSUME NEW b \in Releases PROVE ReleaseAnswer(b)
  <2>1. CASE gateway.release \in {"released", "unresolved"}
    <3>1. Releases = {<<gateway.release, gateway>>}
      BY <2>1 DEF Releases
    <3> QED
      BY <1>4, <1>5, <2>1, <3>1
  <2>2. CASE gateway.release = "started"
    <3>1. Releases = {refused}
      BY <2>2 DEF Releases
    <3> QED
      BY <1>3, <1>5, <3>1
  <2>3. CASE gateway.release = "none" /\ gateway.state = "none"
    <3>1. Releases = {refused}
      BY <2>3 DEF Releases
    <3> QED
      BY <1>3, <1>5, <3>1
  <2>4. CASE gateway.release = "none" /\ gateway.state # "none"
    <3>1. Releases = {Answered("released")}
             \cup (IF "unresolved" \in Events /\ gateway.state \in {"held", "incomplete"}
                   THEN {Answered("unresolved")} ELSE {})
             \cup (IF "fail" \in Events THEN {refused} ELSE {})
      BY <2>4 DEF Releases
    <3> HIDE DEF Answered, refused
    <3> QED
      BY <1>1, <1>2, <1>3, <1>5, <3>1
  <2> QED
    BY <2>1, <2>2, <2>3, <2>4 DEF GatewayType, ReleaseOps
<1>6. ASSUME a[1] \in {"error", "timeout"}, a[2] = gateway PROVE ReleaseAnswer(a)
  BY <1>6 DEF ReleaseAnswer
<1>7. ASSUME NEW b \in Releases, a[1] \in {"error", "timeout"}, a[2] = b[2]
      PROVE  ReleaseAnswer(a)
  BY <1>5, <1>7 DEF ReleaseAnswer
<1> QED
  BY <1>5, <1>6, <1>7, DriverFacts

-----------------------------------------------------------------------------
(* The invariant.                                                          *)

\* The settings are numbers.
LEMMA SettingsFacts ==
  /\ Retries \in Nat /\ RetryDelay \in Nat /\ RetryBudget \in Nat
  /\ WaitInterval \in Nat /\ WaitBudget \in Nat
  /\ Horizon \in Nat /\ Horizon > RetryBudget /\ Horizon > WaitBudget
  BY BurstBufferAssumption

\* The number of the waits that fit in the wait budget.
MaxWaits == IF WaitInterval > 0 THEN WaitBudget \div WaitInterval ELSE 0

\* It is the largest number whose seconds are within the budget.
LEMMA MaxWaitsFacts ==
  /\ MaxWaits \in Nat
  /\ \A n \in Int : /\ n * WaitInterval <= WaitBudget
                    /\ WaitInterval = 0 => n <= 0
                    => n <= MaxWaits
<1>1. CASE WaitInterval = 0
  BY <1>1 DEF MaxWaits
<1>2. CASE WaitInterval > 0
  <2> DEFINE q == WaitBudget \div WaitInterval
  <2>0. WaitInterval \in Nat /\ WaitBudget \in Nat
    BY SettingsFacts
  <2>1. q \in Nat
    BY <1>2, <2>0
  <2> DEFINE r == WaitBudget % WaitInterval
  <2>2. r \in Nat /\ r < WaitInterval /\ WaitBudget = WaitInterval * q + r
    BY <1>2, <2>0
  <2>3. ASSUME NEW n \in Int, n > q PROVE n * WaitInterval >= q * WaitInterval + WaitInterval
    <3>1. (n - q - 1) * WaitInterval >= 0
      BY <1>2, <2>0, <2>1, <2>3
    <3>2. (n - q - 1) * WaitInterval = n * WaitInterval - q * WaitInterval - WaitInterval
      BY <2>0, <2>1
    <3> QED
      BY <3>1, <3>2, <2>0, <2>1
  <2>4. ASSUME NEW n \in Int, n * WaitInterval <= WaitBudget PROVE n <= q
    <3>1. CASE n > q
      <4>1. n * WaitInterval >= q * WaitInterval + WaitInterval
        BY <2>3, <3>1
      <4>2. q * WaitInterval = WaitInterval * q
        BY <2>0, <2>1
      <4> HIDE DEF q, r
      <4> QED
        BY <2>0, <2>1, <2>2, <2>4, <4>1, <4>2
    <3> QED
      BY <2>1, <3>1
  <2> QED
    BY <1>2, <2>1, <2>4 DEF MaxWaits
<1> QED
  BY <1>1, <1>2, SettingsFacts

\* The number of waits that fit the wait budget is a number.
LEMMA MaxWaitsNat == MaxWaits \in Nat
  BY MaxWaitsFacts

\* Slurm ends the components together, a hook runs only before or after the
\* application, and a result is there from the call to the record.
PhaseInv ==
  /\ \/ \A j \in Jobs : phase[j] \in {"staging", "prerun", "ready"}
     \/ \A j \in Jobs : phase[j] \in {"ending", "gone"}
  /\ \A j \in Jobs :
       /\ phase[j] \in {"staging", "ready", "gone"} => hook[j] = "none"
       /\ phase[j] = "ending" => hook[j] \in {"none", "read", "called"}
       /\ hook[j] # "called" => result[j] = "none"
       /\ result[j] = "accepted" => phase[j] = "prerun"
       /\ result[j] = "released" => phase[j] = "ending"

\* What a driver reported as accepted is there, from then to the end of the job:
\* held, or beside an extension that was cut off, in which case the component that
\* asked for it has no acceptance and gets none.  What a driver reported as
\* released is released, and so is what the gateway answers "released" of.
HeldInv ==
  /\ \A j \in Jobs :
       /\ phase[j] = "ready" \/ result[j] = "accepted"
            => /\ gateway.state \in {"held", "incomplete"}
               /\ Asks[j] \subseteq gateway.services
       /\ result[j] = "released" => gateway.state = "released"
  /\ gateway.state = "incomplete"
       => \E k \in Jobs : phase[k] # "ready" /\ result[k] # "accepted"
  /\ ReleaseRow(gateway)

\* The pauses of the loop that were not retries: every attempt but the first
\* follows a pause.
Waits(j) == tries[j] - retried[j] - (IF hook[j] \in {"read", "called"} THEN 1 ELSE 0)

\* The seconds of the waits have passed, and were within the budget.
LoopInv ==
  \A j \in Jobs :
    /\ phase[j] = "staging" \/ (phase[j] = "prerun" /\ hook[j] = "none")
         => tries[j] = 0 /\ retried[j] = 0
    /\ phase[j] = "prerun"
         => /\ Waits(j) * WaitInterval <= elapsed[j]
            /\ Waits(j) * WaitInterval <= WaitBudget
            /\ WaitInterval = 0 => Waits(j) <= 0

\* The bounds of PreRunBounded.
BoundInv ==
  \A j \in Jobs :
    /\ hook[j] = "pause" => elapsed[j] <= RetryBudget \/ elapsed[j] <= WaitBudget
    /\ tries[j] <= 1 + Retries + MaxWaits

Inv == TypeOK /\ PhaseInv /\ HeldInv /\ LoopInv /\ BoundInv

\* TypeOK in two parts: the provers take the history variable by itself.
StateTypeOK ==
  /\ gateway \in GatewayType
  /\ file \in [Jobs -> Record]
  /\ phase \in [Jobs -> {"staging", "prerun", "ready", "ending", "gone"}]
  /\ hook \in [Jobs -> {"none", "read", "called", "pause"}]
  /\ seen \in [Jobs -> Record]
  /\ result \in [Jobs -> Results]
  /\ tries \in [Jobs -> Nat]
  /\ retried \in [Jobs -> 0..Retries]
  /\ delay \in [Jobs -> Nat]
  /\ elapsed \in [Jobs -> 0..Horizon]
  /\ restarts \in 0..MaxRestarts

\* The parts together.
LEMMA TypeParts == StateTypeOK /\ ran \in BOOLEAN => TypeOK
  BY DEF StateTypeOK, TypeOK, GatewayType, AllServices

\* Nothing is reserved and no hook has run.
LEMMA InitInv == Init => Inv
<1> SUFFICES ASSUME Init PROVE Inv
  OBVIOUS
<1>0. ran \in BOOLEAN
  BY Zenon DEF Init
<1>a. StateTypeOK
  BY BurstBufferAssumption
  DEF Init, FirstTry, StateTypeOK, NoFile, Record, FileStates, Results, GatewayType,
      GatewayStates, ReleaseOps
<1> USE BurstBufferAssumption DEF Init, FirstTry
<1>1. TypeOK
  BY <1>0, <1>a, TypeParts, Zenon
<1>2. PhaseInv /\ HeldInv
  BY DEF PhaseInv, HeldInv, ReleaseRow
<1>3. LoopInv
  BY DEF LoopInv, Waits
<1>4. BoundInv
  <2>1. 0 <= 1 + Retries + MaxWaits
    BY MaxWaitsNat, SettingsFacts
  <2>2. \A j \in Jobs : tries[j] = 0 /\ hook[j] = "none"
    OBVIOUS
  <2> QED
    BY <2>1, <2>2 DEF BoundInv
<1> QED
  BY <1>1, <1>2, <1>3, <1>4 DEF Inv

-----------------------------------------------------------------------------
(* The steps.                                                              *)

\* The type of what a write leaves.
LEMMA WritesType ==
  ASSUME TypeOK, NEW paths, NEW first, NEW record \in Record,
         Writes(paths, record) \/ WriteFails(paths, first, record)
  PROVE  file' \in [Jobs -> Record]
  BY DEF TypeOK, Writes, WriteFails

\* The job ends: no component waits, holds a result or is ready.
LEMMA EndJobInv ==
  ASSUME Inv, EndJob, file' \in [Jobs -> Record], ran' \in BOOLEAN,
         UNCHANGED <<gateway, loop, restarts>>
  PROVE  Inv'
<1> USE DEF Inv, EndJob, loop
<1>1. TypeOK'
  BY BurstBufferAssumption DEF TypeOK, NoFile, Record, FileStates, Results
<1>2. PhaseInv' /\ HeldInv'
  BY BurstBufferAssumption DEF PhaseInv, HeldInv, ReleaseRow
<1>3. LoopInv' /\ BoundInv'
  BY DEF LoopInv, BoundInv
<1> QED
  BY <1>1, <1>2, <1>3

\* A poll of test_data_in replaces the state file and reserves nothing.
LEMMA StageInStep ==
  ASSUME Inv, NEW j \in Jobs, StageIn(j)
  PROVE  Inv'
<1>0. PICK answer \in {"accepted", "delayed", "rejected", "error"} :
    LET record == [state |-> CASE answer = "accepted" -> "evaluation-accepted"
                               [] answer = "delayed" -> "evaluation-delayed"
                               [] answer = "rejected" -> "evaluation-rejected"
                               [] OTHER -> "evaluation-error",
                   attempts |-> file[Leader].attempts, job |-> Leader]
    IN  /\ phase[j] = "staging"
        /\ \/ /\ Writes({Leader}, record)
              /\ CASE answer = "accepted" ->
                        /\ phase' = [phase EXCEPT ![j] = "prerun"]
                        /\ UNCHANGED <<hook, seen, result>>
                   [] answer = "rejected" -> EndJob
                   [] OTHER -> UNCHANGED <<phase, hook, seen, result>>
           \/ /\ WriteFails({Leader}, Leader, record)
              /\ UNCHANGED <<phase, hook, seen, result>>
        /\ UNCHANGED <<gateway, loop, life>>
  BY DEF StageIn
<1> DEFINE state == CASE answer = "accepted" -> "evaluation-accepted"
                      [] answer = "delayed" -> "evaluation-delayed"
                      [] answer = "rejected" -> "evaluation-rejected"
                      [] OTHER -> "evaluation-error"
           record == [state |-> state, attempts |-> file[Leader].attempts,
                      job |-> Leader]
<1>1. state \in FileStates
  BY DEF FileStates
<1>2. record \in Record
  BY <1>1, BurstBufferAssumption DEF Inv, TypeOK, Record
<1>3. file' \in [Jobs -> Record]
  <2>1. Writes({Leader}, record) \/ WriteFails({Leader}, Leader, record)
    BY <1>0
  <2> HIDE DEF record
  <2> QED
    BY <1>2, <2>1, WritesType DEF Inv
<1>a. phase[j] = "staging" /\ UNCHANGED <<gateway, loop, restarts, ran>>
  BY <1>0 DEF life
<1>4. CASE EndJob
  BY <1>a, <1>3, <1>4, EndJobInv DEF Inv, TypeOK
<1>5. CASE /\ phase' \in {phase, [phase EXCEPT ![j] = "prerun"]}
           /\ UNCHANGED <<hook, seen, result>>
  <2> USE <1>a, <1>5 DEF Inv, loop
  <2>1. TypeOK'
    BY <1>3 DEF TypeOK
  <2>2. PhaseInv' /\ HeldInv'
    BY DEF TypeOK, PhaseInv, HeldInv, ReleaseRow
  <2>3. Waits(j) = 0 /\ hook[j] = "none"
    BY DEF TypeOK, LoopInv, PhaseInv, Waits
  <2>4. 0 * WaitInterval = 0
    BY BurstBufferAssumption
  <2>5. LoopInv'
    <3>1. \A k \in Jobs : Waits(k)' = Waits(k)
      BY DEF Waits
    <3> QED
      BY <2>3, <2>4, <3>1, SettingsFacts DEF TypeOK, LoopInv, PhaseInv
  <2>6. BoundInv'
    BY DEF BoundInv
  <2> QED
    BY <2>1, <2>2, <2>5, <2>6
<1> HIDE DEF record
<1> QED
  BY <1>0, <1>4, <1>5

\* An attempt of pre_run starts: the helper reads the state file.
LEMMA AttemptStep ==
  ASSUME Inv, NEW j \in Jobs, Attempt(j)
  PROVE  Inv'
<1> USE SettingsFacts DEF Inv, Attempt, life
<1>1. TypeOK'
  BY BurstBufferAssumption DEF TypeOK
<1>2. PhaseInv' /\ HeldInv'
  BY DEF TypeOK, PhaseInv, HeldInv, ReleaseRow
<1>3. \A k \in Jobs : k # j => Waits(k)' = Waits(k)
  BY DEF TypeOK, Waits
<1>4. Waits(j)' <= Waits(j) /\ Waits(j)' \in Int /\ Waits(j) \in Int
  BY DEF TypeOK, Waits
<1>5. Waits(j)' * WaitInterval <= Waits(j) * WaitInterval
  BY <1>4
<1>6. LoopInv'
  BY <1>3, <1>4, <1>5 DEF TypeOK, PhaseInv, LoopInv
<1>7. Waits(j) <= MaxWaits
  BY <1>4, MaxWaitsFacts DEF LoopInv
<1>8. BoundInv'
  BY <1>7, MaxWaitsNat DEF TypeOK, PhaseInv, BoundInv, Waits
<1> QED
  BY <1>1, <1>2, <1>6, <1>8

\* The helper's reserve call, and the time it takes from the budgets of pre_run.
LEMMA ReserveStep ==
  ASSUME Inv, NEW j \in Jobs, Reserve(j)
  PROVE  Inv'
<1>1. PICK seconds \in CallTimes :
        /\ phase[j] = "prerun"
        /\ hook[j] = "read"
        /\ IF Exhausted(j)
           THEN result' = [result EXCEPT ![j] = "exhausted"] /\ UNCHANGED gateway
           ELSE \E a \in Driver(Reserves(j)) :
                  /\ result' = [result EXCEPT ![j] = a[1]]
                  /\ gateway' = a[2]
        /\ hook' = [hook EXCEPT ![j] = "called"]
        /\ elapsed' = [elapsed EXCEPT ![j] = Later(j, seconds)]
        /\ UNCHANGED <<file, phase, seen, tries, retried, delay, restarts, ran>>
  BY DEF Reserve, life
<1>2. PICK answer : /\ result' = [result EXCEPT ![j] = answer]
                    /\ answer \in Results \ {"released"}
                    /\ gateway' \in GatewayType
                    /\ answer = "accepted" => gateway'.state = "held"
                                              /\ Asks[j] \subseteq gateway'.services
                    /\ gateway.state \in {"held", "incomplete"}
                         => /\ gateway'.state \in {"held", "incomplete"}
                            /\ gateway.services \subseteq gateway'.services
                    /\ gateway.state = "incomplete" => gateway'.state = "incomplete"
                    /\ gateway.state = "released" => gateway'.state = "released"
                    /\ gateway'.release = gateway.release
  <2>0. gateway \in GatewayType
    BY DEF Inv, TypeOK, GatewayType, AllServices
  <2>1. CASE Exhausted(j)
    BY <1>1, <2>0, <2>1 DEF Results
  <2>2. CASE ~ Exhausted(j)
    <3>1. PICK a \in Driver(Reserves(j)) : /\ result' = [result EXCEPT ![j] = a[1]]
                                           /\ gateway' = a[2]
      BY <1>1, <2>2
    <3>2. ReserveAnswer(j, a)
      BY <2>0, DriverReserves
    <3> QED
      BY <3>1, <3>2 DEF ReserveAnswer, Results
  <2> QED
    BY <2>1, <2>2
<1>3. Later(j, seconds) \in 0..Horizon /\ elapsed[j] <= Later(j, seconds)
  BY SettingsFacts, BurstBufferAssumption DEF Inv, TypeOK, Later
<1> USE <1>1, <1>2, <1>3 DEF Inv
<1>4. TypeOK'
  BY DEF TypeOK, GatewayType, AllServices
<1>5. PhaseInv'
  BY DEF TypeOK, PhaseInv
<1>6. HeldInv'
  <2>1. \A k \in Jobs : k # j => result'[k] = result[k]
    BY DEF TypeOK
  <2>2. result'[j] = answer /\ result[j] = "none"
    BY DEF TypeOK, PhaseInv
  <2>3. ASSUME NEW k \in Jobs, phase'[k] = "ready" \/ result'[k] = "accepted"
        PROVE  gateway'.state \in {"held", "incomplete"} /\ Asks[k] \subseteq gateway'.services
    BY <2>1, <2>2, <2>3 DEF HeldInv
  <2>4. ASSUME NEW k \in Jobs, result'[k] = "released"
        PROVE  gateway'.state = "released"
    BY <2>1, <2>2, <2>4 DEF HeldInv
  <2>5. ASSUME gateway'.state = "incomplete"
        PROVE  phase'[j] # "ready" /\ result'[j] # "accepted"
    BY <2>2, <2>5
  <2>6. ReleaseRow(gateway')
    BY DEF HeldInv, ReleaseRow
  <2>7. ReleaseRow(gateway)'
    BY <2>6 DEF ReleaseRow
  <2> QED
    BY <2>3, <2>4, <2>5, <2>7 DEF HeldInv
<1>7. \A k \in Jobs : Waits(k)' = Waits(k)
  BY DEF TypeOK, Waits
<1>8. \A k \in Jobs : elapsed[k] <= elapsed'[k] /\ (k # j => elapsed'[k] = elapsed[k])
  BY SettingsFacts DEF TypeOK
<1>9. LoopInv'
  <2>1. \A k \in Jobs : Waits(k) * WaitInterval \in Int /\ elapsed[k] \in Int
                         /\ elapsed'[k] \in Int
    BY <1>4, SettingsFacts DEF TypeOK, Waits
  <2> QED
    BY <1>7, <1>8, <2>1, SettingsFacts DEF PhaseInv, LoopInv, TypeOK
<1>10. BoundInv'
  BY <1>8 DEF TypeOK, BoundInv
<1> QED
  BY <1>4, <1>5, <1>6, <1>9, <1>10

\* What the loop does with an exit status, if a status of 0 means acceptance.
LEMMA AfterStatusInv ==
  ASSUME Inv, NEW j \in Jobs, phase[j] = "prerun", hook[j] = "called",
         NEW status, AfterStatus(j, status), status = 0 => result[j] = "accepted",
         file' \in [Jobs -> Record], UNCHANGED <<gateway, restarts, ran>>
  PROVE  Inv'
<1>1. CASE /\ status = 0
           /\ phase' = [phase EXCEPT ![j] = "ready"]
           /\ hook' = [hook EXCEPT ![j] = "none"]
           /\ result' = [result EXCEPT ![j] = "none"]
           /\ UNCHANGED <<seen, loop>>
  <2> USE <1>1 DEF Inv, loop
  <2>1. TypeOK'
    BY DEF TypeOK, Results
  <2>2. PhaseInv' /\ HeldInv'
    BY DEF TypeOK, PhaseInv, HeldInv, ReleaseRow
  <2>3. \A k \in Jobs : k # j => Waits(k)' = Waits(k)
    BY DEF TypeOK, Waits
  <2>4. LoopInv' /\ BoundInv'
    BY <2>3 DEF TypeOK, LoopInv, BoundInv
  <2> QED
    BY <2>1, <2>2, <2>4
<1>2. CASE /\ status = 10
           /\ MayWait(j)
           /\ Pause(j, WaitInterval)
           /\ UNCHANGED <<retried, delay>>
  <2>0. /\ WaitInterval > 0 /\ elapsed[j] + WaitInterval <= WaitBudget
        /\ Later(j, WaitInterval) = elapsed[j] + WaitInterval
        /\ elapsed[j] + WaitInterval \in 0..Horizon
    BY <1>2, SettingsFacts DEF MayWait, Later, Inv, TypeOK
  <2> USE <1>2, <2>0 DEF Inv, Pause
  <2>1. TypeOK'
    BY DEF TypeOK, Results
  <2>2. PhaseInv' /\ HeldInv'
    BY DEF TypeOK, PhaseInv, HeldInv, ReleaseRow
  <2>3. \A k \in Jobs : k # j => Waits(k)' = Waits(k)
    BY DEF TypeOK, Waits
  <2>4. Waits(j) \in Int /\ Waits(j)' = Waits(j) + 1
    BY DEF TypeOK, Waits
  <2>5. Waits(j)' * WaitInterval = Waits(j) * WaitInterval + WaitInterval
    BY <2>4, SettingsFacts
  <2>6. /\ Waits(j)' * WaitInterval <= elapsed'[j]
        /\ Waits(j)' * WaitInterval <= WaitBudget
    BY <2>4, <2>5, SettingsFacts DEF TypeOK, LoopInv
  <2>7. LoopInv'
    BY <2>3, <2>6, SettingsFacts DEF TypeOK, PhaseInv, LoopInv
  <2>8. BoundInv'
    BY DEF TypeOK, BoundInv
  <2> QED
    BY <2>1, <2>2, <2>7, <2>8
<1>3. CASE /\ status = 30
           /\ MayRetry(j)
           /\ Pause(j, delay[j])
           /\ CountRetry(j)
  <2>0. /\ retried[j] < Retries /\ elapsed[j] + delay[j] <= RetryBudget
        /\ Later(j, delay[j]) = elapsed[j] + delay[j]
        /\ elapsed[j] + delay[j] \in 0..Horizon
        /\ retried[j] + 1 \in 0..Retries
    BY <1>3, SettingsFacts DEF MayRetry, Later, Inv, TypeOK
  <2> USE <1>3, <2>0 DEF Inv, Pause, CountRetry
  <2>1. TypeOK'
    BY DEF TypeOK, Results
  <2>2. PhaseInv' /\ HeldInv'
    BY DEF TypeOK, PhaseInv, HeldInv, ReleaseRow
  <2>3. \A k \in Jobs : Waits(k)' = Waits(k) /\ Waits(k) \in Int
    BY DEF TypeOK, Waits
  <2>4. Waits(j) * WaitInterval \in Int
    BY <2>3, SettingsFacts
  <2>5. LoopInv'
    BY <2>3, <2>4, SettingsFacts DEF TypeOK, PhaseInv, LoopInv
  <2>6. BoundInv'
    BY DEF TypeOK, BoundInv
  <2> QED
    BY <2>1, <2>2, <2>5, <2>6
<1>4. CASE EndJob /\ UNCHANGED loop
  BY <1>4, EndJobInv DEF Inv, TypeOK
<1> QED
  BY <1>1, <1>2, <1>3, <1>4 DEF AfterStatus

\* Only an accepted answer is status 0 (helper main).
LEMMA ExitStatusFacts ==
  ASSUME NEW answer, ExitStatus(answer) = 0
  PROVE  answer = "accepted"
<1>1. CASE answer = "delayed"
  BY <1>1 DEF ExitStatus
<1>2. CASE answer \in {"rejected", "exhausted"}
  BY <1>2 DEF ExitStatus
<1>3. CASE answer \notin {"accepted", "delayed", "rejected", "exhausted"}
  <2>1. ExitStatus(answer) = 30
    BY <1>3 DEF ExitStatus
  <2> QED
    BY <2>1
<1> QED
  BY <1>1, <1>2, <1>3

\* The record of a reserve.
LEMMA ReservedRecordType ==
  ASSUME TypeOK, NEW j \in Jobs
  PROVE  ReservedRecord(j) \in Record
<1> DEFINE state == CASE result[j] = "accepted" -> "reservation-accepted"
                      [] result[j] = "delayed" -> "reservation-delayed"
                      [] result[j] = "rejected" -> "reservation-rejected"
                      [] result[j] = "exhausted" -> "reservation-exhausted"
                      [] OTHER -> "reservation-error"
           attempts == IF result[j] = "exhausted" THEN seen[j].attempts
                                                  ELSE seen[j].attempts + 1
<1>1. state \in FileStates
  BY DEF FileStates
<1>2. attempts \in Nat
  BY DEF TypeOK, Record
<1>3. ReservedRecord(j) = [state |-> state, attempts |-> attempts, job |-> Leader]
  BY DEF ReservedRecord
<1> HIDE DEF state, attempts
<1> QED
  BY <1>1, <1>2, <1>3, BurstBufferAssumption DEF Record

\* write_state after the reserve, and what pre_run makes of the answer.
LEMMA RecordedStep ==
  ASSUME Inv, NEW j \in Jobs, Recorded(j)
  PROVE  Inv'
<1>1. ReservedRecord(j) \in Record
  BY ReservedRecordType DEF Inv
<1>2. file' \in [Jobs -> Record]
  BY <1>1, WritesType DEF Recorded, Inv
<1>3. CASE AfterStatus(j, ExitStatus(result[j]))
  BY <1>2, <1>3, AfterStatusInv, ExitStatusFacts DEF Recorded, life
<1>4. CASE AfterStatus(j, 30)
  BY <1>2, <1>4, AfterStatusInv DEF Recorded, life
<1> QED
  BY <1>3, <1>4 DEF Recorded

\* The application finishes, or the user cancels the job.
LEMMA EndStep ==
  ASSUME Inv, JobFinishes \/ UserCancels
  PROVE  Inv'
  BY EndJobInv DEF JobFinishes, UserCancels, Inv, TypeOK, life

\* What teardown finds in the file it reads.
LEMMA TeardownFacts ==
  ASSUME TypeOK, NEW j \in Jobs, Teardown(j)
  PROVE  /\ phase[j] = "ending" /\ hook[j] = "none"
         /\ UNCHANGED <<gateway, file, result, loop, restarts, ran>>
         /\ \/ \E record \in Record :
                 /\ hook' = [hook EXCEPT ![j] = "read"]
                 /\ seen' = [seen EXCEPT ![j] = record]
                 /\ file[TeardownPath(j)].state # "missing"
                      => record = file[TeardownPath(j)]
                 /\ UNCHANGED phase
            \/ /\ phase' = [phase EXCEPT ![j] = "gone"]
               /\ \/ ~ Releasable(file[TeardownPath(j)])
                  \/ file[j].state = "missing"
               /\ UNCHANGED <<hook, seen>>
<1> DEFINE path == TeardownPath(j)
           record == file[path]
           sent == IF record.state = "missing" THEN [record EXCEPT !.job = path] ELSE record
<1>1. path \in Jobs
  BY DEF TeardownPath, TypeOK, Record
<1>2. sent \in Record
  BY <1>1 DEF TypeOK, Record
<1>3. record.state # "missing" => sent = record
  OBVIOUS
<1>4. /\ phase[j] = "ending" /\ hook[j] = "none"
      /\ UNCHANGED <<gateway, file, result, loop, restarts, ran>>
  BY DEF Teardown, life
<1>5. CASE /\ hook' = [hook EXCEPT ![j] = "read"]
           /\ seen' = [seen EXCEPT ![j] = sent]
           /\ UNCHANGED phase
  <2> HIDE DEF sent
  <2> QED
    BY <1>2, <1>3, <1>4, <1>5
<1>6. CASE /\ ~ Releasable(record) \/ (file[j].state = "missing" /\ ~ ClusterConfigured)
           /\ phase' = [phase EXCEPT ![j] = "gone"]
           /\ UNCHANGED <<hook, seen>>
  BY <1>4, <1>6
<1> QED
  BY <1>5, <1>6 DEF Teardown

\* teardown reads the state file, or finds nothing to do.
LEMMA TeardownStep ==
  ASSUME Inv, NEW j \in Jobs, Teardown(j)
  PROVE  Inv'
<1>1. TypeOK
  BY DEF Inv
<1>2. /\ phase[j] = "ending" /\ hook[j] = "none"
      /\ UNCHANGED <<gateway, file, result, loop, restarts, ran>>
  BY <1>1, TeardownFacts
<1>3. \A k \in Jobs : phase[k] \in {"ending", "gone"}
  BY <1>2 DEF Inv, PhaseInv
<1>4. \/ /\ UNCHANGED phase /\ hook' = [hook EXCEPT ![j] = "read"]
         /\ seen' \in [Jobs -> Record]
      \/ phase' = [phase EXCEPT ![j] = "gone"] /\ UNCHANGED <<hook, seen>>
  BY <1>1, TeardownFacts DEF TypeOK
<1> USE <1>2, <1>3, <1>4 DEF Inv
<1>5. TypeOK'
  BY DEF TypeOK, loop
<1>6. PhaseInv' /\ HeldInv'
  BY DEF TypeOK, PhaseInv, HeldInv, ReleaseRow
<1>7. LoopInv' /\ BoundInv'
  BY DEF TypeOK, LoopInv, BoundInv, loop
<1> QED
  BY <1>5, <1>6, <1>7

\* What the release of teardown comes to.
LEMMA TeardownReleaseFacts ==
  ASSUME Inv, NEW j \in Jobs, TeardownRelease(j)
  PROVE  /\ phase[j] = "ending" /\ hook[j] = "read"
         /\ UNCHANGED <<file, phase, seen, loop, restarts, ran>>
         /\ hook' = [hook EXCEPT ![j] = "called"]
         /\ \E answer \in Results \ {"none", "accepted"} :
              /\ result' = [result EXCEPT ![j] = answer]
              /\ gateway' \in GatewayType
              /\ answer = "released" => gateway'.state = "released"
              /\ gateway.state = "released" => gateway'.state = "released"
              /\ ReleaseRow(gateway')
<1>1. gateway \in GatewayType /\ ReleaseRow(gateway)
  BY DEF Inv, TypeOK, GatewayType, AllServices, HeldInv
<1>2. CASE \E a \in Driver(Releases) : /\ result' = [result EXCEPT ![j] = a[1]]
                                       /\ gateway' = a[2]
  BY <1>1, <1>2, DriverReleases DEF ReleaseAnswer, Results, TeardownRelease, life
<1>3. CASE result' = [result EXCEPT ![j] = "error"] /\ UNCHANGED gateway
  BY <1>1, <1>3 DEF Results, TeardownRelease, life
<1> QED
  BY <1>2, <1>3 DEF TeardownRelease

\* The driver of teardown sends the release.
LEMMA TeardownReleaseStep ==
  ASSUME Inv, NEW j \in Jobs, TeardownRelease(j)
  PROVE  Inv'
<1>1. /\ phase[j] = "ending" /\ hook[j] = "read"
      /\ UNCHANGED <<file, phase, seen, loop, restarts, ran>>
      /\ hook' = [hook EXCEPT ![j] = "called"]
  BY TeardownReleaseFacts
<1>2. PICK answer \in Results \ {"none", "accepted"} :
        /\ result' = [result EXCEPT ![j] = answer]
        /\ gateway' \in GatewayType
        /\ answer = "released" => gateway'.state = "released"
        /\ gateway.state = "released" => gateway'.state = "released"
        /\ ReleaseRow(gateway')
  BY TeardownReleaseFacts
<1>3. \A k \in Jobs : phase[k] \in {"ending", "gone"}
  BY <1>1 DEF Inv, PhaseInv
<1> USE <1>1, <1>2, <1>3 DEF Inv
<1>4. TypeOK'
  BY DEF TypeOK, GatewayType, AllServices, loop
<1>5. PhaseInv'
  BY DEF TypeOK, PhaseInv
<1>6. HeldInv'
  <2>1. \A k \in Jobs : result'[k] # "accepted"
    BY DEF TypeOK, PhaseInv
  <2>2. \A k \in Jobs : result'[k] = "released" => gateway'.state = "released"
    BY DEF TypeOK, HeldInv
  <2>3. ReleaseRow(gateway)'
    BY DEF ReleaseRow
  <2> QED
    BY <2>1, <2>2, <2>3 DEF HeldInv
<1>7. LoopInv' /\ BoundInv'
  BY DEF TypeOK, LoopInv, BoundInv, loop
<1> QED
  BY <1>4, <1>5, <1>6, <1>7

\* write_state after the release ends the job.
LEMMA TeardownRecordedStep ==
  ASSUME Inv, NEW j \in Jobs, TeardownRecorded(j)
  PROVE  Inv'
<1> DEFINE record == [seen[j] EXCEPT !.state = ReleaseState(result[j])]
<1>1. record \in Record
  BY DEF Inv, TypeOK, Record, ReleaseState, FileStates
<1>2. file' \in [Jobs -> Record]
  <2> HIDE DEF record
  <2> QED
    BY <1>1, WritesType DEF TeardownRecorded, record, Inv
<1> USE <1>2 DEF Inv, TeardownRecorded, loop, life
<1>3. TypeOK'
  BY BurstBufferAssumption DEF TypeOK, NoFile, Record, FileStates, Results
<1>4. \A k \in Jobs : phase[k] \in {"ending", "gone"}
  BY DEF PhaseInv
<1>5. PhaseInv' /\ HeldInv'
  BY <1>4 DEF TypeOK, PhaseInv, HeldInv, ReleaseRow
<1>6. LoopInv' /\ BoundInv'
  BY <1>4 DEF TypeOK, LoopInv, BoundInv
<1> QED
  BY <1>3, <1>5, <1>6

\* A requeued job starts again beside the files it left.
LEMMA RequeueStep ==
  ASSUME Inv, Requeue
  PROVE  Inv'
<1>0. (ran \in BOOLEAN)'
  BY Zenon DEF Requeue
<1>a. StateTypeOK'
  BY SettingsFacts, BurstBufferAssumption
  DEF Inv, Requeue, FirstTry, TypeOK, StateTypeOK, GatewayType, AllServices
<1> USE DEF Inv, Requeue, FirstTry
<1>1. TypeOK'
  BY <1>0, <1>a, TypeParts, PTL
<1>2. PhaseInv' /\ HeldInv'
  BY BurstBufferAssumption DEF TypeOK, PhaseInv, HeldInv, ReleaseRow
<1>3. LoopInv'
  BY DEF LoopInv
<1>4. BoundInv'
  <2>1. 0 <= 1 + Retries + MaxWaits
    BY MaxWaitsNat, SettingsFacts
  <2>2. \A j \in Jobs : tries'[j] = 0 /\ hook'[j] = "none"
    BY DEF PhaseInv
  <2> QED
    BY <2>1, <2>2 DEF BoundInv
<1> QED
  BY <1>1, <1>2, <1>3, <1>4

\* Every step keeps the invariant.
LEMMA NextInv == Inv /\ [Next]_vars => Inv'
<1> SUFFICES ASSUME Inv, [Next]_vars PROVE Inv'
  OBVIOUS
<1>1. CASE Next
  BY <1>1, StageInStep, AttemptStep, ReserveStep, RecordedStep, EndStep, TeardownStep,
     TeardownReleaseStep, TeardownRecordedStep, RequeueStep DEF Next, PreRun, TearDown
<1>2. CASE UNCHANGED vars
  BY <1>2
  DEF Inv, TypeOK, PhaseInv, HeldInv, ReleaseRow, LoopInv, Waits, BoundInv, vars, loop,
      life
<1> QED
  BY <1>1, <1>2

\* The invariant, from which the theorems follow.
LEMMA InvCorrect == Spec => []Inv
  BY InitInv, NextInv, PTL DEF Spec

\* An application starts only with its reservations held, for any number of
\* components and whatever answers are lost, writes fail or hooks are killed.
THEOREM ReservedCorrect == Spec => []RunsReserved
<1>1. Inv => RunsReserved
  BY BurstBufferAssumption DEF Inv, HeldInv, RunsReserved
<1> QED
  BY <1>1, InvCorrect, PTL

\* The pre-run loop of burst_buffer.lua pauses only within its budgets, and makes
\* at most its retries and the waits that fit in the wait budget, whatever the
\* settings and however long a call takes.
THEOREM BoundedCorrect == Spec => []PreRunBounded
<1>1. Inv => PreRunBounded
  BY DEF Inv, BoundInv, PreRunBounded, MaxWaits
<1> QED
  BY <1>1, InvCorrect, PTL

-----------------------------------------------------------------------------
(* Unresolved releases.                                                    *)

\* No file says so before the first teardown.
FirstLifeInv ==
  (\A j \in Jobs : phase[j] \in {"staging", "prerun", "ready"})
    => \A j \in Jobs : file[j].state # "release-unresolved"

KeptInv == Inv /\ FirstLifeInv

\* The files that a write of one record may leave.
LEMMA WritesFacts ==
  ASSUME TypeOK, NEW paths, NEW first, NEW record,
         Writes(paths, record) \/ WriteFails(paths, first, record), NEW k \in Jobs
  PROVE  file'[k] \in {file[k], record}
  BY DEF TypeOK, Writes, WriteFails

\* A reserve writes the state of a reservation.
LEMMA ReservedRecordState ==
  ASSUME NEW j \in Jobs
  PROVE  ReservedRecord(j).state # "release-unresolved"
<1> DEFINE state == CASE result[j] = "accepted" -> "reservation-accepted"
                      [] result[j] = "delayed" -> "reservation-delayed"
                      [] result[j] = "rejected" -> "reservation-rejected"
                      [] result[j] = "exhausted" -> "reservation-exhausted"
                      [] OTHER -> "reservation-error"
<1>1. state \in {"reservation-accepted", "reservation-delayed", "reservation-rejected",
                 "reservation-exhausted", "reservation-error"}
  OBVIOUS
<1>2. ReservedRecord(j).state = state
  BY DEF ReservedRecord
<1> HIDE DEF state
<1> QED
  BY <1>1, <1>2

\* Nor does stage-in write that a release is unresolved.
LEMMA StageInWrites ==
  ASSUME TypeOK, NEW j \in Jobs, StageIn(j), NEW k \in Jobs
  PROVE  file'[k] = file[k] \/ file'[k].state # "release-unresolved"
<1>0. PICK answer \in {"accepted", "delayed", "rejected", "error"} :
    LET record == [state |-> CASE answer = "accepted" -> "evaluation-accepted"
                               [] answer = "delayed" -> "evaluation-delayed"
                               [] answer = "rejected" -> "evaluation-rejected"
                               [] OTHER -> "evaluation-error",
                   attempts |-> file[Leader].attempts, job |-> Leader]
    IN  Writes({Leader}, record) \/ WriteFails({Leader}, Leader, record)
  BY DEF StageIn
<1> DEFINE state == CASE answer = "accepted" -> "evaluation-accepted"
                      [] answer = "delayed" -> "evaluation-delayed"
                      [] answer = "rejected" -> "evaluation-rejected"
                      [] OTHER -> "evaluation-error"
           record == [state |-> state, attempts |-> file[Leader].attempts,
                      job |-> Leader]
<1>1. state \in {"evaluation-accepted", "evaluation-delayed", "evaluation-rejected",
                 "evaluation-error"}
  OBVIOUS
<1>2. Writes({Leader}, record) \/ WriteFails({Leader}, Leader, record)
  BY <1>0
<1>3. record.state # "release-unresolved"
  <2> HIDE DEF state
  <2> QED
    BY <1>1
<1> HIDE DEF record
<1> QED
  BY <1>2, <1>3, WritesFacts

\* FirstLifeInv is preserved by every step of a job that is not requeued.
LEMMA FirstLifeStep ==
  ASSUME MaxRestarts = 0, KeptInv, [Next]_vars
  PROVE  FirstLifeInv'
<1> USE DEF KeptInv, Inv, FirstLifeInv
<1>1. ASSUME NEW j \in Jobs, StageIn(j) PROVE FirstLifeInv'
  <2>1. \A k \in Jobs : phase[k] \in {"staging", "prerun", "ready"}
    BY <1>1 DEF PhaseInv, StageIn
  <2> QED
    BY <1>1, <2>1, StageInWrites
<1>2. ASSUME NEW j \in Jobs, Recorded(j) PROVE FirstLifeInv'
  <2>1. \A k \in Jobs : phase[k] \in {"staging", "prerun", "ready"}
    BY <1>2 DEF PhaseInv, Recorded
  <2>2. \A k \in Jobs : file'[k] \in {file[k], ReservedRecord(j)}
    BY <1>2, WritesFacts DEF Recorded
  <2> QED
    BY <2>1, <2>2, ReservedRecordState
<1>3. ASSUME NEW j \in Jobs, Attempt(j) \/ Reserve(j) PROVE FirstLifeInv'
  BY <1>3 DEF Attempt, Reserve
<1>4. ASSUME NEW j \in Jobs, TearDown(j) PROVE FirstLifeInv'
  <2>1. phase[j] = "ending" /\ phase' \in {phase, [phase EXCEPT ![j] = "gone"]}
    BY <1>4 DEF TearDown, Teardown, TeardownRelease, TeardownRecorded
  <2>2. phase'[j] \in {"ending", "gone"}
    BY <2>1 DEF TypeOK
  <2> QED
    BY <2>2
<1>5. CASE JobFinishes \/ UserCancels
  BY <1>5, BurstBufferAssumption DEF JobFinishes, UserCancels, EndJob
<1>6. ~ Requeue
  BY DEF Requeue, TypeOK
<1>7. CASE UNCHANGED vars
  BY <1>7 DEF vars
<1> QED
  BY <1>1, <1>2, <1>3, <1>4, <1>5, <1>6, <1>7 DEF Next, PreRun

\* A job that is not requeued: the state file that reports an unresolved release
\* says so as long as the gateway holds anything, whichever component's teardown
\* writes after it.
THEOREM UnresolvedCorrect ==
  ASSUME MaxRestarts = 0
  PROVE  Spec => UnresolvedKept
<1>1. Init => KeptInv
  BY InitInv DEF KeptInv, FirstLifeInv, Init, NoFile
<1>2. KeptInv /\ [Next]_vars => KeptInv'
  BY NextInv, FirstLifeStep DEF KeptInv
<1>3. KeptInv /\ [Next]_vars =>
        [\A j \in Jobs :
           file[j].state = "release-unresolved" /\ gateway'.state \in {"held", "incomplete", "unresolved"}
             => file'[j].state = "release-unresolved"]_vars
  <2> SUFFICES ASSUME KeptInv, Next, NEW j \in Jobs,
                      file[j].state = "release-unresolved",
                      gateway'.state \in {"held", "incomplete", "unresolved"}
               PROVE  file'[j].state = "release-unresolved"
    OBVIOUS
  <2> USE DEF KeptInv, Inv
  <2>1. \A k \in Jobs : phase[k] \in {"ending", "gone"}
    BY DEF PhaseInv, FirstLifeInv
  <2>2. ASSUME NEW k \in Jobs, TeardownRecorded(k)
        PROVE  file'[j].state = "release-unresolved"
    <3> DEFINE record == [seen[k] EXCEPT !.state = ReleaseState(result[k])]
    <3>1. result[k] # "released"
      BY <2>2 DEF HeldInv, TeardownRecorded
    <3>2. record.state = "release-unresolved"
      BY <3>1 DEF ReleaseState, TypeOK, Record
    <3>3. file'[j] \in {file[j], record}
      BY <2>2, WritesFacts DEF TeardownRecorded
    <3> HIDE DEF record
    <3> QED
      BY <3>2, <3>3
  <2>3. ASSUME NEW k \in Jobs, ~ TeardownRecorded(k)
        PROVE  ~ (StageIn(k) \/ PreRun(k)) /\ (TearDown(k) => UNCHANGED file)
    BY <2>1, <2>3
    DEF StageIn, PreRun, Attempt, Reserve, Recorded, TearDown, Teardown, TeardownRelease
  <2>4. CASE JobFinishes \/ UserCancels \/ Requeue
    BY <2>4 DEF JobFinishes, UserCancels, Requeue
  <2> QED
    BY <2>2, <2>3, <2>4 DEF Next
<1> QED
  BY <1>1, <1>2, <1>3, PTL DEF Spec, UnresolvedKept

-----------------------------------------------------------------------------
(* The teardown of a job that ran.                                         *)

\* A record that teardown releases for the canonical job, or has released.
RanRecord(record) ==
  /\ record.job = Leader
  /\ record.state \in {"reservation-accepted", "release-unresolved", "released"}
AcceptedRecord(record) == record.state = "reservation-accepted" /\ record.job = Leader

\* A pre-run that succeeded wrote the component's own file, and the last one to do
\* so the canonical file, which until then holds what any component wrote last.
ReadyInv ==
  /\ \A j \in Jobs : phase[j] = "ready" /\ j # Leader => AcceptedRecord(file[j])
  /\ (\A j \in Jobs : phase[j] = "ready") => AcceptedRecord(file[Leader])
  /\ (\E j \in Jobs : phase[j] \in {"staging", "prerun", "ready"}) => ~ ran

\* From then on the files lead to the release, until the set is released.
RanInv ==
  ran => \A j \in Jobs :
    /\ RanRecord(file[j])
    /\ hook[j] # "none" => seen[j].job = Leader
    /\ file[j].state = "released" => gateway.state = "released"
    /\ phase[j] = "gone" /\ gateway.state # "released" /\ "unwritable" \notin Events
         => file[TeardownPath(j)].state = "release-unresolved"

AfterRunInv == Inv /\ ReadyInv /\ RanInv

\* An accepted answer is recorded in the component's and the canonical file.
LEMMA AcceptedFacts ==
  ASSUME NEW j \in Jobs, result[j] = "accepted"
  PROVE  AcceptedRecord(ReservedRecord(j)) /\ ReservedPaths(j) = {Leader, j}
<1> DEFINE state == CASE result[j] = "accepted" -> "reservation-accepted"
                      [] result[j] = "delayed" -> "reservation-delayed"
                      [] result[j] = "rejected" -> "reservation-rejected"
                      [] result[j] = "exhausted" -> "reservation-exhausted"
                      [] OTHER -> "reservation-error"
<1>1. state = "reservation-accepted"
  OBVIOUS
<1>2. ReservedRecord(j).state = state /\ ReservedRecord(j).job = Leader
  BY DEF ReservedRecord
<1>3. ReservedPaths(j) = {Leader, j}
  BY DEF ReservedPaths
<1> HIDE DEF state
<1> QED
  BY <1>1, <1>2, <1>3 DEF AcceptedRecord

\* Whatever a helper writes before the job ends, it writes to the canonical file
\* and to its own.
LEMMA OtherFiles ==
  ASSUME TypeOK, NEW j \in Jobs, StageIn(j) \/ Recorded(j), NEW k \in Jobs, k # Leader, k # j
  PROVE  file'[k] = file[k]
<1>1. ASSUME NEW paths \in SUBSET {Leader, j}, NEW first, NEW record,
             Writes(paths, record) \/ WriteFails(paths, first, record)
      PROVE  file'[k] = file[k]
  BY <1>1 DEF TypeOK, Writes, WriteFails
<1>2. ReservedPaths(j) \in SUBSET {Leader, j}
  BY DEF ReservedPaths
<1>3. CASE StageIn(j)
  <2>1. \E record : Writes({Leader}, record) \/ WriteFails({Leader}, Leader, record)
    BY <1>3 DEF StageIn
  <2> QED
    BY <1>1, <2>1
<1>4. CASE Recorded(j)
  BY <1>1, <1>2, <1>4 DEF Recorded
<1> QED
  BY <1>3, <1>4

\* ReadyInv is preserved by every step.
LEMMA ReadyStep ==
  ASSUME AfterRunInv, [Next]_vars
  PROVE  ReadyInv'
<1> USE DEF AfterRunInv, Inv
<1>0. Leader \in Jobs
  BY BurstBufferAssumption
<1>a. ASSUME EndJob, ran' \in {ran, TRUE} PROVE ReadyInv'
  BY <1>0, <1>a DEF EndJob, ReadyInv
<1>1. ASSUME NEW j \in Jobs, StageIn(j) PROVE ReadyInv'
  <2>1. /\ phase[j] = "staging" /\ ran' = ran
        /\ EndJob \/ phase' \in {phase, [phase EXCEPT ![j] = "prerun"]}
    BY <1>1 DEF StageIn, life
  <2>2. CASE phase' \in {phase, [phase EXCEPT ![j] = "prerun"]}
    <3>1. phase'[j] # "ready" /\ \A k \in Jobs : phase'[k] = "ready" => phase[k] = "ready"
      BY <2>1, <2>2 DEF TypeOK
    <3>2. \A k \in Jobs : phase'[k] = "ready" /\ k # Leader => file'[k] = file[k]
      BY <1>1, <3>1, OtherFiles
    <3>3. ~ ran'
      BY <2>1 DEF ReadyInv
    <3> QED
      BY <3>1, <3>2, <3>3 DEF ReadyInv, AcceptedRecord
  <2> QED
    BY <1>a, <2>1, <2>2
<1>2. ASSUME NEW j \in Jobs, Recorded(j) PROVE ReadyInv'
  <2>1. /\ phase[j] = "prerun" /\ ran' = ran /\ ~ ran
    BY <1>2 DEF Recorded, life, ReadyInv
  <2>2. CASE EndJob
    BY <1>a, <2>1, <2>2
  <2>3. CASE phase' = phase
    <3>1. \A k \in Jobs : phase[k] = "ready" /\ k # Leader => file'[k] = file[k]
      BY <1>2, <2>1, OtherFiles
    <3> QED
      BY <2>1, <2>3, <3>1 DEF ReadyInv, AcceptedRecord
  <2>4. CASE /\ phase' = [phase EXCEPT ![j] = "ready"]
             /\ Writes(ReservedPaths(j), ReservedRecord(j))
             /\ ExitStatus(result[j]) = 0
    <3>1. result[j] = "accepted"
      BY <2>4, ExitStatusFacts
    <3>2. file'[j] = ReservedRecord(j) /\ file'[Leader] = ReservedRecord(j)
      BY <1>0, <2>4, <3>1, AcceptedFacts DEF Writes
    <3>3. AcceptedRecord(file'[j]) /\ AcceptedRecord(file'[Leader])
      BY <3>1, <3>2, AcceptedFacts
    <3>4. \A k \in Jobs : phase'[k] = "ready" /\ k # Leader /\ k # j =>
             phase[k] = "ready" /\ file'[k] = file[k]
      BY <1>2, <2>4, OtherFiles DEF TypeOK
    <3> QED
      BY <1>0, <2>1, <3>3, <3>4 DEF ReadyInv, AcceptedRecord
  <2>5. CASE AfterStatus(j, 30)
    BY <2>2, <2>3, <2>5 DEF AfterStatus, Pause
  <2>6. CASE Writes(ReservedPaths(j), ReservedRecord(j)) /\ AfterStatus(j, ExitStatus(result[j]))
    BY <2>2, <2>3, <2>4, <2>6 DEF AfterStatus, Pause
  <2> QED
    BY <1>2, <2>5, <2>6 DEF Recorded
<1>3. ASSUME NEW j \in Jobs, Attempt(j) \/ Reserve(j) PROVE ReadyInv'
  BY <1>3 DEF Attempt, Reserve, life, ReadyInv, AcceptedRecord
<1>4. ASSUME NEW j \in Jobs, TearDown(j) PROVE ReadyInv'
  <2>1. /\ phase[j] = "ending" /\ phase' \in {phase, [phase EXCEPT ![j] = "gone"]}
    BY <1>4 DEF TearDown, Teardown, TeardownRelease, TeardownRecorded
  <2>2. \A k \in Jobs : phase'[k] \in {"ending", "gone"}
    BY <2>1 DEF PhaseInv, TypeOK
  <2> QED
    BY <1>0, <2>2 DEF ReadyInv
<1>5. CASE JobFinishes \/ UserCancels
  BY <1>a, <1>5 DEF JobFinishes, UserCancels, life
<1>6. CASE Requeue
  BY <1>0, <1>6 DEF Requeue, ReadyInv
<1>7. CASE UNCHANGED vars
  BY <1>7 DEF vars, life, ReadyInv, AcceptedRecord
<1> QED
  BY <1>1, <1>2, <1>3, <1>4, <1>5, <1>6, <1>7 DEF Next, PreRun

\* RanInv is preserved by every step.
LEMMA RanStep ==
  ASSUME AfterRunInv, [Next]_vars
  PROVE  RanInv'
<1> USE DEF AfterRunInv, Inv
<1>0. Leader \in Jobs
  BY BurstBufferAssumption
<1>1. ASSUME NEW j \in Jobs, StageIn(j) \/ PreRun(j) PROVE RanInv'
  <2>1. phase[j] \in {"staging", "prerun"} /\ ran' = ran
    BY <1>1 DEF StageIn, PreRun, Attempt, Reserve, Recorded, life
  <2> QED
    BY <2>1 DEF ReadyInv, RanInv
<1>2. CASE JobFinishes
  <2>1. \A j \in Jobs : RanRecord(file[j]) /\ file[j].state = "reservation-accepted"
    BY <1>2 DEF JobFinishes, ReadyInv, AcceptedRecord, RanRecord
  <2> QED
    BY <1>2, <2>1 DEF JobFinishes, EndJob, RanInv, RanRecord
<1>3. CASE UserCancels
  BY <1>3 DEF UserCancels, life, ReadyInv, RanInv
<1>4. CASE Requeue
  BY <1>4 DEF Requeue, RanInv
<1>5. CASE UNCHANGED vars
  BY <1>5 DEF vars, life, RanInv, RanRecord, TeardownPath
<1>6. ASSUME NEW j \in Jobs, TearDown(j), ran PROVE RanInv'
  <2>1. \A k \in Jobs : TeardownPath(k) = IF ClusterConfigured THEN k ELSE Leader
    BY <1>6 DEF TeardownPath, RanInv, RanRecord
  <2>2. CASE Teardown(j)
    <3>1. /\ phase[j] = "ending" /\ hook[j] = "none"
          /\ UNCHANGED <<gateway, file, result, loop, restarts, ran>>
      BY <2>2, TeardownFacts
    <3> DEFINE record == file[TeardownPath(j)]
    <3>2. RanRecord(record) /\ record.state # "missing" /\ file[j].state # "missing"
          /\ (record.state = "released" => gateway.state = "released")
      BY <1>0, <1>6, <2>1 DEF RanInv, RanRecord
    <3>3. CASE /\ hook' = [hook EXCEPT ![j] = "read"]
               /\ seen' = [seen EXCEPT ![j] = record]
               /\ UNCHANGED phase
      BY <1>6, <3>1, <3>2, <3>3 DEF RanInv, RanRecord, TypeOK, TeardownPath
    <3>4. CASE /\ phase' = [phase EXCEPT ![j] = "gone"]
               /\ ~ Releasable(record)
               /\ UNCHANGED <<hook, seen>>
      <4>1. gateway.state = "released"
        BY <3>2, <3>4 DEF Releasable, RanRecord
      <4> QED
        BY <1>6, <3>1, <3>4, <4>1 DEF RanInv, RanRecord
    <3> QED
      BY <2>2, <3>2, <3>3, <3>4, TeardownFacts
  <2>3. CASE TeardownRelease(j)
    <3>1. /\ phase[j] = "ending" /\ hook[j] = "read"
          /\ UNCHANGED <<file, phase, seen, loop, restarts, ran>>
          /\ hook' = [hook EXCEPT ![j] = "called"]
          /\ gateway.state = "released" => gateway'.state = "released"
      BY <2>3, TeardownReleaseFacts
    <3> QED
      BY <1>6, <3>1 DEF RanInv, RanRecord, TypeOK, TeardownPath
  <2>4. CASE TeardownRecorded(j)
    <3> DEFINE path == IF ClusterConfigured THEN j ELSE seen[j].job
               record == [seen[j] EXCEPT !.state = ReleaseState(result[j])]
    <3>1. /\ phase[j] = "ending" /\ hook[j] = "called"
          /\ phase' = [phase EXCEPT ![j] = "gone"]
          /\ hook' = [hook EXCEPT ![j] = "none"]
          /\ seen' = [seen EXCEPT ![j] = NoFile]
          /\ UNCHANGED <<gateway, ran>>
          /\ \/ Writes({path, seen[j].job}, record)
             \/ WriteFails({path, seen[j].job}, path, record)
      BY <2>4 DEF TeardownRecorded, life
    <3>2. seen[j].job = Leader
      BY <1>6, <3>1 DEF RanInv
    <3>3. /\ record.job = Leader
          /\ record.state = IF result[j] = "released" THEN "released" ELSE "release-unresolved"
      BY <3>2 DEF TypeOK, Record, ReleaseState
    <3>4. result[j] = "released" => gateway.state = "released"
      BY DEF HeldInv
    <3>5. path = TeardownPath(j)
      BY <2>1, <3>2
    <3> HIDE DEF record
    <3>6. \A k \in Jobs : file'[k] \in {file[k], record}
      BY <3>1, WritesFacts
    <3>7. "unwritable" \notin Events => file'[TeardownPath(j)] = record
      BY <1>0, <2>1, <3>1, <3>5 DEF Writes, WriteFails
    <3>8. \A k \in Jobs : RanRecord(file'[k])
      BY <1>6, <3>3, <3>6 DEF RanInv, RanRecord
    <3>9. \A k \in Jobs : TeardownPath(k)' = TeardownPath(k)
      BY <2>1, <3>8 DEF TeardownPath, RanRecord
    <3>10. \A k \in Jobs : file'[k].state = "released" => gateway'.state = "released"
      BY <1>6, <3>1, <3>3, <3>4, <3>6 DEF RanInv
    <3>11. \A k \in Jobs : hook'[k] # "none" => seen'[k].job = Leader
      BY <1>6, <3>1 DEF RanInv, TypeOK
    <3>12. ASSUME NEW k \in Jobs, phase'[k] = "gone", gateway'.state # "released",
                  "unwritable" \notin Events
           PROVE  file'[TeardownPath(k)].state = "release-unresolved"
      <4>1. record.state = "release-unresolved"
        BY <3>1, <3>3, <3>4, <3>12
      <4>2. CASE k = j
        BY <3>7, <3>12, <4>1, <4>2
      <4>3. CASE k # j
        <5>1. file[TeardownPath(k)].state = "release-unresolved"
          BY <1>6, <3>1, <3>12, <4>3 DEF RanInv, TypeOK
        <5>2. TeardownPath(k) \in Jobs
          BY <1>0, <2>1
        <5> QED
          BY <3>6, <4>1, <5>1, <5>2
      <4> QED
        BY <4>2, <4>3
    <3> QED
      BY <3>8, <3>9, <3>10, <3>11, <3>12 DEF RanInv
  <2> QED
    BY <1>6, <2>2, <2>3, <2>4 DEF TearDown
<1>7. ASSUME NEW j \in Jobs, TearDown(j), ~ ran PROVE RanInv'
  <2>1. ran' = ran
    BY <1>7 DEF TearDown, Teardown, TeardownRelease, TeardownRecorded, life
  <2> QED
    BY <1>7, <2>1 DEF RanInv
<1> QED
  BY <1>1, <1>2, <1>3, <1>4, <1>5, <1>6, <1>7 DEF Next

\* A job whose application ran, plain or heterogeneous, requeued or not, with or
\* without a configured cluster and whatever is lost, fails or is left unresolved:
\* after its teardown, what the gateway has not released is reported.
THEOREM RanCorrect == Spec => []RanIsReleased
<1>1. Init => AfterRunInv
  BY InitInv, BurstBufferAssumption DEF AfterRunInv, ReadyInv, RanInv, Init
<1>2. AfterRunInv /\ [Next]_vars => AfterRunInv'
  BY NextInv, ReadyStep, RanStep DEF AfterRunInv
<1>3. AfterRunInv => RanIsReleased
  <2> SUFFICES ASSUME AfterRunInv, ran, \A j \in Jobs : phase[j] = "gone",
                      gateway.state # "released", NEW j \in Jobs
               PROVE  file[TeardownPath(j)].state \in {"release-unresolved"}
                        \cup (IF "unwritable" \in Events THEN {"reservation-accepted"} ELSE {})
    BY DEF RanIsReleased
  <2>1. TeardownPath(j) \in Jobs
    BY DEF AfterRunInv, Inv, TypeOK, Record, TeardownPath
  <2>2. /\ RanRecord(file[TeardownPath(j)])
        /\ file[TeardownPath(j)].state # "released"
        /\ "unwritable" \notin Events => file[TeardownPath(j)].state = "release-unresolved"
    BY <2>1 DEF AfterRunInv, RanInv
  <2> QED
    BY <2>2 DEF RanRecord
<1> QED
  BY <1>1, <1>2, <1>3, PTL DEF Spec
==============================================================================
