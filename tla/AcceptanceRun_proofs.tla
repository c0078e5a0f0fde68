-------------------------- MODULE AcceptanceRun_proofs --------------------------
(***************************************************************************)
(* Proofs about AcceptanceRun, for every script whose calls are careful    *)
(* about the slave mode and for any number of failing calls: types are     *)
(* kept, the slave mode comes back or the exit code tells, and so does     *)
(* everything the text of the script watches.                              *)
(***************************************************************************)
EXTENDS AcceptanceSteps, SequenceTheorems, FiniteSetTheorems, TLAPS

ScriptStep == [run : Seq(CarefulCalls), close : Seq(CarefulCalls)]

(* The last step of a run is the restoration, the others are the script's. *)
LEMMA StepsShape ==
    ASSUME target \in Targets
    PROVE  /\ Restoring \in Nat \ {0}
           /\ Steps[Restoring] = Restoration
           /\ \A i \in 1 .. Restoring - 1 : /\ i \in DOMAIN Script[target]
                                            /\ Steps[i] = Script[target][i]
                                            /\ Steps[i] \in ScriptStep
<1>1. Script[target] \in Seq(ScriptStep)
  BY ScriptAssumption DEF ScriptStep
<1>2. Steps = Append(Script[target], Restoration)
  BY DEF Steps, AllSteps
<1>3. QED
  BY <1>1, <1>2 DEF Restoring

(* The restoration makes two calls.                                        *)
LEMMA RestorationCalls ==
    ASSUME target \in Targets, at[1] = Restoring
    PROVE  /\ Step = Restoration
           /\ Len(Step.run) = 2
           /\ Len(Calls) = 2
           /\ \A n \in 1 .. 2 : /\ Calls[n].guard = {SlaveMode}
                                /\ Calls[n].puts = {} /\ Calls[n].teaches = {}
                                /\ Calls[n].undoes \subseteq Things
                                /\ Calls[n].wrong = "abort" /\ Calls[n].none = "abort"
           /\ SlaveMode \in Calls[1].undoes
<1>1. Step = Restoration
  BY StepsShape DEF Step
<1>2. Restoration.close = << >> /\ Len(Restoration.run) = 2
  BY DEF Restoration
<1>3. Calls = Restoration.run
  <2>1. Restoration.run \in Seq({Restoration.run[1], Restoration.run[2]})
    BY DEF Restoration
  <2>2. QED
    BY <1>1, <1>2, <2>1, ConcatEmptySeq DEF Calls
<1>4. QED
  BY <1>1, <1>2, <1>3 DEF Restoration, Things

(* The length alone, for the steps that count.                             *)
LEMMA RestorationLength ==
    ASSUME target \in Targets, at[1] = Restoring
    PROVE  Len(Calls) = 2
  BY RestorationCalls

(* A call of the script is a careful one, and changes things it mentions.  *)
LEMMA ScriptCalls ==
    ASSUME target \in Targets, at[1] \in 1 .. Restoring - 1
    PROVE  /\ Len(Step.run) \in Nat /\ Len(Step.close) \in Nat
           /\ Len(Calls) = Len(Step.run) + Len(Step.close)
           /\ at[2] \in 1 .. Len(Calls) =>
                /\ Current \in CarefulCalls
                /\ Current.puts \subseteq Things /\ Current.teaches \subseteq Things
<1>1. Step \in ScriptStep /\ at[1] \in DOMAIN Script[target] /\ Step = Script[target][at[1]]
  BY StepsShape DEF Step
<1>2. Step.run \in Seq(CarefulCalls) /\ Step.close \in Seq(CarefulCalls)
  BY <1>1 DEF ScriptStep
<1>3. Len(Step.run) \in Nat /\ Len(Step.close) \in Nat
  BY <1>2
<1>. DEFINE r == Len(Step.run)  k == Len(Step.close)
<1>4. /\ Len(Calls) = r + k
      /\ \A j \in 1 .. r + k :
           Calls[j] = IF j <= r THEN Step.run[j] ELSE Step.close[j - r]
  BY <1>2, ConcatProperties DEF Calls
<1>. HIDE DEF r, k
<1>5. ASSUME at[2] \in 1 .. Len(Calls)
      PROVE  /\ Current \in CarefulCalls
             /\ Current.puts \subseteq Things /\ Current.teaches \subseteq Things
  <2>1. \/ \E j \in 1 .. r : Current = Step.run[j]
        \/ \E j \in 1 .. k : Current = Step.close[j]
    <3>0. r \in Nat /\ k \in Nat
      BY <1>3 DEF r, k
    <3>1. CASE at[2] <= r
      BY <3>0, <1>4, <1>5, <3>1 DEF Current
    <3>2. CASE at[2] > r
      BY <3>0, <1>4, <1>5, <3>2 DEF Current
    <3>3. QED
      BY <3>0, <1>4, <1>5, <3>1, <3>2
  <2>2. Current \in CarefulCalls
    BY <1>2, <2>1 DEF r, k
  <2>3. Mentioned(Current) \subseteq Things
    <3>1. \/ \E j \in DOMAIN Step.run : Current = Step.run[j]
          \/ \E j \in DOMAIN Step.close : Current = Step.close[j]
      BY <1>2, <2>1 DEF r, k
    <3>2. Current \in CallsOf(Step)
      BY <3>1 DEF CallsOf
    <3>3. Mentioned(Current) \subseteq ThingsOf(Step)
      BY <3>2 DEF ThingsOf
    <3>4. ThingsOf(Step) \subseteq Things
      BY <1>1 DEF Things
    <3>5. QED
      BY <3>3, <3>4
  <2>4. QED
    BY <2>2, <2>3 DEF Mentioned
<1>6. QED
  BY <1>3, <1>4, <1>5 DEF r, k

-----------------------------------------------------------------------------
Length(i) == Len(Steps[i].run \o Steps[i].close)

(* Every step of a run, of the script or the restoration, is a sequence of *)
(* calls, its closing calls behind the others.                             *)
LEMMA StepLengths ==
    ASSUME target \in Targets, NEW i \in 1 .. Restoring
    PROVE  Len(Steps[i].run) \in Nat /\ Length(i) \in Nat /\ Len(Steps[i].run) <= Length(i)
<1>. DEFINE r == Len(Steps[i].run)  k == Len(Steps[i].close)  n == Length(i)
<1>1. r \in Nat /\ k \in Nat /\ n = r + k
  <2>1. CASE i # Restoring
    <3>1. Steps[i].run \in Seq(CarefulCalls) /\ Steps[i].close \in Seq(CarefulCalls)
      BY <2>1, StepsShape DEF ScriptStep
    <3>2. r \in Nat /\ k \in Nat
      BY <3>1, LenProperties
    <3>3. QED
      BY <3>1, <3>2, ConcatProperties, Zenon DEF Length
  <2>2. CASE i = Restoring
    <3>1. /\ Len(Restoration.run) = 2 /\ Restoration.close = << >>
          /\ Restoration.run \in Seq({Restoration.run[1], Restoration.run[2]})
      BY DEF Restoration
    <3>2. Restoration.run \o Restoration.close = Restoration.run
      BY <3>1, ConcatEmptySeq
    <3>3. Steps[i] = Restoration
      BY <2>2, StepsShape
    <3>4. r = 2 /\ k = 0
      BY <3>1, <3>3
    <3>5. n = 2
      BY <3>1, <3>2, <3>3, Zenon DEF Length
    <3>6. QED
      BY <3>4, <3>5
  <2>3. QED
    BY <2>1, <2>2
<1>. HIDE DEF r, k, n
<1>2. n \in Nat /\ r <= n
  BY <1>1
<1>3. QED
  BY <1>1, <1>2 DEF r, n

(* A place in the run: a call of a step or behind its calls, or the end.   *)
Place(i, j) ==
    /\ i \in 1 .. Restoring + 1 /\ j \in Nat \ {0}
    /\ i <= Restoring => j <= Length(i) + 1

(* The first call of a step is a place, and so is the end.                 *)
LEMMA FirstPlace ==
    ASSUME target \in Targets, NEW i \in 1 .. Restoring + 1
    PROVE  Place(i, 1)
<1>1. Restoring \in Nat \ {0}
  BY StepsShape
<1>2. i <= Restoring => Length(i) \in Nat
  BY <1>1, StepLengths
<1>3. QED
  BY <1>1, <1>2 DEF Place

(* Wherever a reaction leads is a place in the run.                        *)
LEMMA ReactPlace ==
    ASSUME target \in Targets, Place(at[1], at[2]), at[1] <= Restoring, at[2] <= Length(at[1]),
           NEW reaction \in Reactions
    PROVE  \E i, j : After(reaction) = <<i, j>> /\ Place(i, j)
<1>1. Restoring \in Nat \ {0}
  BY StepsShape
<1>2. at[1] \in 1 .. Restoring /\ at[2] \in Nat \ {0}
  BY <1>1 DEF Place
<1>3. Place(Restoring, 1) /\ Place(Restoring + 1, 1) /\ Place(at[1] + 1, 1)
  BY <1>1, <1>2, FirstPlace
<1>4. Length(at[1]) \in Nat /\ Len(Step.run) \in Nat /\ Len(Step.run) <= Length(at[1])
  BY <1>2, StepLengths DEF Step
<1>5. Place(at[1], at[2] + 1) /\ Place(at[1], Len(Step.run) + 1)
  BY <1>1, <1>2, <1>4 DEF Place
<1>6. QED
  BY <1>3, <1>5 DEF After, AfterAbort

(* The type invariant speaks of a place.                                   *)
Types ==
    /\ target \in Targets
    /\ \E i, j : at = <<i, j>> /\ Place(i, j)
    /\ left \subseteq Things /\ known \subseteq Things
    /\ failed \in BOOLEAN /\ broken \subseteq {"run", "restore"}
    /\ faults \in 0 .. MaxFaults

(* Both ways of saying it are the same.                                    *)
LEMMA TypesAreTypes == AcceptanceTypeOK <=> Types
<1>0. ASSUME target \in Targets
      PROVE  Restoring \in Nat \ {0} /\ Len(Calls) = Length(at[1])
  BY <1>0, StepsShape DEF Calls, Step, Length
<1>1. ASSUME AcceptanceTypeOK PROVE Types
  <2>1. at = <<at[1], at[2]>> /\ Place(at[1], at[2])
    BY <1>0, <1>1 DEF AcceptanceTypeOK, Place, Ended
  <2>2. QED
    BY <1>1, <2>1 DEF AcceptanceTypeOK, Types
<1>2. ASSUME Types PROVE AcceptanceTypeOK
  <2>1. PICK i, j : at = <<i, j>> /\ Place(i, j)
    BY <1>2 DEF Types
  <2>2. at[1] = i /\ at[2] = j
    BY <2>1
  <2>3. at \in (1 .. Restoring + 1) \X (Nat \ {0})
    BY <2>1 DEF Place
  <2>4. ~Ended => at[2] <= Len(Calls) + 1
    BY <1>0, <1>2, <2>1, <2>2 DEF Place, Ended, Types
  <2>5. QED
    BY <1>2, <2>3, <2>4 DEF AcceptanceTypeOK, Types
<1>3. QED
  BY <1>1, <1>2

(* A call that is made is a careful one, or one of the restoration; and    *)
(* what it puts, undoes and teaches are things of the run.                 *)
LEMMA CallMade ==
    ASSUME Types, Calling
    PROVE  /\ Place(at[1], at[2])
           /\ at[1] \in 1 .. Restoring /\ at[2] <= Length(at[1])
           /\ Current.wrong \in Reactions /\ Current.none \in Reactions
           /\ Current.puts \subseteq Things /\ Current.teaches \subseteq Things
           /\ at[1] < Restoring => Careful(Current)
<1>1. PICK i, j : at = <<i, j>> /\ Place(i, j)
  BY DEF Types
<1>2. at[1] = i /\ at[2] = j
  BY <1>1
<1>3. target \in Targets /\ Restoring \in Nat \ {0}
  BY StepsShape DEF Types
<1>4. at[1] \in 1 .. Restoring /\ at[2] \in Nat \ {0}
  BY <1>1, <1>2, <1>3 DEF Place, Calling, Ended
<1>5. at[2] <= Len(Calls) /\ Len(Calls) = Length(at[1])
  BY DEF Calling, Calls, Step, Length
<1>6. CASE at[1] < Restoring
  <2>1. Len(Calls) \in Nat
    BY <1>3, <1>4, <1>5, StepLengths
  <2>2. at[1] \in 1 .. Restoring - 1
    BY <1>3, <1>4, <1>6
  <2>3. at[2] \in 1 .. Len(Calls)
    BY <1>4, <1>5, <2>1
  <2>4. Current \in CarefulCalls /\ Current.puts \subseteq Things
                                /\ Current.teaches \subseteq Things
    BY <1>3, <2>2, <2>3, ScriptCalls
  <2>5. QED
    BY <1>1, <1>2, <1>4, <1>5, <2>4 DEF CarefulCalls, CallType
<1>7. CASE at[1] = Restoring
  <2>1. at[2] \in 1 .. 2
    BY <1>3, <1>4, <1>5, <1>7, RestorationCalls
  <2>2. /\ Current.puts = {} /\ Current.teaches = {}
        /\ Current.wrong = "abort" /\ Current.none = "abort"
    BY <1>3, <1>7, <2>1, RestorationCalls DEF Current
  <2>3. "abort" \in Reactions /\ ~(at[1] < Restoring)
    BY <1>3, <1>7 DEF Reactions
  <2>4. QED
    BY <1>1, <1>2, <1>4, <1>5, <2>2, <2>3
<1>8. QED
  BY <1>3, <1>4, <1>6, <1>7

(* Reacting keeps the types of everything but the things.                  *)
LEMMA ReactTypes ==
    ASSUME Types, Calling, NEW reaction \in Reactions, React(reaction)
    PROVE  /\ target' = target
           /\ \E i, j : at' = <<i, j>> /\ Place(i, j)
           /\ failed' \in BOOLEAN /\ broken' \subseteq {"run", "restore"}
<1>1. PICK i, j : After(reaction) = <<i, j>> /\ Place(i, j)
  BY CallMade, ReactPlace, StepsShape DEF Types
<1>2. QED
  BY <1>1 DEF React, Types

(* The places stay what they are: no action changes the server.            *)
LEMMA SamePlaces ==
    ASSUME target' = target, NEW i, NEW j
    PROVE  Place(i, j)' <=> Place(i, j)
  BY DEF Place, Length, Restoring, Steps

(* What has happened is of the types the state says.                       *)
LEMMA TypesStep == Types /\ [AcceptanceNext]_runVars => Types'
<1> SUFFICES ASSUME Types, [AcceptanceNext]_runVars PROVE Types'
  OBVIOUS
<1>1. CASE Succeed
  <2>1. Calling /\ React("go on") /\ "go on" \in Reactions
    BY <1>1 DEF Succeed, Reactions
  <2>2. left' \subseteq Things /\ known' \subseteq Things /\ faults' = faults
    BY <1>1, <2>1, CallMade DEF Succeed, Effect, Told, Types
  <2>3. QED
    BY <2>1, <2>2, ReactTypes, SamePlaces DEF Types
<1>2. ASSUME NEW caused \in BOOLEAN, Fault(caused) PROVE faults' \in 0 .. MaxFaults
  BY <1>2, FaultsAssumption DEF Fault, Types
<1>3. CASE WrongAnswer
  <2>1. Calling /\ React(Current.wrong) /\ Current.wrong \in Reactions
    BY <1>3, CallMade DEF WrongAnswer
  <2>2. left' = left /\ known' = known /\ faults' \in 0 .. MaxFaults
    BY <1>2, <1>3 DEF WrongAnswer, Refused
  <2>3. QED
    BY <2>1, <2>2, ReactTypes, SamePlaces DEF Types
<1>4. CASE NoAnswer
  <2>1. Calling /\ React(Current.none) /\ Current.none \in Reactions
    BY <1>4, CallMade DEF NoAnswer
  <2>2. left' \subseteq Things /\ known' = known /\ faults' \in 0 .. MaxFaults
    BY <1>2, <1>4, <2>1, CallMade DEF NoAnswer, Unreachable, Effect, Types
  <2>3. QED
    BY <2>1, <2>2, ReactTypes, SamePlaces DEF Types
<1>a. PICK i, j : at = <<i, j>> /\ Place(i, j)
  BY DEF Types
<1>b. at[1] = i /\ at[2] = j /\ target \in Targets
  BY <1>a DEF Types
<1>c. Restoring \in Nat \ {0}
  BY <1>b, StepsShape
<1>5. CASE PassOver
  <2>0. Len(Calls) = Length(i)
    BY <1>b, Zenon DEF Calls, Step, Length
  <2>1. i \in 1 .. Restoring /\ j <= Length(i)
    BY <1>5, <1>a, <1>b, <1>c, <2>0 DEF PassOver, Ended, Place
  <2>2. Length(i) \in Nat
    BY <2>1, <1>b, StepLengths
  <2>3. Place(i, j + 1)
    BY <2>1, <2>2, <1>a, <1>c DEF Place
  <2>4. at' = <<i, j + 1>>
    BY <1>5, <1>b DEF PassOver
  <2>5. QED
    BY <1>5, <2>3, <2>4, SamePlaces DEF PassOver, Types
<1>6. CASE NextStep
  <2>1. i \in 1 .. Restoring
    BY <1>6, <1>a, <1>b, <1>c DEF NextStep, Ended, Place
  <2>2. Place(i + 1, 1)
    BY <2>1, <1>b, <1>c, FirstPlace
  <2>3. at' = <<i + 1, 1>>
    BY <1>6, <1>b DEF NextStep
  <2>4. QED
    BY <1>6, <2>2, <2>3, SamePlaces DEF NextStep, Types
<1>7. CASE UNCHANGED runVars
  BY <1>7, SamePlaces DEF runVars, Types
<1>8. QED
  BY <1>1, <1>3, <1>4, <1>5, <1>6, <1>7 DEF AcceptanceNext

(* A run starts at its first call.                                         *)
LEMMA TypesStart == AcceptanceInit => Types
<1>1. ASSUME AcceptanceInit PROVE Place(1, 1)
  BY <1>1, StepsShape, FirstPlace DEF AcceptanceInit
<1>2. ASSUME AcceptanceInit PROVE \E i, j : at = <<i, j>> /\ Place(i, j)
  BY <1>1, <1>2 DEF AcceptanceInit
<1>3. ASSUME AcceptanceInit PROVE faults \in 0 .. MaxFaults
  BY <1>3, FaultsAssumption DEF AcceptanceInit
<1>4. QED
  BY <1>2, <1>3 DEF AcceptanceInit, Types

(* Every state of a run is of the types AcceptanceRun states.              *)
THEOREM TypesAreKept == AcceptanceSpec => []AcceptanceTypeOK
<1>1. Types /\ [AcceptanceNext]_runVars => Types'
  BY TypesStep
<1>2. Types => AcceptanceTypeOK
  BY TypesAreTypes
<1>3. QED
  BY <1>1, <1>2, TypesStart, PTL DEF AcceptanceSpec

-----------------------------------------------------------------------------
(* A suspended slave mode is remembered until the restoration, unless the  *)
(* run broke off; it is gone behind the first call of the restoration      *)
(* unless nobody remembered it; and it is gone at the end unless the       *)
(* restoration broke off, or the run did and knows nothing of it.          *)
RememberedAt(i, j) ==
    SlaveMode \in left =>
        /\ i < Restoring \/ (i = Restoring /\ j = 1) =>
               SlaveMode \in known \/ "run" \in broken
        /\ i = Restoring /\ j # 1 => SlaveMode \notin known /\ "run" \in broken
        /\ i > Restoring =>
               "restore" \in broken \/ ("run" \in broken /\ SlaveMode \notin known)

Remembered == RememberedAt(at[1], at[2])

(* An abort is remembered as what it breaks off.                           *)
LEMMA AbortRemembers ==
    ASSUME Types, Calling, React("abort")
    PROVE  /\ at' = AfterAbort
           /\ broken' = broken \cup {IF at[1] = Restoring THEN "restore" ELSE "run"}
  BY DEF React, After

(* A call that fails leaves the slave mode as it is, or ends the run.      *)
LEMMA FailureStep ==
    ASSUME Types, Remembered, Calling, NEW reaction \in Reactions, React(reaction),
           known' = known,
           \/ left' = left
           \/ left' = Effect /\ (at[1] < Restoring /\ SlaveMode \in Current.puts
                                   => reaction = "abort"),
           at[1] = Restoring => reaction = "abort"
    PROVE  Remembered'
<1>1. target \in Targets /\ at[1] \in 1 .. Restoring /\ Restoring \in Nat \ {0}
  BY CallMade, StepsShape DEF Types
<1>2. Restoring' = Restoring
  BY DEF React, Restoring, Steps
<1>3. CASE reaction = "abort" /\ at[1] = Restoring
  <2>1. at'[1] = Restoring + 1 /\ "restore" \in broken'
    BY <1>1, <1>3, AbortRemembers DEF AfterAbort
  <2>2. QED
    BY <1>1, <1>2, <2>1 DEF Remembered, RememberedAt
<1>4. CASE reaction = "abort" /\ at[1] # Restoring
  <2>1. at'[1] = Restoring /\ at'[2] = 1 /\ "run" \in broken'
    BY <1>1, <1>4, AbortRemembers DEF AfterAbort
  <2>2. QED
    BY <1>1, <1>2, <2>1 DEF Remembered, RememberedAt
<1>5. CASE reaction # "abort"
  <2>1. at[1] < Restoring /\ broken' = broken
    BY <1>1, <1>5 DEF React
  <2>2. SlaveMode \in left' => SlaveMode \in left
    BY <1>5, <2>1 DEF Effect
  <2>3. SlaveMode \in left => SlaveMode \in known \/ "run" \in broken
    BY <2>1 DEF Remembered, RememberedAt
  <2>4. \/ at'[1] = at[1]
        \/ at'[1] = at[1] + 1 /\ at'[2] = 1
    BY <1>5 DEF React, After
  <2>6. ~(at'[1] = Restoring' /\ at'[2] # 1) /\ ~(at'[1] > Restoring')
    BY <1>1, <1>2, <2>1, <2>4
  <2>7. SlaveMode \in left' => SlaveMode \in known' \/ "run" \in broken'
    BY <2>1, <2>2, <2>3
  <2>8. QED
    BY <2>6, <2>7, Zenon DEF Remembered, RememberedAt
<1>6. QED
  BY <1>3, <1>4, <1>5

(* A call that succeeds tells of the slave mode it suspends, or restores.  *)
LEMMA SuccessStep ==
    ASSUME Types, Remembered, Succeed
    PROVE  Remembered'
<1>1. /\ Calling /\ Made /\ React("go on") /\ left' = Effect /\ known' = Told
      /\ at'[1] = at[1] /\ at'[2] = at[2] + 1 /\ broken' = broken /\ target' = target
  BY DEF Succeed, React, After, Calling
<1>2. target \in Targets /\ at[1] \in 1 .. Restoring /\ Restoring \in Nat \ {0}
  BY <1>1, CallMade, StepsShape DEF Types
<1>3. Restoring' = Restoring
  BY <1>1 DEF Restoring, Steps
<1>4. CASE at[1] < Restoring
  <2>1. known' = known \cup Current.teaches
    <3>1. at # <<Restoring, Len(Calls)>>
      BY <1>2, <1>4
    <3>2. QED
      BY <1>1, <3>1 DEF Told
  <2>2. SlaveMode \in Current.puts => SlaveMode \in Current.teaches
    BY <1>1, <1>4, CallMade DEF Careful
  <2>3. SlaveMode \in left => SlaveMode \in known \/ "run" \in broken
    BY <1>4 DEF Remembered, RememberedAt
  <2>4. SlaveMode \in left' => SlaveMode \in known' \/ "run" \in broken'
    BY <1>1, <2>1, <2>2, <2>3 DEF Effect
  <2>5. ~(at'[1] = Restoring') /\ ~(at'[1] > Restoring')
    <3>1. at'[1] = at[1]
      BY <1>1
    <3>2. QED
      BY <1>2, <1>3, <1>4, <3>1
  <2>6. QED
    BY <2>4, <2>5, Zenon DEF Remembered, RememberedAt
<1>5. CASE at[1] = Restoring
  <2>0. Len(Calls) = 2 /\ at[2] <= Len(Calls) /\ at[2] \in Nat \ {0}
    BY <1>1, <1>2, <1>5, RestorationLength, CallMade, Zenon DEF Calling, Place
  <2>1. at[2] \in 1 .. 2
    BY <2>0
  <2>2. Current.puts = {} /\ SlaveMode \in known
    BY <1>1, <1>2, <1>5, <2>1, RestorationCalls DEF Current, Made
  <2>3. SlaveMode \notin left'
    <3>1. CASE at[2] = 1
      BY <1>1, <1>2, <1>5, <2>2, <3>1, RestorationCalls DEF Current, Effect
    <3>2. CASE at[2] = 2
      <4>1. SlaveMode \notin left
        BY <1>5, <2>2, <3>2 DEF Remembered, RememberedAt
      <4>2. QED
        BY <1>1, <2>2, <4>1 DEF Effect
    <3>3. QED
      BY <2>1, <3>1, <3>2
  <2>4. QED
    BY <2>3 DEF Remembered, RememberedAt
<1>6. QED
  BY <1>2, <1>4, <1>5

(* Every action keeps it.                                                  *)
LEMMA RememberedStep ==
    Types /\ Remembered /\ [AcceptanceNext]_runVars => Remembered'
<1> SUFFICES ASSUME Types, Remembered, [AcceptanceNext]_runVars PROVE Remembered'
  OBVIOUS
<1>1. target \in Targets /\ Restoring \in Nat \ {0}
  BY StepsShape DEF Types
<1>2. ASSUME Calling, at[1] = Restoring PROVE Current.wrong = "abort" /\ Current.none = "abort"
  <2>0. Len(Calls) = 2 /\ at[2] <= Len(Calls) /\ at[2] \in Nat \ {0}
    BY <1>1, <1>2, RestorationLength, CallMade, Zenon DEF Calling, Place
  <2>1. at[2] \in 1 .. 2
    BY <2>0
  <2>2. QED
    BY <1>1, <1>2, <2>1, RestorationCalls DEF Current
<1>3. CASE WrongAnswer
  BY <1>2, <1>3, CallMade, FailureStep DEF WrongAnswer
<1>4. CASE NoAnswer
  <2>1. Calling /\ React(Current.none) /\ known' = known /\ left' \in {left, Effect}
    BY <1>4 DEF NoAnswer
  <2>2. at[1] < Restoring /\ SlaveMode \in Current.puts => Current.none = "abort"
    BY <2>1, CallMade DEF Careful
  <2>3. QED
    BY <1>2, <2>1, <2>2, CallMade, FailureStep
<1>5. PICK i, j : at = <<i, j>> /\ Place(i, j)
  BY DEF Types
<1>6. at[1] = i /\ at[2] = j
  BY <1>5
<1>7. i \in Nat /\ j \in Nat \ {0}
  BY <1>1, <1>5 DEF Place
<1>8. CASE PassOver
  <2>1. at'[1] = i /\ at'[2] = j + 1 /\ UNCHANGED <<target, left, known, broken>>
    BY <1>6, <1>8 DEF PassOver
  <2>2. Restoring' = Restoring /\ i <= Restoring
    BY <1>1, <1>6, <1>7, <1>8 DEF PassOver, Ended, Restoring, Steps
  <2>3. CASE i < Restoring
    BY <1>1, <1>6, <1>7, <2>1, <2>2, <2>3 DEF Remembered, RememberedAt
  <2>4. CASE i = Restoring
    <3>0. j \in 1 .. 2
      <4>1. Len(Calls) = 2 /\ j <= Len(Calls)
        BY <1>1, <1>6, <1>8, <2>4, RestorationLength, Zenon DEF PassOver
      <4>2. QED
        BY <1>7, <4>1
    <3>1. SlaveMode \notin known
      BY <1>1, <1>6, <1>8, <2>4, <3>0, RestorationCalls DEF PassOver, Made, Current
    <3>2. QED
      BY <1>1, <1>6, <1>7, <2>1, <2>2, <2>4, <3>1 DEF Remembered, RememberedAt
  <2>5. QED
    BY <1>1, <1>7, <2>2, <2>3, <2>4
<1>9. CASE NextStep
  <2>1. at'[1] = i + 1 /\ at'[2] = 1 /\ UNCHANGED <<target, left, known, broken>>
    BY <1>6, <1>9 DEF NextStep
  <2>2. Restoring' = Restoring /\ i <= Restoring
    BY <1>1, <1>6, <1>7, <1>9 DEF NextStep, Ended, Restoring, Steps
  <2>3. CASE i < Restoring
    BY <1>1, <1>6, <1>7, <2>1, <2>2, <2>3 DEF Remembered, RememberedAt
  <2>4. CASE i = Restoring
    <3>1. j # 1
      <4>1. Len(Calls) = 2 /\ j > Len(Calls)
        BY <1>1, <1>6, <1>9, <2>4, RestorationLength, Zenon DEF NextStep
      <4>2. QED
        BY <1>7, <4>1
    <3>2. QED
      BY <1>1, <1>6, <1>7, <2>1, <2>2, <2>4, <3>1 DEF Remembered, RememberedAt
  <2>5. QED
    BY <1>1, <1>7, <2>2, <2>3, <2>4
<1>10. CASE UNCHANGED runVars
  BY <1>10 DEF runVars, Remembered, RememberedAt, Restoring, Steps
<1>11. QED
  BY <1>3, <1>4, <1>8, <1>9, <1>10, SuccessStep DEF AcceptanceNext

(* A replica whose slave mode the run suspended is a replica again at its  *)
(* end, or the exit code tells: for every script of careful calls.         *)
THEOREM SlaveModeAlwaysComesBack == AcceptanceSpec => []SlaveModeComesBack
<1>1. AcceptanceInit => Types /\ Remembered
  BY TypesStart DEF AcceptanceInit, Remembered, RememberedAt
<1>2. Types /\ Remembered /\ [AcceptanceNext]_runVars => (Types /\ Remembered)'
  BY TypesStep, RememberedStep
<1>3. Types /\ Remembered => SlaveModeComesBack
  <2>1. ASSUME Types, Remembered, Ended, SlaveMode \in left
        PROVE  ExitCode = 1 /\ ("restore" \in broken \/ ("run" \in broken /\ SlaveMode \notin known))
    <3>1. "restore" \in broken \/ ("run" \in broken /\ SlaveMode \notin known)
      BY <2>1 DEF Remembered, RememberedAt, Ended
    <3>2. QED
      BY <3>1 DEF ExitCode
  <2>2. QED
    BY <2>1 DEF SlaveModeComesBack
<1>4. QED
  BY <1>1, <1>2, <1>3, PTL DEF AcceptanceSpec

-----------------------------------------------------------------------------
(* The calls of a run have places, and the places an order.                *)

(* A step is a sequence of calls.                                          *)
LEMMA CallsAreNumbered ==
    ASSUME target \in Targets, NEW i \in 1 .. Restoring
    PROVE  DOMAIN CallsIn(target, i) = 1 .. Length(i) /\ Length(i) \in Nat
<1>1. CallsIn(target, i) = Steps[i].run \o Steps[i].close
  BY DEF CallsIn, Steps
<1>2. ASSUME NEW S, Steps[i].run \in Seq(S), Steps[i].close \in Seq(S)
      PROVE  DOMAIN CallsIn(target, i) = 1 .. Length(i) /\ Length(i) \in Nat
  <2>1. CallsIn(target, i) \in Seq(S)
    BY <1>1, <1>2, ConcatProperties
  <2>2. Length(i) = Len(CallsIn(target, i))
    BY <1>1 DEF Length
  <2>3. QED
    BY <2>1, <2>2
<1>3. CASE i # Restoring
  <2>1. i \in 1 .. Restoring - 1
    BY <1>3, StepsShape
  <2>2. Steps[i].run \in Seq(CarefulCalls) /\ Steps[i].close \in Seq(CarefulCalls)
    BY <2>1, StepsShape DEF ScriptStep
  <2>3. QED
    BY <1>2, <2>2
<1>4. CASE i = Restoring
  <2>1. /\ Restoration.close \in Seq({Restoration.run[1], Restoration.run[2]})
        /\ Restoration.run \in Seq({Restoration.run[1], Restoration.run[2]})
    BY DEF Restoration
  <2>2. Steps[i] = Restoration
    BY <1>4, StepsShape
  <2>3. QED
    BY <1>2, <2>1, <2>2
<1>5. QED
  BY <1>3, <1>4

(* What the places of a run are.                                           *)
LEMMA PlacesOfRun ==
    ASSUME target \in Targets
    PROVE  /\ \A p \in Places(target) :
                 p = <<p[1], p[2]>> /\ p[1] \in 1 .. Restoring /\ p[2] \in 1 .. Length(p[1])
           /\ \A i \in 1 .. Restoring : \A j \in 1 .. Length(i) : <<i, j>> \in Places(target)
           /\ DOMAIN AllSteps[target] = 1 .. Restoring /\ Restoring \in Nat \ {0}
<1>1. DOMAIN AllSteps[target] = 1 .. Restoring /\ Restoring \in Nat \ {0}
  <2>1. Script[target] \in Seq(ScriptStep)
    BY ScriptAssumption DEF ScriptStep
  <2>2. AllSteps[target] = Append(Script[target], Restoration) /\ Steps = AllSteps[target]
    BY DEF AllSteps, Steps
  <2>3. QED
    BY <2>1, <2>2, StepsShape DEF Restoring
<1>2. \A i \in 1 .. Restoring : DOMAIN CallsIn(target, i) = 1 .. Length(i)
  BY CallsAreNumbered
<1>3. Places(target) = UNION {{i} \X (1 .. Length(i)) : i \in 1 .. Restoring}
  BY <1>1, <1>2 DEF Places
<1>4. QED
  BY <1>1, <1>3

(* There are finitely many.                                                *)
LEMMA PlacesAreFinite ==
    ASSUME target \in Targets
    PROVE  IsFiniteSet(Places(target))
<1>. DEFINE I == 1 .. Restoring
            F == [i \in I |-> {i} \X (1 .. Length(i))]
            rows == {F[i] : i \in I}
<1>1. IsFiniteSet(I)
  BY PlacesOfRun, FS_Interval
<1>2. IsFiniteSet(rows)
  <2>1. F \in Surjection(I, rows)
    BY DEF Surjection
  <2>2. QED
    BY <1>1, <2>1, FS_Surjection
<1>3. ASSUME NEW i \in I PROVE IsFiniteSet(F[i])
  <2>1. Length(i) \in Nat
    BY CallsAreNumbered
  <2>2. IsFiniteSet({i}) /\ IsFiniteSet(1 .. Length(i))
    <3>1. 1 \in Int /\ Length(i) \in Int
      BY <2>1
    <3>2. QED
      BY <3>1, FS_Singleton, FS_Interval, Zenon
  <2>3. IsFiniteSet({i} \X (1 .. Length(i)))
    BY ONLY <2>2, FS_Product
  <2>4. F[i] = {i} \X (1 .. Length(i))
    OBVIOUS
  <2>5. QED
    BY <2>3, <2>4
<1>4. IsFiniteSet(UNION rows)
  BY <1>2, <1>3, FS_UNION
<1>5. Places(target) \subseteq UNION rows
  <2>1. \A p \in Places(target) : p[1] \in I /\ p \in {p[1]} \X (1 .. Length(p[1]))
    BY PlacesOfRun
  <2>2. QED
    BY <2>1
<1>6. QED
  BY <1>4, <1>5, FS_Subset

(* A call about to be made or passed over is at its place.                 *)
LEMMA CurrentPlace ==
    ASSUME Types, ~Ended, at[2] <= Len(Calls)
    PROVE  at \in Places(target) /\ CallAt(target, at) = Current
<1>1. PICK i, j : at = <<i, j>> /\ Place(i, j)
  BY DEF Types
<1>2. at[1] = i /\ at[2] = j /\ target \in Targets /\ Restoring \in Nat \ {0}
  BY <1>1, StepsShape DEF Types
<1>0. Len(Calls) = Length(i)
  BY <1>2, Zenon DEF Calls, Step, Length
<1>3. i \in 1 .. Restoring /\ j \in Nat \ {0} /\ j <= Length(i)
  BY <1>0, <1>1, <1>2 DEF Place, Ended
<1>4. j \in 1 .. Length(i)
  BY <1>2, <1>3, CallsAreNumbered
<1>5. QED
  BY <1>1, <1>2, <1>3, <1>4, PlacesOfRun DEF CallAt, CallsIn, Current, Calls, Step, Steps

(* Going on passes this place and no other.                                *)
LEMMA GoingOnPasses ==
    ASSUME Types, at \in Places(target), NEW p \in Places(target)
    PROVE  Before(p, <<at[1], at[2] + 1>>) <=> Before(p, at) \/ p = at
<1>1. /\ p = <<p[1], p[2]>> /\ at = <<at[1], at[2]>>
      /\ p[1] \in Nat /\ p[2] \in Nat /\ at[1] \in Nat /\ at[2] \in Nat
  <2>1. target \in Targets
    BY DEF Types
  <2>2. \A i \in 1 .. Restoring : Length(i) \in Nat
    BY <2>1, CallsAreNumbered
  <2>3. QED
    BY <2>1, <2>2, PlacesOfRun
<1>2. QED
  BY <1>1 DEF Before

(* The end of a step passes none.                                          *)
LEMMA NextStepPasses ==
    ASSUME Types, ~Ended, at[2] > Len(Calls), NEW p \in Places(target)
    PROVE  Before(p, <<at[1] + 1, 1>>) <=> Before(p, at)
<1>1. PICK i, j : at = <<i, j>> /\ Place(i, j)
  BY DEF Types
<1>2. at[1] = i /\ at[2] = j /\ target \in Targets /\ Restoring \in Nat \ {0}
  BY <1>1, StepsShape DEF Types
<1>0. Len(Calls) = Length(i)
  BY <1>2, Zenon DEF Calls, Step, Length
<1>3. i \in 1 .. Restoring /\ j \in Nat /\ j > Length(i) /\ Length(i) \in Nat
  BY <1>0, <1>1, <1>2, CallsAreNumbered DEF Place, Ended
<1>4. p[1] \in 1 .. Restoring /\ p[2] \in 1 .. Length(p[1]) /\ Length(p[1]) \in Nat
  BY <1>2, PlacesOfRun, CallsAreNumbered
<1>5. p[1] = i => p[2] < j
  BY <1>3, <1>4
<1>6. QED
  BY <1>2, <1>3, <1>4, <1>5 DEF Before

-----------------------------------------------------------------------------
(* As long as nothing has been noted, whatever is left was put at a place  *)
(* behind the run, and each hindrance passed since has cost a fault; none  *)
(* that settles it was passed by a run that knew, or may come to know,     *)
(* what is given.                                                          *)
Uninformed(here, given) ==
    \E y \in given :
        /\ y \notin known
        /\ \A r \in Places(target) : y \in CallAt(target, r).teaches => Before(r, here)

LeftSince(p, x, here, given) ==
    /\ x \in CallAt(target, p).puts
    /\ Before(p, here)
    /\ \A q \in Between(target, p, here) : ~Settles(target, q, x, given)

Hindrances(p, x, here) == {q \in Between(target, p, here) : Hinders(target, q, x)}

Explained(x, here, given) ==
    \E p \in Places(target) :
        LeftSince(p, x, here, given) /\ Cardinality(Hindrances(p, x, here)) <= faults

Accounted ==
    ExitCode = 0 =>
        \A x \in left \ {SlaveMode} :
            Traced(target, x) =>
                /\ x \in known
                /\ \A given \in SUBSET Things :
                       Uninformed(at, given) \/ Explained(x, at, given)

(* Between two places there are finitely many.                             *)
LEMMA HindrancesCounted ==
    ASSUME target \in Targets, NEW p, NEW x, NEW here
    PROVE  IsFiniteSet(Hindrances(p, x, here)) /\ Cardinality(Hindrances(p, x, here)) \in Nat
<1>1. Hindrances(p, x, here) \subseteq Places(target)
  BY DEF Hindrances, Between
<1>2. QED
  BY <1>1, PlacesAreFinite, FS_Subset, FS_CardinalityType

(* What is between p and the next place of the run.                        *)
LEMMA BetweenGrows ==
    ASSUME Types, at \in Places(target), NEW p \in Places(target), Before(p, at)
    PROVE  Between(target, p, <<at[1], at[2] + 1>>) = Between(target, p, at) \cup {at}
  BY GoingOnPasses DEF Between

(* Nothing is between a place and the next.                                *)
LEMMA BetweenStarts ==
    ASSUME Types, at \in Places(target)
    PROVE  Between(target, at, <<at[1], at[2] + 1>>) = {}
<1>1. ASSUME NEW r \in Places(target), Before(at, r)
      PROVE  ~Before(r, <<at[1], at[2] + 1>>)
  <2>1. /\ r[1] \in Nat /\ r[2] \in Nat /\ at[1] \in Nat /\ at[2] \in Nat
    <3>1. \A i \in 1 .. Restoring : Length(i) \in Nat
      BY CallsAreNumbered DEF Types
    <3>2. QED
      BY <3>1, PlacesOfRun DEF Types
  <2>2. QED
    BY <1>1, <2>1 DEF Before
<1>2. QED
  BY <1>1 DEF Between

(* What nobody has learnt, and nobody learns later, nobody learns now.     *)
LEMMA UninformedStays ==
    ASSUME Types, at \in Places(target), CallAt(target, at) = Current,
           target' = target, at' = <<at[1], at[2] + 1>>, known' \subseteq known \cup Current.teaches,
           NEW given, Uninformed(at, given)
    PROVE  Uninformed(at, given)'
<1>1. PICK y \in given :
         /\ y \notin known
         /\ \A r \in Places(target) : y \in CallAt(target, r).teaches => Before(r, at)
  BY DEF Uninformed
<1>2. ~Before(at, at)
  <2>1. at[1] \in Nat /\ at[2] \in Nat
    <3>1. \A i \in 1 .. Restoring : Length(i) \in Nat
      BY CallsAreNumbered DEF Types
    <3>2. QED
      BY <3>1, PlacesOfRun DEF Types
  <2>2. QED
    BY <2>1 DEF Before
<1>3. y \notin known'
  BY <1>1, <1>2
<1>4. \A r \in Places(target) : y \in CallAt(target, r).teaches => Before(r, at')
  BY <1>1, GoingOnPasses
<1>5. QED
  BY <1>3, <1>4, Zenon DEF Uninformed

(* Passing a call keeps the account, if it teaches what it puts, passes    *)
(* nothing that settles what is left and pays for each hindrance.          *)
LEMMA PassingAccounts ==
    ASSUME Types, Accounted, ExitCode = 0, ~Ended, at[2] <= Len(Calls),
           target' = target, at' = <<at[1], at[2] + 1>>,
           known \ {SlaveMode} \subseteq known', known' \subseteq known \cup Current.teaches,
           faults' \in Nat, faults <= faults',
           left' \ left \subseteq Current.puts,
           \A x \in left' \ (left \cup {SlaveMode}) : Traced(target, x) => x \in known',
           \A x \in (left' \cap left) \ {SlaveMode} : x \in known =>
              /\ \A given : Settles(target, at, x, given) => \E y \in given : y \notin known
              /\ Hinders(target, at, x) => faults' = faults + 1
    PROVE  Accounted'
<1>1. /\ target \in Targets /\ at \in Places(target) /\ CallAt(target, at) = Current
      /\ faults \in Nat
  BY CurrentPlace, FaultsAssumption DEF Types
<1>. SUFFICES ASSUME NEW x \in left' \ {SlaveMode}, Traced(target, x)
              PROVE  /\ x \in known'
                     /\ \A given \in SUBSET Things :
                            Uninformed(at, given)' \/ Explained(x, at, given)'
  <2>1. Things' = Things /\ \A x : Traced(target, x)' <=> Traced(target, x)
    BY DEF Traced
  <2>2. QED
    BY <2>1 DEF Accounted
<1>. DEFINE there == <<at[1], at[2] + 1>>
<1>2. \A p, given : LeftSince(p, x, at, given)' <=> LeftSince(p, x, there, given)
  BY DEF LeftSince
<1>3. \A p : Hindrances(p, x, at)' = Hindrances(p, x, there)
  BY DEF Hindrances
<1>4. ASSUME NEW given, NEW p \in Places(target), LeftSince(p, x, there, given),
             Cardinality(Hindrances(p, x, there)) <= faults'
      PROVE  Explained(x, at, given)'
  BY <1>2, <1>3, <1>4 DEF Explained
<1>5. CASE x \notin left
  <2>1. x \in known' /\ x \in Current.puts
    BY <1>5
  <2>2. Between(target, at, there) = {}
    BY <1>1, BetweenStarts
  <2>3. \A given : LeftSince(at, x, there, given)
    BY <1>1, <2>1, <2>2, GoingOnPasses DEF LeftSince
  <2>4. Cardinality(Hindrances(at, x, there)) <= faults'
    <3>1. Hindrances(at, x, there) = {}
      BY <2>2 DEF Hindrances
    <3>2. Cardinality(Hindrances(at, x, there)) = 0
      BY <3>1, FS_EmptySet, Zenon
    <3>3. 0 <= faults'
      OBVIOUS
    <3>4. QED
      BY <3>2, <3>3, Zenon
  <2>5. QED
    BY <1>1, <1>4, <2>1, <2>3, <2>4
<1>6. CASE x \in left
  <2>1. x \in known /\ x \in known'
    BY <1>6 DEF Accounted
  <2>2. ASSUME NEW given \in SUBSET Things
        PROVE  Uninformed(at, given)' \/ Explained(x, at, given)'
    <3>1. CASE Uninformed(at, given)
      BY <1>1, <3>1, UninformedStays
    <3>2. CASE Settles(target, at, x, given)
      <4>1. PICK y \in given : y \notin known
        BY <1>6, <2>1, <3>2
      <4>2. \A r \in Places(target) : y \in CallAt(target, r).teaches => Before(r, at)
        BY <3>2 DEF Settles
      <4>3. Uninformed(at, given)
        BY <4>1, <4>2 DEF Uninformed
      <4>4. QED
        BY <1>1, <4>3, UninformedStays
    <3>3. CASE ~Uninformed(at, given) /\ ~Settles(target, at, x, given)
      <4>1. PICK p \in Places(target) :
              LeftSince(p, x, at, given) /\ Cardinality(Hindrances(p, x, at)) <= faults
        BY <1>6, <3>3 DEF Accounted, Explained
      <4>2. Between(target, p, there) = Between(target, p, at) \cup {at}
        BY <1>1, <4>1, BetweenGrows DEF LeftSince
      <4>3. LeftSince(p, x, there, given)
        BY <1>1, <3>3, <4>1, <4>2, GoingOnPasses DEF LeftSince
      <4>4. Cardinality(Hindrances(p, x, there)) <= faults'
        <5>1. /\ IsFiniteSet(Hindrances(p, x, at))
              /\ Cardinality(Hindrances(p, x, at)) \in Nat
          BY <1>1, HindrancesCounted
        <5>2. CASE Hinders(target, at, x)
          <6>1. Hindrances(p, x, there) = Hindrances(p, x, at) \cup {at}
            BY <4>2, <5>2 DEF Hindrances
          <6>2. faults' = faults + 1
            BY <1>6, <2>1, <5>2
          <6>3. \/ Cardinality(Hindrances(p, x, there)) = Cardinality(Hindrances(p, x, at))
                \/ Cardinality(Hindrances(p, x, there)) = Cardinality(Hindrances(p, x, at)) + 1
            BY <5>1, <6>1, FS_AddElement, Zenon
          <6>4. Cardinality(Hindrances(p, x, there)) \in Nat
            BY <1>1, HindrancesCounted
          <6>5. QED
            BY <1>1, <4>1, <5>1, <6>2, <6>3, <6>4
        <5>3. CASE ~Hinders(target, at, x)
          <6>1. Hindrances(p, x, there) = Hindrances(p, x, at)
            BY <4>2, <5>3 DEF Hindrances
          <6>2. QED
            BY <1>1, <4>1, <5>1, <6>1
        <5>4. QED
          BY <5>2, <5>3
      <4>5. QED
        BY <1>4, <4>3, <4>4
    <3>4. QED
      BY <3>1, <3>2, <3>3
  <2>3. QED
    BY <2>1, <2>2
<1>7. QED
  BY <1>5, <1>6

(* Any reaction but going on notes a failure, and no failure is forgotten. *)
LEMMA OnlyGoingOnIsClean ==
    ASSUME NEW reaction \in Reactions, React(reaction), ExitCode' = 0
    PROVE  /\ reaction = "go on" /\ ExitCode = 0
           /\ target' = target /\ at' = <<at[1], at[2] + 1>>
<1>1. ~failed' /\ broken' = {}
  BY DEF ExitCode
<1>2. reaction # "abort"
  BY <1>1 DEF React
<1>3. reaction = "go on"
  BY <1>1, <1>2 DEF React, Reactions
<1>4. ExitCode = 0
  BY <1>1, <1>2 DEF React, ExitCode
<1>5. QED
  BY <1>3, <1>4 DEF React, After

(* The restoration puts nothing; every other call is remembered.           *)
LEMMA ToldWhatIsPut ==
    ASSUME Types, Calling
    PROVE  /\ known \ {SlaveMode} \subseteq Told /\ Told \subseteq known \cup Current.teaches
           /\ Current.puts \cap Current.teaches \subseteq Told
<1>1. ASSUME at = <<Restoring, Len(Calls)>> PROVE Current.puts = {}
  <2>1. target \in Targets /\ at[1] = Restoring /\ at[2] = Len(Calls)
    BY <1>1 DEF Types
  <2>2. at[2] = 2
    BY <2>1, RestorationLength
  <2>3. QED
    BY <2>1, <2>2, RestorationCalls DEF Current
<1>2. QED
  BY <1>1 DEF Told

(* Success.                                                                *)
LEMMA SuccessAccounts ==
    ASSUME Types, Accounted, Succeed, ExitCode' = 0
    PROVE  Accounted'
<1>1. /\ Calling /\ React("go on") /\ "go on" \in Reactions /\ faults' = faults
      /\ left' = Effect /\ known' = Told
  BY DEF Succeed, Reactions
<1>2. ExitCode = 0 /\ target' = target /\ at' = <<at[1], at[2] + 1>>
  BY <1>1, OnlyGoingOnIsClean
<1>3. at \in Places(target) /\ CallAt(target, at) = Current
  BY <1>1, CurrentPlace DEF Calling
<1>4. ASSUME NEW x \in left' \cap left PROVE ~Clears(Current, x)
  BY <1>1, <1>4 DEF Succeed, Clears, Effect, Refused, Unreachable
<1>5. \A x \in left' \ left : x \in Current.puts
  BY <1>1 DEF Effect
<1>6. \A x \in left' \ left : Traced(target, x) => x \in known'
  BY <1>1, <1>3, <1>5, ToldWhatIsPut DEF Traced
<1>7. \A x \in left' \cap left :
        /\ \A given : ~Settles(target, at, x, given)
        /\ ~Hinders(target, at, x)
  BY <1>3, <1>4 DEF Settles, Hinders
<1>8. faults \in Nat /\ faults <= faults'
  <2>1. faults \in Nat
    BY FaultsAssumption DEF Types
  <2>2. faults' = faults
    BY <1>1
  <2>3. \A n \in Nat : n <= n
    OBVIOUS
  <2>4. QED
    BY <2>1, <2>2, <2>3, Zenon
<1>9. QED
  BY <1>1, <1>2, <1>5, <1>6, <1>7, <1>8, ToldWhatIsPut, PassingAccounts DEF Calling

(* A wrong answer.                                                         *)
LEMMA WrongAnswerAccounts ==
    ASSUME Types, Accounted, WrongAnswer, ExitCode' = 0
    PROVE  Accounted'
<1>1. /\ Calling /\ React(Current.wrong) /\ ~Unreachable /\ Fault(Refused)
      /\ left' = left /\ known' = known
  BY DEF WrongAnswer
<1>2. /\ Current.wrong = "go on" /\ ExitCode = 0
      /\ target' = target /\ at' = <<at[1], at[2] + 1>>
  BY <1>1, CallMade, OnlyGoingOnIsClean
<1>3. at \in Places(target) /\ CallAt(target, at) = Current
  BY <1>1, CurrentPlace DEF Calling
<1>4. faults \in Nat /\ faults <= faults' /\ faults' \in Nat /\ (~Refused => faults' = faults + 1)
  BY <1>1, FaultsAssumption DEF Types, Fault
<1>5. ASSUME NEW x \in left, NEW given PROVE ~Settles(target, at, x, given)
  BY <1>1, <1>2, <1>3, <1>5 DEF Settles, Unreachable
<1>6. \A x : Hinders(target, at, x) => ~Refused
  BY <1>2, <1>3 DEF Hinders, Refused
<1>7. QED
  BY <1>1, <1>2, <1>4, <1>5, <1>6, PassingAccounts DEF Calling

(* Where the service is sure to run, its stop is not left.                 *)
LEMMA ServingRuns ==
    ASSUME Types, Accounted, ExitCode = 0, Serving(target, at)
    PROVE  Stopped \notin left
<1>. SUFFICES ASSUME Stopped \in left PROVE FALSE
  OBVIOUS
<1>1. Stopped # SlaveMode /\ {} \in SUBSET Things
  BY DEF Stopped, SlaveMode
<1>2. ~Uninformed(at, {})
  BY DEF Uninformed
<1>3. PICK p \in Places(target) : LeftSince(p, Stopped, at, {})
  BY <1>1, <1>2 DEF Serving, Accounted, Explained
<1>4. QED
  BY <1>3 DEF LeftSince, Serving

(* No answer.                                                              *)
LEMMA NoAnswerAccounts ==
    ASSUME Types, Accounted, NoAnswer, ExitCode' = 0
    PROVE  Accounted'
<1>1. /\ Calling /\ React(Current.none) /\ Fault(Unreachable)
      /\ left' \in {left, Effect} /\ known' = known
  BY DEF NoAnswer
<1>2. /\ Current.none = "go on" /\ ExitCode = 0
      /\ target' = target /\ at' = <<at[1], at[2] + 1>>
  BY <1>1, CallMade, OnlyGoingOnIsClean
<1>3. at \in Places(target) /\ CallAt(target, at) = Current
  BY <1>1, CurrentPlace DEF Calling
<1>4. /\ faults \in Nat /\ faults <= faults' /\ faults' \in Nat
      /\ ~Unreachable => faults' = faults + 1
  BY <1>1, FaultsAssumption DEF Types, Fault
<1>5. \A x, given : ~Settles(target, at, x, given)
  BY <1>2, <1>3 DEF Settles
<1>6. ASSUME NEW x, Hinders(target, at, x) PROVE ~Unreachable
  BY <1>2, <1>3, <1>6, ServingRuns DEF Hinders, Unreachable
<1>7. left' \ left \subseteq Current.puts
  BY <1>1 DEF Effect
<1>8. \A x \in left' \ left : ~Traced(target, x)
  BY <1>2, <1>3, <1>7 DEF Traced
<1>9. QED
  BY <1>1, <1>2, <1>4, <1>5, <1>6, <1>7, <1>8, PassingAccounts DEF Calling

(* A call that is not made.                                                *)
LEMMA PassOverAccounts ==
    ASSUME Types, Accounted, PassOver, ExitCode' = 0
    PROVE  Accounted'
<1>1. /\ ~Ended /\ at[2] <= Len(Calls) /\ ~Made /\ at' = <<at[1], at[2] + 1>>
      /\ UNCHANGED <<target, left, known, failed, broken, faults>>
  BY DEF PassOver
<1>2. ExitCode = 0
  BY <1>1 DEF ExitCode
<1>3. at \in Places(target) /\ CallAt(target, at) = Current
  BY <1>1, CurrentPlace
<1>4. PICK y \in Current.guard : y \notin known
  BY <1>1 DEF Made
<1>5. ASSUME NEW x \in known
      PROVE  /\ \A given : Settles(target, at, x, given) => \E z \in given : z \notin known
             /\ ~Hinders(target, at, x)
  BY <1>3, <1>4, <1>5 DEF Settles, Hinders
<1>6. faults \in Nat /\ faults' = faults
  BY <1>1, FaultsAssumption DEF Types
<1>7. QED
  BY <1>1, <1>2, <1>5, <1>6, PassingAccounts

(* The end of a step, and a step that changes nothing.                     *)
LEMMA NextStepAccounts ==
    ASSUME Types, Accounted, NextStep
    PROVE  Accounted'
<1>1. /\ ~Ended /\ at[2] > Len(Calls) /\ at' = <<at[1] + 1, 1>>
      /\ UNCHANGED <<target, left, known, failed, broken, faults>>
  BY DEF NextStep
<1>. DEFINE there == <<at[1] + 1, 1>>
<1>2. \A p \in Places(target) : Before(p, there) <=> Before(p, at)
  BY <1>1, NextStepPasses
<1>3. \A p : Between(target, p, there) = Between(target, p, at)
  BY <1>2 DEF Between
<1>4. \A given : Uninformed(at, given)' <=> Uninformed(at, given)
  <2>1. \A given : Uninformed(at, given)' <=> Uninformed(there, given)
    BY <1>1 DEF Uninformed
  <2>2. \A given : Uninformed(there, given) <=> Uninformed(at, given)
    BY <1>2 DEF Uninformed
  <2>3. QED
    BY <2>1, <2>2
<1>5. \A x, given : Explained(x, at, given)' <=> Explained(x, at, given)
  <2>1. ASSUME NEW x, NEW given
        PROVE  Explained(x, at, given)' <=> Explained(x, there, given)
    BY <1>1 DEF Explained, LeftSince, Hindrances
  <2>2. ASSUME NEW x, NEW given, NEW p \in Places(target)
        PROVE  /\ LeftSince(p, x, there, given) <=> LeftSince(p, x, at, given)
               /\ Hindrances(p, x, there) = Hindrances(p, x, at)
    BY <1>2, <1>3 DEF LeftSince, Hindrances
  <2>3. QED
    BY <2>1, <2>2 DEF Explained
<1>6. ExitCode' = ExitCode /\ \A x : Traced(target, x)' <=> Traced(target, x)
  BY <1>1 DEF ExitCode, Traced
<1>7. QED
  BY <1>1, <1>4, <1>5, <1>6 DEF Accounted

(* Every action keeps the account.                                         *)
LEMMA AccountedStep == Types /\ Accounted /\ [AcceptanceNext]_runVars => Accounted'
<1>. SUFFICES ASSUME Types, Accounted, [AcceptanceNext]_runVars PROVE Accounted'
  OBVIOUS
<1>1. CASE ExitCode' # 0
  BY <1>1 DEF Accounted
<1>2. CASE ExitCode' = 0
  <2>1. CASE UNCHANGED runVars
    <3>1. UNCHANGED <<target, at, left, known, failed, broken, faults>>
      BY <2>1 DEF runVars
    <3>2. /\ \A given : Uninformed(at, given)' <=> Uninformed(at, given)
          /\ \A x, given : Explained(x, at, given)' <=> Explained(x, at, given)
      BY <3>1 DEF Uninformed, Explained, LeftSince, Hindrances
    <3>3. ExitCode' = ExitCode /\ \A x : Traced(target, x)' <=> Traced(target, x)
      BY <3>1 DEF ExitCode, Traced
    <3>4. QED
      BY <3>1, <3>2, <3>3 DEF Accounted
  <2>2. QED
    BY <1>2, <2>1, SuccessAccounts, WrongAnswerAccounts, NoAnswerAccounts, PassOverAccounts,
       NextStepAccounts DEF AcceptanceNext
<1>3. QED
  BY <1>1, <1>2

-----------------------------------------------------------------------------
(* What the text of the script watches is not left at an end with exit     *)
(* code 0 by a run that knows what is given: for every script and every    *)
(* number of failing calls.                                                *)
NothingWatchedIsLeft ==
    Ended /\ ExitCode = 0 =>
        \A x \in left \ {SlaveMode}, given \in SUBSET known : ~Watched(target, x, given)

(* At the end, all places after p have been passed.                        *)
LEMMA AccountsAtTheEnd ==
    ASSUME Types, Accounted
    PROVE  NothingWatchedIsLeft
<1>. SUFFICES ASSUME Ended, ExitCode = 0, NEW x \in left \ {SlaveMode},
                     NEW given \in SUBSET known, Watched(target, x, given)
              PROVE  FALSE
  BY DEF NothingWatchedIsLeft
<1>1. target \in Targets /\ given \in SUBSET Things /\ ~Uninformed(at, given)
  BY DEF Types, Uninformed
<1>2. PICK p \in Places(target) :
         LeftSince(p, x, at, given) /\ Cardinality(Hindrances(p, x, at)) <= faults
  BY <1>1 DEF Accounted, Watched, Explained
<1>3. Between(target, p, at) = Between(target, p, EndOf(target))
  <2>1. at[1] > Restoring /\ EndOf(target) = <<Restoring + 1, 1>>
    BY DEF Ended, EndOf, Restoring, Steps
  <2>2. at[1] \in Nat /\ Restoring \in Nat
    <3>1. PICK i, j : at = <<i, j>> /\ Place(i, j)
      BY DEF Types
    <3>2. QED
      BY <1>1, <3>1, PlacesOfRun DEF Place
  <2>3. ASSUME NEW r \in Places(target) PROVE Before(r, at) /\ Before(r, <<Restoring + 1, 1>>)
    <3>1. r[1] \in 1 .. Restoring
      BY <1>1, PlacesOfRun
    <3>2. r[1] < at[1] /\ r[1] < Restoring + 1
      BY <2>1, <2>2, <3>1
    <3>3. QED
      BY <3>2 DEF Before
  <2>4. QED
    BY <2>1, <2>3 DEF Between
<1>4. Cardinality(Hindrances(p, x, at)) > MaxFaults
  BY <1>2, <1>3 DEF Watched, LeftSince, Hindrances
<1>5. Cardinality(Hindrances(p, x, at)) \in Nat
  BY <1>1, HindrancesCounted
<1>6. faults \in 0 .. MaxFaults /\ MaxFaults \in Nat
  BY FaultsAssumption DEF Types
<1>7. QED
  BY <1>2, <1>4, <1>5, <1>6

(* At the start nothing is left.                                           *)
LEMMA AccountedFromTheStart == AcceptanceInit => Accounted
  BY DEF AcceptanceInit, Accounted

(* For every script: what its text watches is put back, or the exit code   *)
(* tells.                                                                  *)
THEOREM WatchedThingsArePutBack == AcceptanceSpec => []NothingWatchedIsLeft
<1>1. AcceptanceInit => Types /\ Accounted
  BY TypesStart, AccountedFromTheStart
<1>2. Types /\ Accounted /\ [AcceptanceNext]_runVars => (Types /\ Accounted)'
  BY TypesStep, AccountedStep
<1>3. Types /\ Accounted => NothingWatchedIsLeft
  BY AccountsAtTheEnd
<1>4. QED
  BY <1>1, <1>2, <1>3, PTL DEF AcceptanceSpec

(* For the steps of mock-deploy: exit code 0 speaks true (core.rs          *)
(* mock_deploy, api_smoke.rs cleanup_audit), from the static condition     *)
(* StepsAreWatched on their text.                                          *)
THEOREM CleanAtExitZero == AcceptanceSpec => []ExitZeroIsClean
<1>1. ASSUME Types, NothingWatchedIsLeft, SlaveModeComesBack PROVE ExitZeroIsClean
  <2>. SUFFICES ASSUME Ended, ExitCode = 0, NEW x \in left, x \notin Unchecked
                PROVE  x \in PutBackAsRead
    BY DEF ExitZeroIsClean
  <2>1. x # SlaveMode
    BY <1>1 DEF SlaveModeComesBack
  <2>2. target \in Targets /\ x \in Things \ (Unchecked \cup {SlaveMode})
    BY <1>1, <2>1 DEF Types
  <2>3. \A given \in SUBSET known : ~Watched(target, x, given)
    BY <1>1, <2>1 DEF NothingWatchedIsLeft
  <2>4. CASE x = "hedge delay" /\ Watched(target, x, {"settings"})
    BY <2>3, <2>4 DEF PutBackAsRead
  <2>5. CASE x = "forward strategy" /\ target = "replica"
    BY <2>5 DEF PutBackAsRead
  <2>6. QED
    BY <2>2, <2>3, <2>4, <2>5, StepsAreWatched
<1>2. AcceptanceTypeOK => Types
  BY TypesAreTypes
<1>3. QED
  BY <1>1, <1>2, TypesAreKept, WatchedThingsArePutBack, SlaveModeAlwaysComesBack, PTL
=============================================================================
