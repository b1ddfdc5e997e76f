--------------------------- MODULE RefClockProofs ---------------------------
(* Theorems about RefClock, for every number of clocks.                    *)
EXTENDS RefClock, FiniteSetTheorems, WellFoundedInduction, TLAPS

\* How the oscillator selected so far follows from the clocks P.
SelectFollows(P) ==
    /\ select # "BOTH_OSC0"
    /\ P = {} => select = "OSC0"
    /\ \A k \in P : P = {k} => (select = "OSC1" <=> Position[k] = 1)

\* In the loop: every clock counted has passed or has added an error, and when
\* none was counted, those visited were out of service. The clock under check
\* is counted already, and selected as if it had passed.
LoopInv ==
    pc \in {"loop", "check"} =>
        /\ passed \subseteq 1..(clock - 1)
        /\ rc \in Nat
        /\ pc = "loop" =>
              /\ Cardinality(passed) + rc = count
              /\ count < clock
              /\ rc = 0 => SelectFollows(passed)
              /\ count = 0 => 1..(clock - 1) \subseteq faulty
        /\ pc = "check" =>
              /\ clock \in Clocks
              /\ Cardinality(passed) + rc + 1 = count
              /\ count <= clock
              /\ rc = 0 => SelectFollows(passed \cup {clock})

IInv == /\ TypeOK
        /\ LoopInv
        /\ SelectionSound
        /\ LostForCause

USE DEF vars, machine, process

\* A non-empty set of clocks has a first one in device tree order.
LEMMA FirstClock ==
  ASSUME NEW W \in SUBSET Clocks, W # {}
  PROVE  \E n \in W : \A m \in W : n <= m
<1> DEFINE R == StrictSubsetOrdering(Clocks)
           S == FiniteSubsetsOf(Clocks)
           Prefixes == {1..k : k \in W}
<1>1. IsWellFoundedOn(R, S)
  BY FS_StrictSubsetOrderingWellFounded
<1>2. Prefixes \subseteq S
  <2> SUFFICES ASSUME NEW k \in W PROVE 1..k \in S
    OBVIOUS
  <2>1. k \in Nat /\ 1..k \subseteq Clocks
    BY ClockAssumption DEF Clocks
  <2> QED
    BY <2>1, FS_Interval DEF FiniteSubsetsOf
<1>3. Prefixes # {}
  OBVIOUS
<1>4. PICK x \in Prefixes : \A y \in Prefixes : <<y, x>> \notin R
  <2> HIDE DEF R, S, Prefixes
  <2> QED
    BY <1>1, <1>2, <1>3, WFMin
<1>5. PICK n \in W : x = 1..n
  OBVIOUS
<1>6. ASSUME NEW m \in W PROVE n <= m
  <2>1. m \in Nat /\ n \in Nat /\ 1..m \subseteq Clocks /\ 1..n \subseteq Clocks
    BY ClockAssumption DEF Clocks
  <2>2. ~(m < n)
    <3> SUFFICES ASSUME m < n PROVE <<1..m, 1..n>> \in R
      BY <1>4, <1>5
    <3>1. 1..m \subseteq 1..n /\ n \in 1..n /\ n \notin 1..m
      BY <2>1
    <3> QED
      BY <2>1, <3>1 DEF StrictSubsetOrdering
  <2> QED
    BY <2>1, <2>2
<1> QED
  BY <1>6

\* The handler looks a clock up by its position. If it finds one it can read,
\* that is the clock that failed.
LEMMA LookupSound ==
  ASSUME NEW k \in Clocks, Lookup(Position[k]) \notin broken
  PROVE  Lookup(Position[k]) = k
<1> DEFINE W == {j \in Clocks : j \in broken \/ Position[j] = Position[k]}
<1>1. PICK n \in W : \A m \in W : n <= m
  BY FirstClock
<1>2. \A j \in 1..(n - 1) : j \notin broken /\ Position[j] # Position[k]
  <2> SUFFICES ASSUME NEW j \in 1..(n - 1) PROVE j \in Clocks /\ j \notin W
    OBVIOUS
  <2> QED
    BY <1>1, ClockAssumption DEF Clocks
<1>3. /\ Lookup(Position[k]) \in Clocks
      /\ Lookup(Position[k]) \in broken
           \/ Position[Lookup(Position[k])] = Position[k]
  BY <1>1, <1>2 DEF Lookup
<1> QED
  BY <1>3, ClockAssumption


\* Finitely many clocks passed.
LEMMA PassedFinite ==
  ASSUME TypeOK
  PROVE  IsFiniteSet(passed) /\ Cardinality(passed) \in Nat
<1>1. IsFiniteSet(Clocks)
  BY FS_Interval, ClockAssumption DEF Clocks
<1> QED
  BY <1>1, FS_Subset, FS_CardinalityType DEF TypeOK

\* No more clocks are counted than visited, nor errors than counted.
LEMMA Counted ==
  ASSUME TypeOK, LoopInv, pc \in {"loop", "check"}
  PROVE  /\ rc \in Nat
         /\ pc = "loop" => rc <= count /\ count < clock
         /\ pc = "check" => rc < count /\ clock \in Clocks
<1>1. Cardinality(passed) \in Nat
  BY PassedFinite
<1> QED
  BY <1>1 DEF LoopInv, TypeOK

\* What a failed check changes: an error is reported, and with two clocks in
\* service the failing clock itself may be given up.
LEMMA FailEffect ==
  ASSUME TypeOK, LoopInv, ClockFails
  PROVE  /\ pc = "check" /\ pc' = "loop"
         /\ clock \in Clocks /\ clock' = clock + 1
         /\ rc' = rc + 1
         /\ faulty' = faulty \cup {clock}
         /\ UNCHANGED <<functional, broken, attr, count, select, passed>>
         /\ \/ ~Redundant /\ errors' = errors \cup {"CLK"} /\ UNCHANGED pending
            \/ errors' = errors \cup {"ATTR_READ_FAIL"} /\ UNCHANGED pending
            \/ /\ errors' = errors \cup {"SPARE_CLK"}
               /\ pending' = pending \cup {clock}
<1>1. /\ pc = "check" /\ pc' = "loop"
      /\ clock \in Clocks /\ clock' = clock + 1
      /\ rc' = rc + 1
      /\ faulty' = faulty \cup {clock}
      /\ UNCHANGED <<functional, broken, attr, count, select, passed>>
  BY Counted DEF ClockFails, NextClock
<1>2. \/ ~Redundant /\ errors' = errors \cup {"CLK"} /\ UNCHANGED pending
      \/ errors' = errors \cup {"ATTR_READ_FAIL"} /\ UNCHANGED pending
      \/ /\ Lookup(Position[clock]) \notin broken
         /\ errors' = errors \cup {"SPARE_CLK"}
         /\ pending' = pending \cup {Lookup(Position[clock])}
  BY Zenon DEF ClockFails, Report, Sacrifice
<1> QED
  BY <1>1, <1>2, LookupSound

\* No step leaves a variable ill typed; LoopInv bounds the two counters.
LEMMA TypeStep == IInv /\ [Next]_vars => TypeOK'
<1> SUFFICES ASSUME TypeOK, LoopInv, [Next]_vars PROVE TypeOK'
  BY DEF IInv
<1> USE ClockAssumption DEF Clocks
<1>1. CASE Start
  BY <1>1 DEF Start, TypeOK, Selections
<1>2. CASE StartNot
  <2>1. errors' \subseteq Errors /\ passed' = {}
    BY <1>2 DEF StartNot, Errors
  <2>2. /\ rc' \in {-1, 1} /\ pc' = "done"
        /\ UNCHANGED <<machine, clock, count, select>>
    BY <1>2 DEF StartNot, Finish
  <2> QED
    BY <2>1, <2>2 DEF TypeOK
<1>3. CASE SkipClock
  BY <1>3 DEF SkipClock, TypeOK, NextClock
<1>4. CASE ClockUnreadable
  <2>1. errors' \subseteq Errors
    BY <1>4 DEF ClockUnreadable, TypeOK, Errors, Report
  <2>2. /\ pc' = "loop" /\ clock' = clock + 1 /\ clock \in Clocks
        /\ rc' = rc + 1 /\ count' = count + 1
    BY <1>4 DEF ClockUnreadable, NextClock, TypeOK
  <2>3. rc <= count /\ count < clock /\ rc \in Nat
    BY <1>4, Counted DEF ClockUnreadable
  <2>4. /\ rc' \in 0..(NumClocks + 1)
        /\ count' \in 0..NumClocks
        /\ clock' \in 1..(NumClocks + 1)
    BY <2>2, <2>3 DEF TypeOK
  <2> QED
    BY <1>4, <2>1, <2>2, <2>4 DEF ClockUnreadable, TypeOK
<1>5. CASE CheckClock
  <2>1. select' \in Selections
    BY <1>5 DEF CheckClock, SelectPosition, TypeOK, Selections
  <2>2. /\ pc = "loop" /\ pc' = "check" /\ clock \in Clocks
        /\ count' = count + 1
        /\ UNCHANGED <<machine, clock, rc, passed, errors>>
    BY <1>5 DEF CheckClock, TypeOK
  <2>3. count' \in 0..NumClocks
    BY <2>2, Counted DEF TypeOK
  <2> QED
    BY <2>1, <2>2, <2>3 DEF TypeOK
<1>5a. CASE ClockPasses
  <2>1. clock \in Clocks
    BY <1>5a, Counted DEF ClockPasses
  <2>2. clock' \in 1..(NumClocks + 1) /\ pc' = "loop"
    BY <1>5a, <2>1 DEF ClockPasses, NextClock, TypeOK
  <2> QED
    BY <1>5a, <2>1, <2>2 DEF ClockPasses, TypeOK
<1>6. CASE ClockFails
  <2>1. /\ pc = "check" /\ pc' = "loop"
        /\ clock \in Clocks /\ clock' = clock + 1
        /\ rc' = rc + 1
        /\ faulty' = faulty \cup {clock}
        /\ UNCHANGED <<functional, broken, attr, count, select, passed>>
    BY <1>6, FailEffect
  <2>2. rc < count /\ rc \in Nat
    BY <2>1, Counted
  <2>3. /\ rc' \in 0..(NumClocks + 1)
        /\ clock' \in 1..(NumClocks + 1)
    BY <2>1, <2>2 DEF TypeOK
  <2>4. errors' \subseteq Errors /\ pending' \subseteq Clocks
    <3>1. \/ errors' = errors \cup {"CLK"} /\ UNCHANGED pending
          \/ errors' = errors \cup {"ATTR_READ_FAIL"} /\ UNCHANGED pending
          \/ /\ errors' = errors \cup {"SPARE_CLK"}
             /\ pending' = pending \cup {clock}
      BY <1>6, FailEffect
    <3> QED
      BY <2>1, <3>1 DEF TypeOK, Errors
  <2> QED
    BY <2>1, <2>3, <2>4 DEF TypeOK
<1>7. CASE ClocksChecked
  <2>1. errors' \subseteq Errors
    BY <1>7 DEF ClocksChecked, TypeOK, Errors, Report
  <2>2. rc' \in {rc, 1} /\ pc' \in {"select", "done"}
    BY <1>7 DEF ClocksChecked, Finish
  <2>3. select' \in {select, "BOTH_OSC0"}
    BY <1>7 DEF ClocksChecked
  <2>4. UNCHANGED <<machine, clock, count, passed>>
    BY <1>7 DEF ClocksChecked
  <2>5. rc' \in -1..(NumClocks + 1) /\ select' \in Selections
    BY <2>2, <2>3 DEF TypeOK, Selections
  <2> QED
    BY <2>1, <2>2, <2>4, <2>5 DEF TypeOK
<1>8. CASE WriteSelect
  <2>1. errors' \subseteq Errors
    BY <1>8 DEF WriteSelect, TypeOK, Errors, Report
  <2>2. rc' \in {rc, 1} /\ pc' \in {"hwp", "done"} /\ attr' \in {attr, select}
    BY <1>8 DEF WriteSelect, Finish
  <2> QED
    BY <1>8, <2>1, <2>2 DEF WriteSelect, TypeOK
<1>9. CASE SetupRefClock
  <2>1. errors' \subseteq Errors
    BY <1>9 DEF SetupRefClock, HwpFails, TypeOK, Errors, Report
  <2>2. rc' \in {rc, 1} /\ pc' \in {"test", "done"}
    BY <1>9 DEF SetupRefClock, HwpFails, Finish
  <2> QED
    BY <1>9, <2>1, <2>2 DEF SetupRefClock, TypeOK
<1>10. CASE ClockTest
  <2>1. errors' \subseteq Errors
    BY <1>10 DEF ClockTest, HwpFails, TypeOK, Errors, Report
  <2>2. rc' \in {0, 1} /\ pc' = "done"
    BY <1>10 DEF ClockTest, HwpFails, Finish
  <2> QED
    BY <1>10, <2>1, <2>2 DEF ClockTest, TypeOK
<1>11. CASE PowerOff
  BY <1>11 DEF PowerOff, TypeOK
<1>12. CASE CodeUpdate
  BY <1>12 DEF CodeUpdate, TypeOK
<1>13. CASE \E k \in Clocks : Deconfigure(k) \/ HostbootLoses(k)
  BY <1>13 DEF Deconfigure, HostbootLoses, TypeOK
<1>14. CASE UNCHANGED vars
  BY <1>14 DEF TypeOK
<1> QED
  BY <1>1, <1>2, <1>3, <1>4, <1>5, <1>5a, <1>6, <1>7, <1>8, <1>9, <1>10, <1>11,
     <1>12, <1>13, <1>14
  DEF Next, Istep

-----------------------------------------------------------------------------
(* The invariants.                                                         *)

\* A step loses a clock only when a check of that clock fails, when hostboot
\* saw it fail, or when an earlier failure is acted upon.
LEMMA LossStep == IInv /\ [Next]_vars => LostForCause'
<1> SUFFICES ASSUME TypeOK, LoopInv, LostForCause, [Next]_vars PROVE LostForCause'
  BY DEF IInv
<1>1. CASE Start
  BY <1>1 DEF Start, LostForCause
<1>2. CASE StartNot
  BY <1>2 DEF StartNot, LostForCause
<1>3. CASE SkipClock
  BY <1>3 DEF SkipClock, LostForCause
<1>4. CASE ClockUnreadable
  BY <1>4 DEF ClockUnreadable, LostForCause
<1>5. CASE CheckClock
  BY <1>5 DEF CheckClock, LostForCause
<1>5a. CASE ClockPasses
  BY <1>5a DEF ClockPasses, LostForCause
<1>6. CASE ClockFails
  <2>1. pending' \subseteq pending \cup {clock}
    BY <1>6, FailEffect
  <2>2. faulty' = faulty \cup {clock} /\ functional' = functional
    BY <1>6, FailEffect
  <2> QED
    BY <2>1, <2>2 DEF LostForCause
<1>7. CASE ClocksChecked
  BY <1>7 DEF ClocksChecked, LostForCause
<1>8. CASE WriteSelect
  BY <1>8 DEF WriteSelect, LostForCause
<1>9. CASE SetupRefClock
  BY <1>9 DEF SetupRefClock, LostForCause
<1>10. CASE ClockTest
  BY <1>10 DEF ClockTest, LostForCause
<1>11. CASE PowerOff
  BY <1>11 DEF PowerOff, LostForCause
<1>12. CASE CodeUpdate
  BY <1>12 DEF CodeUpdate, LostForCause
<1>13. CASE \E k \in Clocks : Deconfigure(k) \/ HostbootLoses(k)
  BY <1>13 DEF Deconfigure, HostbootLoses, LostForCause
<1>14. CASE UNCHANGED vars
  BY <1>14 DEF LostForCause
<1> QED
  BY <1>1, <1>2, <1>3, <1>4, <1>5, <1>5a, <1>6, <1>7, <1>8, <1>9, <1>10, <1>11,
     <1>12, <1>13, <1>14
  DEF Next, Istep

\* Every turn of the loop keeps the count, and what is selected follows.
LEMMA LoopStep == IInv /\ [Next]_vars => LoopInv'
<1> SUFFICES ASSUME TypeOK, LoopInv, LostForCause, [Next]_vars PROVE LoopInv'
  BY DEF IInv
<1>1. CASE Start
  BY <1>1, FS_EmptySet DEF Start, LoopInv, SelectFollows
<1>2. CASE StartNot
  BY <1>2 DEF StartNot, LoopInv, Finish
<1>3. CASE SkipClock
  <2>1. pc = "loop" /\ pc' = "loop" /\ clock' = clock + 1 /\ clock \in Clocks \ functional
        /\ UNCHANGED <<faulty, passed, count, rc, select>>
    BY <1>3 DEF SkipClock, NextClock
  <2>2. clock \in faulty
    BY <2>1 DEF LostForCause
  <2> QED
    BY <2>1, <2>2, ClockAssumption DEF LoopInv, SelectFollows, TypeOK, Clocks
<1>4. CASE ClockUnreadable
  <2>1. pc = "loop" /\ pc' = "loop" /\ clock' = clock + 1 /\ clock \in Clocks
        /\ rc' = rc + 1 /\ count' = count + 1 /\ UNCHANGED passed
    BY <1>4 DEF ClockUnreadable, NextClock, TypeOK
  <2>2. Cardinality(passed) \in Nat
    BY PassedFinite
  <2> QED
    BY <2>1, <2>2, ClockAssumption DEF LoopInv, TypeOK, Clocks
<1>5. CASE CheckClock
  <2>1. pc = "loop" /\ pc' = "check" /\ clock \in Clocks
        /\ count' = count + 1 /\ UNCHANGED <<clock, rc, passed>>
    BY <1>5 DEF CheckClock, TypeOK
  <2>2. clock \in Nat \ {0} /\ clock \notin passed /\ Cardinality(passed) \in Nat
    BY <2>1, PassedFinite, ClockAssumption DEF LoopInv, Clocks
  <2>3. rc = 0 => SelectFollows(passed \cup {clock})'
    <3> SUFFICES ASSUME rc = 0 PROVE SelectFollows(passed \cup {clock})'
      OBVIOUS
    <3>1. SelectFollows(passed)
      BY <2>1 DEF LoopInv
    <3>2. select' # "BOTH_OSC0"
      BY <1>5, <3>1 DEF CheckClock, SelectPosition, SelectFollows
    <3>3. ASSUME NEW k \in passed \cup {clock}, passed \cup {clock} = {k}
          PROVE  select' = "OSC1" <=> Position[k] = 1
      <4>1. passed = {} /\ k = clock
        BY <2>2, <3>3
      <4> QED
        BY <1>5, <3>1, <4>1 DEF CheckClock, SelectPosition, SelectFollows
    <3> QED
      BY <2>1, <3>2, <3>3 DEF SelectFollows
  <2> QED
    BY <2>1, <2>2, <2>3 DEF LoopInv, TypeOK
<1>5a. CASE ClockPasses
  <2>1. pc = "check" /\ pc' = "loop" /\ clock' = clock + 1
        /\ passed' = passed \cup {clock} /\ UNCHANGED <<count, rc, select>>
    BY <1>5a DEF ClockPasses, NextClock
  <2>2. clock \in Nat \ {0} /\ clock \notin passed
    BY <2>1, ClockAssumption DEF LoopInv, Clocks
  <2>3. /\ Cardinality(passed) \in Nat
        /\ Cardinality(passed') = Cardinality(passed) + 1
    BY <2>1, <2>2, PassedFinite, FS_AddElement
  <2>4. passed' \subseteq 1..(clock' - 1)
    BY <2>1, <2>2 DEF LoopInv
  <2>5. rc = 0 => SelectFollows(passed)'
    BY <2>1 DEF LoopInv, SelectFollows
  <2> QED
    BY <2>1, <2>2, <2>3, <2>4, <2>5 DEF LoopInv, TypeOK
<1>6. CASE ClockFails
  <2>1. pc = "check" /\ pc' = "loop" /\ clock' = clock + 1 /\ clock \in Clocks
        /\ rc' = rc + 1 /\ UNCHANGED <<count, passed>>
    BY <1>6, FailEffect
  <2>2. Cardinality(passed) \in Nat
    BY PassedFinite
  <2> QED
    BY <2>1, <2>2, ClockAssumption DEF LoopInv, TypeOK, Clocks
<1>7. CASE ClocksChecked
  BY <1>7 DEF ClocksChecked, LoopInv, Finish
<1>8. CASE WriteSelect
  BY <1>8 DEF WriteSelect, LoopInv, Finish
<1>9. CASE SetupRefClock
  BY <1>9 DEF SetupRefClock, LoopInv, Finish, HwpFails
<1>10. CASE ClockTest
  BY <1>10 DEF ClockTest, LoopInv, Finish, HwpFails
<1>11. CASE PowerOff
  BY <1>11 DEF PowerOff, LoopInv
<1>12. CASE CodeUpdate
  BY <1>12 DEF CodeUpdate, LoopInv
<1>13. CASE \E k \in Clocks : Deconfigure(k) \/ HostbootLoses(k)
  BY <1>13 DEF Deconfigure, HostbootLoses, LoopInv, Finish, SelectFollows
<1>14. CASE UNCHANGED vars
  BY <1>14 DEF LoopInv, Finish, SelectFollows
<1> QED
  BY <1>1, <1>2, <1>3, <1>4, <1>5, <1>5a, <1>6, <1>7, <1>8, <1>9, <1>10, <1>11,
     <1>12, <1>13, <1>14
  DEF Next, Istep

\* When the loop is left without an error, the selection fits what passed, and
\* nothing changes it before the hardware has it.
LEMMA SelectionStep == IInv /\ [Next]_vars => SelectionSound'
<1> SUFFICES ASSUME TypeOK, LoopInv, SelectionSound, [Next]_vars
             PROVE  SelectionSound'
  BY DEF IInv
<1>1. CASE Start
  BY <1>1 DEF Start, SelectionSound
<1>2. CASE StartNot
  BY <1>2 DEF StartNot, SelectionSound, Finish
<1>3. CASE SkipClock
  BY <1>3 DEF SkipClock, SelectionSound, NextClock
<1>4. CASE ClockUnreadable
  BY <1>4 DEF ClockUnreadable, SelectionSound, NextClock
<1>5. CASE CheckClock
  BY <1>5 DEF CheckClock, SelectionSound
<1>5a. CASE ClockPasses
  BY <1>5a DEF ClockPasses, SelectionSound, NextClock
<1>6. CASE ClockFails
  BY <1>6, FailEffect DEF SelectionSound
<1>7. CASE ClocksChecked
  <2> SUFFICES ASSUME pc' = "select" PROVE SelectionSound'
    BY <1>7 DEF ClocksChecked, Finish, SelectionSound
  <2>1. /\ pc = "loop" /\ rc = 0 /\ count \in {1, 2}
        /\ select' = IF count = 2 THEN "BOTH_OSC0" ELSE select
        /\ UNCHANGED <<count, passed>>
    BY <1>7 DEF ClocksChecked, Finish
  <2>2. IsFiniteSet(passed) /\ Cardinality(passed) = count /\ SelectFollows(passed)
    BY <2>1, PassedFinite DEF LoopInv
  <2>3. CASE count = 1
    <3>1. PICK k : passed = {k}
      BY <2>2, <2>3, FS_Singleton
    <3> QED
      BY <2>1, <2>2, <2>3, <3>1 DEF SelectionSound, SelectFollows
  <2>4. CASE count = 2
    BY <2>1, <2>2, <2>4 DEF SelectionSound
  <2> QED
    BY <2>1, <2>3, <2>4
<1>8. CASE WriteSelect
  BY <1>8 DEF WriteSelect, SelectionSound, Finish
<1>9. CASE SetupRefClock
  BY <1>9 DEF SetupRefClock, SelectionSound, Finish, HwpFails
<1>10. CASE ClockTest
  BY <1>10 DEF ClockTest, SelectionSound, Finish, HwpFails
<1>11. CASE PowerOff
  BY <1>11 DEF PowerOff, SelectionSound
<1>12. CASE CodeUpdate
  BY <1>12 DEF CodeUpdate, SelectionSound
<1>13. CASE \E k \in Clocks : Deconfigure(k) \/ HostbootLoses(k)
  BY <1>13 DEF Deconfigure, HostbootLoses, SelectionSound
<1>14. CASE UNCHANGED vars
  BY <1>14 DEF SelectionSound
<1> QED
  BY <1>1, <1>2, <1>3, <1>4, <1>5, <1>5a, <1>6, <1>7, <1>8, <1>9, <1>10, <1>11,
     <1>12, <1>13, <1>14
  DEF Next, Istep

\* Two clocks are two.
LEMMA PairHasTwo == Cardinality({1, 2}) = 2
<1>1. IsFiniteSet({1}) /\ Cardinality({1}) = 1
  BY FS_Singleton
<1>2. {1, 2} = {1} \cup {2} /\ 2 \notin {1}
  OBVIOUS
<1> QED
  BY <1>1, <1>2, FS_AddElement

\* With two clocks, a check that fails without a spare, and a loop that counts
\* none, both find the other clocks lost, for cause; or the clock under check
\* has gone itself.
LEMMA BlameStep ==
  ASSUME IInv, [Next]_vars, NumClocks = 2,
         (errors' \ errors) \cap {"CLK", "INVALID_NUM_CLOCK"} # {}
  PROVE  faulty' = Clocks \/ (pc = "check" /\ clock \notin functional)
<1>0. TypeOK /\ LoopInv /\ LostForCause /\ Clocks = {1, 2}
  BY DEF IInv, Clocks
<1>1. CASE ClockFails
  <2> SUFFICES ASSUME clock \in functional PROVE faulty' = Clocks
    BY <1>1 DEF ClockFails
  <2>1. clock \in Clocks /\ faulty' = faulty \cup {clock}
    BY <1>0, <1>1, FailEffect
  <2>2. ~Redundant
    BY <1>0, <1>1, FailEffect
  <2>3. functional # Clocks
    BY <1>0, <2>2, PairHasTwo DEF Redundant
  <2> QED
    BY <1>0, <2>1, <2>3 DEF LostForCause, TypeOK
<1>2. CASE ClocksChecked
  <2>1. pc = "loop" /\ clock \notin Clocks /\ faulty' = faulty
    BY <1>2 DEF ClocksChecked
  <2>2. rc = 0 /\ count \notin {1, 2}
    BY <1>2 DEF ClocksChecked
  <2>3. clock = 3 /\ count = 0
    BY <1>0, <2>1, <2>2 DEF LoopInv, TypeOK
  <2>4. 1..(clock - 1) \subseteq faulty
    BY <1>0, <2>1, <2>3 DEF LoopInv
  <2>5. 1..(clock - 1) = {1, 2}
    BY <2>3
  <2> QED
    BY <1>0, <2>1, <2>4, <2>5 DEF TypeOK
<1>3. ClockFails \/ ClocksChecked
  <2>1. ~(Start \/ StartNot \/ SkipClock \/ CheckClock \/ ClockPasses)
    BY DEF Start, StartNot, SkipClock, CheckClock, ClockPasses
  <2>2. ~(ClockUnreadable \/ WriteSelect)
    BY DEF ClockUnreadable, WriteSelect, Report
  <2>3. ~(SetupRefClock \/ ClockTest)
    BY DEF SetupRefClock, ClockTest, HwpFails, Report
  <2>4. ~(PowerOff \/ CodeUpdate \/ UNCHANGED vars)
    BY DEF PowerOff, CodeUpdate
  <2>5. ~\E k \in Clocks : Deconfigure(k) \/ HostbootLoses(k)
    BY DEF Deconfigure, HostbootLoses
  <2> QED
    BY <2>1, <2>2, <2>3, <2>4, <2>5 DEF Next, Istep
<1> QED
  BY <1>1, <1>2, <1>3

-----------------------------------------------------------------------------
(* The theorems.                                                           *)

\* The invariant holds in every boot of every machine.
THEOREM Invariance == Spec => []IInv
<1>1. Init => IInv
  BY ClockAssumption
  DEF Init, IInv, TypeOK, LoopInv, SelectionSound, LostForCause,
      Clocks, Selections, Errors
<1>2. IInv /\ [Next]_vars => IInv'
  BY TypeStep, LoopStep, SelectionStep, LossStep DEF IInv
<1> QED
  BY <1>1, <1>2, PTL DEF Spec

\* The variables of both isteps are well typed, also with more clocks than the
\* hardware has, or with none.
THEOREM TypeCorrect == Spec => []TypeOK
<1>1. IInv => TypeOK
  BY DEF IInv
<1> QED
  BY <1>1, Invariance, PTL

\* set_ref_clock hands the hardware the oscillator of a clock that passed, and
\* asks for redundancy with two of them only.
THEOREM SelectionIsSound == Spec => []SelectionSound
<1>1. IInv => SelectionSound
  BY DEF IInv
<1> QED
  BY <1>1, Invariance, PTL

\* The error handler never gives up a clock for the fault of another.
THEOREM LossHasCause == Spec => []LostForCause
<1>1. IInv => LostForCause
  BY DEF IInv
<1> QED
  BY <1>1, Invariance, PTL

\* A machine with two clocks survives every fault of one of them, as long as
\* no clock is deconfigured while it is under check.
THEOREM BlameIsLast == Spec => BlamedWhenAllFailed
<1>1. IInv /\ [Next]_vars =>
        (NumClocks = 2 /\ (errors' \ errors) \cap {"CLK", "INVALID_NUM_CLOCK"} # {} =>
            faulty' = Clocks \/ (pc = "check" /\ clock \notin functional))
  BY BlameStep
<1> QED
  BY <1>1, Invariance, PTL DEF Spec, BlamedWhenAllFailed
=============================================================================
