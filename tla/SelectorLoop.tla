---------------------------- MODULE SelectorLoop ----------------------------
(***************************************************************************)
(* Proofs about Selector, continued: the list of jobs holds every job that *)
(* no thread still holds, and the table, the scan and the list together    *)
(* implement EventLoop.                                                    *)
(*                                                                         *)
(* The list is what Chain computes, by recursion on the number of jobs.    *)
(* The provers have no induction for it; the first section shows instead,  *)
(* from the least number at which it would fail, that Chain is the least   *)
(* set which holds the front and the next of each of its jobs.             *)
(***************************************************************************)
EXTENDS SelectorProofs, FiniteSetTheorems

(***************************************************************************)
(* What can be reached along a function                                    *)
(***************************************************************************)

Start(j) == {j} \ {NULL}
Grown(nx, S) == S \cup ({nx[i] : i \in S} \ {NULL})

\* Chain, of any next pointers: one level for each step along them.
Levels(c, nx, j, m) ==
  c = [k \in 0 .. m |-> IF k = 0 THEN Start(j) ELSE Grown(nx, c[k - 1])]

Reach(nx, j) ==
  LET chain[k \in 0 .. Cardinality(Job)] ==
        IF k = 0 THEN {j} \ {NULL}
                 ELSE chain[k - 1] \cup ({nx[i] : i \in chain[k - 1]} \ {NULL})
  IN chain[Cardinality(Job)]

\* A level is the start, or the one before it and the next of its members.
Stepwise(c, nx, j, m) ==
  /\ c[0] = Start(j)
  /\ \A k \in 0 .. m : k # 0 => c[k] = Grown(nx, c[k - 1])

LEMMA LevelsAreStepwise ==
  ASSUME NEW c, NEW nx, NEW j, NEW m \in Nat, Levels(c, nx, j, m)
  PROVE  Stepwise(c, nx, j, m)
<1> DEFINE level(i) == IF i = 0 THEN Start(j) ELSE Grown(nx, c[i - 1])
<1>1. c = [i \in 0 .. m |-> level(i)]
  BY DEF Levels
<1>2. \A k \in 0 .. m : c[k] = level(k)
  <2> HIDE DEF level
  <2> QED
    BY <1>1
<1> QED
  BY <1>2 DEF Stepwise

\* There are as many levels as one likes: without a least number of levels that do
\* not exist, all do.
LEMMA LevelsExist ==
  ASSUME NEW nx, NEW j, NEW m \in Nat
  PROVE  \E c : Levels(c, nx, j, m)
<1> DEFINE missing == {k \in Nat : ~\E c : Levels(c, nx, j, k)}
<1> SUFFICES ASSUME missing # {}
             PROVE  FALSE
  OBVIOUS
<1>1. PICK least \in missing : \A k \in missing : least <= k
  <2>1. missing \in SUBSET Nat
    OBVIOUS
  <2> HIDE DEF missing
  <2> QED
    BY <2>1, Smallest
<1>2. CASE least = 0
  <2> DEFINE c == [k \in 0 .. 0 |-> Start(j)]
  <2>1. Levels(c, nx, j, 0)
    BY DEF Levels
  <2> QED
    BY <1>1, <1>2, <2>1
<1>3. CASE least # 0
  <2>1. PICK b \in Nat : least = b + 1 /\ b \notin missing
    <3>1. least \in Nat /\ least - 1 \in Nat /\ least = (least - 1) + 1
      BY <1>1, <1>3
    <3>2. least - 1 \notin missing
      <4> HIDE DEF missing
      <4> QED
        BY <1>1, <3>1
    <3> QED
      BY <3>1, <3>2
  <2>2. PICK c : Levels(c, nx, j, b)
    BY <2>1
  <2> DEFINE d == [k \in 0 .. b + 1 |-> IF k = 0 THEN Start(j) ELSE Grown(nx, c[k - 1])]
  <2>3. ASSUME NEW k \in 0 .. b
        PROVE  d[k] = c[k]
    <3>1. /\ c[0] = Start(j)
          /\ \A i \in 0 .. b : i # 0 => c[i] = Grown(nx, c[i - 1])
      <4>1. Stepwise(c, nx, j, b)
        BY <2>2, LevelsAreStepwise
      <4> QED
        BY <4>1 DEF Stepwise
    <3>2. d[k] = IF k = 0 THEN Start(j) ELSE Grown(nx, c[k - 1])
      OBVIOUS
    <3> QED
      BY <3>1, <3>2
  <2>4. ASSUME NEW k \in 0 .. b + 1, k # 0
        PROVE  d[k] = Grown(nx, d[k - 1])
    <3>1. k - 1 \in 0 .. b
      BY <2>4
    <3>2. d[k] = Grown(nx, c[k - 1])
      BY <2>4
    <3> QED
      BY <2>3, <3>1, <3>2
  <2>5. d[0] = Start(j)
    OBVIOUS
  <2>6. d = [k \in 0 .. b + 1 |-> d[k]]
    OBVIOUS
  <2> HIDE DEF d
  <2>7. Levels(d, nx, j, least)
    BY <2>1, <2>4, <2>5, <2>6 DEF Levels
  <2> QED
    BY <1>1, <2>7
<1> QED
  BY <1>2, <1>3

\* What is reached is the last of the levels.
LEMMA ReachIsLevel ==
  ASSUME NEW nx, NEW j
  PROVE  \E c : Stepwise(c, nx, j, Cardinality(Job)) /\ Reach(nx, j) = c[Cardinality(Job)]
<1> DEFINE m == Cardinality(Job)
           chain == CHOOSE c : Levels(c, nx, j, m)
<1>1. m \in Nat
  BY FS_CardinalityType, SelectorAssumption
<1>2. Levels(chain, nx, j, m)
  BY <1>1, LevelsExist
<1>3. Reach(nx, j) = chain[m]
  BY DEF Reach, Levels, Start, Grown
<1>4. Stepwise(chain, nx, j, m)
  BY <1>1, <1>2, LevelsAreStepwise
<1> QED
  BY <1>3, <1>4

\* A set that holds the start and the next of each of its members holds all levels.
LEMMA LevelsInside ==
  ASSUME NEW nx, NEW j, NEW m \in Nat, NEW c, Stepwise(c, nx, j, m),
         NEW S, Start(j) \subseteq S, Grown(nx, S) \subseteq S
  PROVE  \A k \in 0 .. m : c[k] \subseteq S
<1> DEFINE outside == {k \in 0 .. m : ~(c[k] \subseteq S)}
<1> SUFFICES ASSUME outside # {}
             PROVE  FALSE
  OBVIOUS
<1>1. PICK least \in outside : \A k \in outside : least <= k
  <2>1. outside \in SUBSET Nat
    OBVIOUS
  <2> HIDE DEF outside
  <2> QED
    BY <2>1, Smallest
<1>2. c[0] \subseteq S
  <2>1. c[0] = Start(j)
    BY DEF Stepwise
  <2> QED
    BY <2>1
<1>3. least # 0 /\ least - 1 \in 0 .. m /\ least - 1 \notin outside
  BY <1>1, <1>2
<1>4. c[least - 1] \subseteq S
  BY <1>3
<1>5. c[least] = Grown(nx, c[least - 1])
  <2>1. \A k \in 0 .. m : k # 0 => c[k] = Grown(nx, c[k - 1])
    BY DEF Stepwise
  <2> QED
    BY <1>1, <1>3, <2>1
<1>6. Grown(nx, c[least - 1]) \subseteq Grown(nx, S)
  BY <1>4 DEF Grown
<1> QED
  BY <1>1, <1>5, <1>6

\* All levels hold the start.
LEMMA LevelsHoldStart ==
  ASSUME NEW nx, NEW j, NEW m \in Nat, NEW c, Stepwise(c, nx, j, m)
  PROVE  \A k \in 0 .. m : Start(j) \subseteq c[k]
<1> DEFINE without == {k \in 0 .. m : ~(Start(j) \subseteq c[k])}
<1> SUFFICES ASSUME without # {}
             PROVE  FALSE
  OBVIOUS
<1>1. PICK least \in without : \A k \in without : least <= k
  <2>1. without \in SUBSET Nat
    OBVIOUS
  <2> HIDE DEF without
  <2> QED
    BY <2>1, Smallest
<1>2. Start(j) \subseteq c[0]
  <2>1. c[0] = Start(j)
    BY DEF Stepwise
  <2> QED
    BY <2>1
<1>3. least # 0 /\ least - 1 \in 0 .. m /\ least - 1 \notin without
  BY <1>1, <1>2
<1>4. Start(j) \subseteq c[least - 1]
  BY <1>3
<1>5. c[least] = Grown(nx, c[least - 1])
  <2>1. \A k \in 0 .. m : k # 0 => c[k] = Grown(nx, c[k - 1])
    BY DEF Stepwise
  <2> QED
    BY <1>1, <1>3, <2>1
<1> QED
  BY <1>1, <1>4, <1>5 DEF Grown

\* A level has more members than the one before it, or is the last to differ.
LEMMA LevelsFill ==
  ASSUME NEW nx \in [Job -> Job \cup {NULL}], NEW j \in Job \cup {NULL},
         NEW m \in Nat, NEW c, Stepwise(c, nx, j, m)
  PROVE  \A k \in 0 .. m : /\ c[k] \subseteq Job
                           /\ Grown(nx, c[k]) = c[k] \/ Cardinality(c[k]) > k
<1>1. Start(j) \subseteq Job /\ Grown(nx, Job) \subseteq Job
  BY DEF Start, Grown
<1>2. ASSUME NEW k \in 0 .. m
      PROVE  c[k] \subseteq Job /\ IsFiniteSet(c[k]) /\ Cardinality(c[k]) \in Nat
  <2>1. c[k] \in SUBSET Job
    BY <1>1, LevelsInside
  <2> QED
    BY <2>1, FS_Subset, FS_CardinalityType, SelectorAssumption
<1> DEFINE poor == {k \in 0 .. m : ~(Grown(nx, c[k]) = c[k] \/ Cardinality(c[k]) > k)}
<1> SUFFICES ASSUME poor # {}
             PROVE  FALSE
  BY <1>2
<1>3. PICK least \in poor : \A k \in poor : least <= k
  <2>1. poor \in SUBSET Nat
    OBVIOUS
  <2> HIDE DEF poor
  <2> QED
    BY <2>1, Smallest
<1>4. CASE least = 0
  <2>1. c[0] = Start(j)
    BY DEF Stepwise
  <2>2. CASE j = NULL
    <3>1. c[0] = {}
      BY <2>1, <2>2 DEF Start
    <3>2. Grown(nx, c[0]) = c[0]
      BY <3>1 DEF Grown
    <3> QED
      BY <1>3, <1>4, <3>2
  <2>3. CASE j # NULL
    <3>1. c[0] = {j}
      BY <2>1, <2>3 DEF Start
    <3>2. Cardinality(c[0]) = 1
      BY <3>1, FS_Singleton
    <3> QED
      BY <1>3, <1>4, <3>2
  <2> QED
    BY <2>2, <2>3
<1>5. CASE least # 0
  <2>1. PICK b \in 0 .. m : least = b + 1 /\ b \notin poor
    <3>1. least \in 0 .. m /\ least - 1 \in 0 .. m /\ least = (least - 1) + 1
      BY <1>3, <1>5
    <3>2. least - 1 \notin poor
      <4> HIDE DEF poor
      <4> QED
        BY <1>3, <3>1
    <3> QED
      BY <3>1, <3>2
  <2>2. c[least] = Grown(nx, c[b])
    <3>1. \A k \in 0 .. m : k # 0 => c[k] = Grown(nx, c[k - 1])
      BY DEF Stepwise
    <3>2. least \in 0 .. m /\ least - 1 = b
      BY <1>3, <2>1
    <3> QED
      BY <1>5, <3>1, <3>2
  <2>3. CASE Grown(nx, c[b]) = c[b]
    BY <1>3, <2>2, <2>3
  <2>4. CASE Grown(nx, c[b]) # c[b]
    <3>1. Cardinality(c[b]) > b
      BY <2>1, <2>4
    <3>2. c[b] \in SUBSET c[least] /\ c[b] # c[least]
      BY <2>2, <2>4 DEF Grown
    <3>3. /\ Cardinality(c[b]) \in Nat /\ Cardinality(c[least]) \in Nat
          /\ IsFiniteSet(c[least])
      BY <1>2, <1>3, <2>1
    <3>4. /\ Cardinality(c[b]) <= Cardinality(c[least])
          /\ Cardinality(c[b]) # Cardinality(c[least])
      BY <3>2, <3>3, FS_Subset
    <3> QED
      BY <1>3, <2>1, <3>1, <3>3, <3>4
  <2> QED
    BY <2>3, <2>4
<1> QED
  BY <1>4, <1>5

\* Reach(nx, j) is the least set that holds j and the next of each of its members:
\* as many levels as there are jobs cannot all have had a new one.
LEMMA ReachLeast ==
  ASSUME NEW nx \in [Job -> Job \cup {NULL}], NEW j \in Job \cup {NULL}
  PROVE  /\ Reach(nx, j) \subseteq Job
         /\ j # NULL => j \in Reach(nx, j)
         /\ \A i \in Reach(nx, j) : nx[i] # NULL => nx[i] \in Reach(nx, j)
         /\ \A S \in SUBSET Job :
              /\ j # NULL => j \in S
              /\ \A i \in S : nx[i] # NULL => nx[i] \in S
              => Reach(nx, j) \subseteq S
<1> DEFINE m == Cardinality(Job)
<1>1. m \in Nat
  BY FS_CardinalityType, SelectorAssumption
<1>2. PICK c : Stepwise(c, nx, j, m) /\ Reach(nx, j) = c[m]
  BY ReachIsLevel
<1> HIDE DEF m
<1>3. c[m] \in SUBSET Job /\ (Grown(nx, c[m]) = c[m] \/ Cardinality(c[m]) > m)
  BY <1>1, <1>2, LevelsFill
<1>4. Cardinality(c[m]) <= m /\ Cardinality(c[m]) \in Nat
  BY <1>3, FS_Subset, FS_CardinalityType, SelectorAssumption DEF m
<1>5. Grown(nx, c[m]) = c[m]
  BY <1>1, <1>3, <1>4
<1>6. Start(j) \subseteq c[m]
  BY <1>1, <1>2, LevelsHoldStart
<1>7. ASSUME NEW S \in SUBSET Job,
             j # NULL => j \in S,
             \A i \in S : nx[i] # NULL => nx[i] \in S
      PROVE  c[m] \subseteq S
  <2>1. Start(j) \subseteq S /\ Grown(nx, S) \subseteq S
    BY <1>7 DEF Start, Grown
  <2> QED
    BY <1>1, <1>2, <2>1, LevelsInside
<1> QED
  BY <1>2, <1>3, <1>5, <1>6, <1>7 DEF Start, Grown

\* What is reached when an element is put in front ...
LEMMA ReachPushed ==
  ASSUME NEW nx \in [Job -> Job \cup {NULL}], NEW t \in Job
  PROVE  Reach(nx, t) = {t} \cup Reach(nx, nx[t])
<1>1. t # NULL /\ nx[t] \in Job \cup {NULL}
  BY SelectorAssumption
<1> DEFINE R == Reach(nx, nx[t])
<1>2. /\ R \subseteq Job
      /\ nx[t] # NULL => nx[t] \in R
      /\ \A i \in R : nx[i] # NULL => nx[i] \in R
      /\ \A S \in SUBSET Job :
           /\ nx[t] # NULL => nx[t] \in S
           /\ \A i \in S : nx[i] # NULL => nx[i] \in S
           => R \subseteq S
  BY <1>1, ReachLeast
<1> DEFINE Q == Reach(nx, t)
<1>3. /\ Q \subseteq Job
      /\ t \in Q
      /\ \A i \in Q : nx[i] # NULL => nx[i] \in Q
      /\ \A S \in SUBSET Job :
           /\ t \in S
           /\ \A i \in S : nx[i] # NULL => nx[i] \in S
           => Q \subseteq S
  BY <1>1, ReachLeast
<1> HIDE DEF R, Q
<1>4. Q \subseteq {t} \cup R
  <2>1. {t} \cup R \in SUBSET Job /\ t \in {t} \cup R
    BY <1>2
  <2>2. ASSUME NEW i \in {t} \cup R, nx[i] # NULL
        PROVE  nx[i] \in {t} \cup R
    BY <1>2, <2>2
  <2> QED
    BY <1>3, <2>1, <2>2
<1>5. {t} \cup R \subseteq Q
  BY <1>2, <1>3
<1> QED
  BY <1>4, <1>5 DEF R, Q

\* ... when the first is taken off, which nothing else leads to ...
LEMMA ReachPopped ==
  ASSUME NEW nx \in [Job -> Job \cup {NULL}], NEW j \in Job, \A i \in Job : nx[i] # j
  PROVE  Reach([nx EXCEPT ![j] = NULL], nx[j]) = Reach(nx, j) \ {j}
<1> DEFINE mx == [nx EXCEPT ![j] = NULL]
           h == nx[j]
           R == Reach(nx, j)
           Q == Reach(mx, h)
<1>1. /\ mx \in [Job -> Job \cup {NULL}]
      /\ \A i \in Job : mx[i] = IF i = j THEN NULL ELSE nx[i]
      /\ h \in Job \cup {NULL} /\ h # j /\ j # NULL
  BY SelectorAssumption
<1> HIDE DEF mx
<1>2. /\ R \subseteq Job
      /\ j \in R
      /\ \A i \in R : nx[i] # NULL => nx[i] \in R
      /\ \A S \in SUBSET Job :
           /\ j \in S
           /\ \A i \in S : nx[i] # NULL => nx[i] \in S
           => R \subseteq S
  BY <1>1, ReachLeast
<1>3. /\ Q \subseteq Job
      /\ h # NULL => h \in Q
      /\ \A i \in Q : mx[i] # NULL => mx[i] \in Q
      /\ \A S \in SUBSET Job :
           /\ h # NULL => h \in S
           /\ \A i \in S : mx[i] # NULL => mx[i] \in S
           => Q \subseteq S
  BY <1>1, ReachLeast
<1> HIDE DEF R, Q
<1>4. Q \subseteq R \ {j}
  <2>1. R \ {j} \in SUBSET Job /\ (h # NULL => h \in R \ {j})
    BY <1>1, <1>2
  <2>2. ASSUME NEW i \in R \ {j}, mx[i] # NULL
        PROVE  mx[i] \in R \ {j}
    BY <1>1, <1>2, <2>2
  <2> QED
    BY <1>3, <2>1, <2>2
<1>5. R \subseteq Q \cup {j}
  <2>1. Q \cup {j} \in SUBSET Job
    BY <1>3
  <2>2. ASSUME NEW i \in Q \cup {j}, nx[i] # NULL
        PROVE  nx[i] \in Q \cup {j}
    BY <1>1, <1>3, <2>2
  <2> QED
    BY <1>2, <2>1, <2>2
<1> QED
  BY <1>4, <1>5 DEF R, Q, mx

\* ... and when the pointer of an element changes that is not reached.
LEMMA ReachUntouched ==
  ASSUME NEW nx \in [Job -> Job \cup {NULL}], NEW j \in Job \cup {NULL},
         NEW t \in Job \ Reach(nx, j), NEW h \in Job \cup {NULL}
  PROVE  Reach([nx EXCEPT ![t] = h], j) = Reach(nx, j)
<1> DEFINE mx == [nx EXCEPT ![t] = h]
           R == Reach(nx, j)
           Q == Reach(mx, j)
<1>1. /\ mx \in [Job -> Job \cup {NULL}]
      /\ \A i \in Job : mx[i] = IF i = t THEN h ELSE nx[i]
      /\ t \notin R
  OBVIOUS
<1> HIDE DEF mx
<1>2. /\ R \subseteq Job
      /\ j # NULL => j \in R
      /\ \A i \in R : nx[i] # NULL => nx[i] \in R
      /\ \A S \in SUBSET Job :
           /\ j # NULL => j \in S
           /\ \A i \in S : nx[i] # NULL => nx[i] \in S
           => R \subseteq S
  BY ReachLeast
<1>3. /\ Q \subseteq Job
      /\ j # NULL => j \in Q
      /\ \A i \in Q : mx[i] # NULL => mx[i] \in Q
      /\ \A S \in SUBSET Job :
           /\ j # NULL => j \in S
           /\ \A i \in S : mx[i] # NULL => mx[i] \in S
           => Q \subseteq S
  BY <1>1, ReachLeast
<1> HIDE DEF R, Q
<1>4. Q \subseteq R
  BY <1>1, <1>2, <1>3
<1>5. R \subseteq Q
  BY <1>1, <1>2, <1>3, <1>4
<1> QED
  BY <1>4, <1>5 DEF R, Q, mx

(***************************************************************************)
(* The list                                                                *)
(***************************************************************************)

\* Reach is Chain, before a step and after it.
LEMMA WaitingIsReach ==
  /\ Waiting = Reach(next, Front)
  /\ Waiting' = Reach(next', Front')
<1>1. Waiting = Reach(next, Front)
  BY DEF Waiting, Chain, Reach
<1>2. Waiting' = Reach(next', Front')
  BY DEF Waiting, Chain, Reach
<1> QED
  BY <1>1, <1>2

\* The list holds allocated jobs, its front first, and none that a thread holds.
LEMMA ListShape ==
  ASSUME JobInv
  PROVE  /\ next \in [Job -> Job \cup {NULL}]
         /\ Front \in heap \cup {NULL}
         /\ Waiting \subseteq heap /\ heap \subseteq Job
         /\ Front # NULL => Front \in Waiting
         /\ \A t \in Thread : tjob[t] \notin Waiting
<1>1. /\ next \in [Job -> Job \cup {NULL}] /\ next \in [Job -> heap \cup {NULL}]
      /\ heap \subseteq Job
      /\ Front \in heap \cup {NULL}
      /\ tjob \in [Thread -> heap \cup {NULL}]
  BY DEF JobInv, JobTypes, LockInv, Front
<1>2. /\ Waiting \subseteq Job
      /\ Front # NULL => Front \in Waiting
      /\ \A i \in Waiting : next[i] # NULL => next[i] \in Waiting
      /\ \A S \in SUBSET Job :
           /\ Front # NULL => Front \in S
           /\ \A i \in S : next[i] # NULL => next[i] \in S
           => Waiting \subseteq S
  BY <1>1, WaitingIsReach, ReachLeast
<1>3. Waiting \subseteq heap
  BY <1>1, <1>2
<1>4. ASSUME NEW t \in Thread, tjob[t] \in Waiting
      PROVE  FALSE
  <2>1. tjob[t] # NULL
    BY <1>2, <1>4, SelectorAssumption
  <2>2. tjob[t] # Front /\ \A i \in Job : next[i] # tjob[t]
    BY <2>1 DEF JobInv, ListInv
  <2>3. Waiting \subseteq Waiting \ {tjob[t]}
    BY <1>2, <2>2
  <2> QED
    BY <1>4, <2>3
<1> QED
  BY <1>1, <1>2, <1>3, <1>4

\* What is left of JobsAccounted: no allocated job is forgotten.
NoneForgotten == \A j \in heap : j \in Waiting \/ \E t \in Thread : tjob[t] = j

\* With that, the shape of the list is all of JobsAccounted.
LEMMA ListIsAccounted ==
  ASSUME JobInv, NoneForgotten
  PROVE  JobsAccounted
<1>1. /\ Waiting \subseteq heap /\ heap \subseteq Job
      /\ \A t \in Thread : tjob[t] \notin Waiting
  BY ListShape
<1>2. tjob \in [Thread -> heap \cup {NULL}]
  BY DEF JobInv, JobTypes
<1>3. heap = Waiting \cup {tjob[t] : t \in {u \in Thread : tjob[u] # NULL}}
  BY <1>1, <1>2, SelectorAssumption DEF NoneForgotten
<1>4. \A t, u \in Thread : t # u /\ tjob[t] # NULL => tjob[t] # tjob[u]
  BY DEF JobInv, ListInv
<1>5. \A i, j \in Waiting : i # j /\ next[i] # NULL => next[i] # next[j]
  BY <1>1 DEF JobInv, ListInv
<1> QED
  BY <1>1, <1>3, <1>4, <1>5 DEF JobsAccounted

\* Who leaves the pointers and the front of the list alone leaves the list alone.
LEMMA ListKept ==
  ASSUME next' = next, Front' = Front
  PROVE  Waiting' = Waiting
BY WaitingIsReach

\* A job that is linked is not yet in the list ...
LEMMA ListLinked ==
  ASSUME JobInv, NEW t \in Thread, LinkJob(t)
  PROVE  Waiting' = Waiting
<1>1. /\ mutex = NULL /\ mutex' = t /\ tpc[t] = "lock"
      /\ next' = [next EXCEPT ![tjob[t]] = head]
      /\ UNCHANGED <<head, cursor>>
  BY DEF LinkJob
<1>2. t # "main" /\ NULL # "main"
  BY SelectorAssumption
<1>3. Front = head /\ Front' = head
  BY <1>1, <1>2 DEF Front
<1>4. tjob[t] \in Job
  BY <1>1 DEF JobInv, JobTypes, LockInv
<1>5. /\ next \in [Job -> Job \cup {NULL}] /\ head \in Job \cup {NULL}
      /\ tjob[t] \in Job \ Reach(next, head)
  BY <1>3, <1>4, ListShape, WaitingIsReach
<1>6. Reach(next', head) = Reach(next, head)
  BY <1>1, <1>5, ReachUntouched
<1> QED
  BY <1>3, <1>6, WaitingIsReach

\* ... is its front when it is pushed ...
LEMMA ListPushed ==
  ASSUME JobInv, NEW t \in Thread, PushJob(t)
  PROVE  Waiting' = Waiting \cup {tjob[t]} /\ tjob[t] \in heap
<1>1. /\ tpc[t] = "push" /\ head' = tjob[t] /\ mutex' = NULL
      /\ UNCHANGED <<next, cursor>>
  BY DEF PushJob
<1>2. t # "main" /\ NULL # "main"
  BY SelectorAssumption
<1>3. /\ mutex = t /\ tjob[t] # NULL /\ tjob[t] \in heap /\ heap \subseteq Job
      /\ next[tjob[t]] = Front
  BY <1>1 DEF JobInv, JobTypes, LockInv, ListInv, Pushing
<1>4. Front = head /\ Front' = tjob[t]
  BY <1>1, <1>2, <1>3 DEF Front
<1> QED
  BY <1>1, <1>3, <1>4, ListShape, WaitingIsReach, ReachPushed

\* ... and no longer in it when it was presented.
LEMMA ListPopped ==
  ASSUME JobInv, mutex = "main", cursor # NULL, NextJob, UNCHANGED <<head, mutex>>
  PROVE  Waiting' = Waiting \ {cursor} /\ cursor \in Waiting
<1>1. cursor' = next[cursor] /\ next' = [next EXCEPT ![cursor] = NULL]
  BY DEF NextJob, FreeJob
<1>2. Front = cursor /\ Front' = next[cursor] /\ cursor \in Job
  BY <1>1 DEF Front, JobInv, JobTypes
<1>3. \A i \in Job : next[i] # cursor
  <2>1. \A t \in Thread : ~Pushing(t)
    BY SelectorAssumption DEF JobInv, LockInv, Pushing
  <2> QED
    BY <1>2, <2>1, SelectorAssumption DEF JobInv, ListInv
<1>4. Reach(next', next[cursor]) = Reach(next, cursor) \ {cursor}
  BY <1>1, <1>2, <1>3, ListShape, ReachPopped
<1> QED
  BY <1>2, <1>4, ListShape, WaitingIsReach

\* Steps that leave list and pointers alone, and the one that ends a presentation.
ListIdle == UNCHANGED <<listVars, mutex, cursor, tjob>>
JobDone ==
  /\ pc = "drain" /\ mutex = "main" /\ cursor # NULL
  /\ NextJob
  /\ UNCHANGED <<head, mutex, tjob>>

\* The steps that change the list.
LEMMA ListSteps ==
  ASSUME LoopInv, [Next]_vars
  PROVE  \/ \E t \in Thread : AllocateJob(t) \/ LinkJob(t) \/ PushJob(t)
         \/ LockJobs
         \/ UnlockJobs
         \/ JobDone
         \/ ListIdle
<1>1. CASE UsesTable
  BY <1>1 DEF UsesTable, selector_register, selector_set_interest,
     selector_unregister_fd, Untouched, ListIdle, threadVars
<1>2. CASE PselectReady \/ PselectTimeout \/ PselectInterrupted
  BY <1>2 DEF PselectReady, PselectTimeout, PselectInterrupted, Reports, ListIdle,
     threadVars
<1>3. CASE \/ Enter \/ handle_iteration \/ HandlerReturns \/ DestroyItem
           \/ DestroyJobs \/ Stop \/ UNCHANGED vars
  BY <1>3 DEF Enter, handle_iteration, HandlerReturns, DestroyItem, DestroyJobs, Stop,
     vars, ListIdle, threadVars
<1>4. CASE PresentJob
  BY <1>4 DEF PresentJob, LoopInv, JobDone, ListIdle, threadVars
<1>5. CASE BlockReturns
  BY <1>5 DEF BlockReturns, InHandler, LoopInv, JobDone, threadVars
<1>6. ASSUME NEW t \in Thread, Spawn(t) \/ RaiseAlarm(t)
      PROVE  ListIdle
  BY <1>6 DEF Spawn, RaiseAlarm, ListIdle
<1> QED
  BY <1>1, <1>2, <1>3, <1>4, <1>5, <1>6 DEF Next, Proceeds, NotifyBlock, Ended

\* Taking and releasing the mutex does not move the front.
LEMMA FrontKept ==
  ASSUME JobInv, LoopInv, LockJobs \/ UnlockJobs \/ UNCHANGED <<head, mutex, cursor>>
  PROVE  Front' = Front
<1>1. CASE LockJobs
  <2>1. mutex = NULL /\ mutex' = "main" /\ cursor' = head /\ NULL # "main"
    BY <1>1, SelectorAssumption DEF LockJobs
  <2> QED
    BY <2>1 DEF Front
<1>2. CASE UnlockJobs
  <2>1. /\ mutex = "main" /\ cursor = NULL /\ head' = NULL /\ mutex' = NULL
        /\ NULL # "main"
    BY <1>2, SelectorAssumption DEF UnlockJobs, LoopInv
  <2> QED
    BY <2>1 DEF Front
<1> QED
  BY <1>1, <1>2 DEF Front

\* A job that is allocated is its thread's, until it is pushed; one that leaves the
\* list is freed.
LEMMA StepForgetsNone ==
  ASSUME JobInv, LoopInv, NoneForgotten, [Next]_vars
  PROVE  NoneForgotten'
<1>1. ASSUME NEW t \in Thread, AllocateJob(t)
      PROVE  NoneForgotten'
  <2>1. UNCHANGED <<head, next, mutex, cursor>>
    BY <1>1 DEF AllocateJob, listVars
  <2>2. Waiting' = Waiting
    BY <2>1, ListKept DEF Front
  <2>3. tjob \in [Thread -> heap \cup {NULL}] /\ tjob[t] = NULL
    BY <1>1 DEF AllocateJob, JobInv, JobTypes, LockInv
  <2>4. CASE UNCHANGED <<listVars, tjob>>
    BY <2>2, <2>4 DEF NoneForgotten, listVars
  <2>5. ASSUME NEW j \in Job \ heap, heap' = heap \cup {j}, tjob' = [tjob EXCEPT ![t] = j]
        PROVE  NoneForgotten'
    <3>1. tjob'[t] = j /\ \A u \in Thread : u # t => tjob'[u] = tjob[u]
      BY <2>3, <2>5
    <3>2. NULL \notin heap
      BY SelectorAssumption DEF JobInv, JobTypes
    <3> QED
      BY <2>2, <2>3, <2>5, <3>1, <3>2 DEF NoneForgotten
  <2> QED
    BY <1>1, <2>4, <2>5 DEF AllocateJob
<1>2. ASSUME NEW t \in Thread, LinkJob(t)
      PROVE  NoneForgotten'
  BY <1>2, ListLinked DEF LinkJob, NoneForgotten
<1>3. ASSUME NEW t \in Thread, PushJob(t)
      PROVE  NoneForgotten'
  <2>1. Waiting' = Waiting \cup {tjob[t]}
    BY <1>3, ListPushed
  <2>2. heap' = heap /\ \A u \in Thread : u # t => tjob'[u] = tjob[u]
    BY <1>3 DEF PushJob, JobInv, JobTypes
  <2> QED
    BY <2>1, <2>2 DEF NoneForgotten
<1>4. CASE LockJobs \/ UnlockJobs \/ ListIdle
  <2>1. /\ next' = next /\ heap' = heap /\ tjob' = tjob
        /\ LockJobs \/ UnlockJobs \/ UNCHANGED <<head, mutex, cursor>>
    BY <1>4 DEF LockJobs, UnlockJobs, ListIdle, listVars, threadVars
  <2>2. Waiting' = Waiting
    BY <2>1, FrontKept, ListKept
  <2> QED
    BY <2>1, <2>2 DEF NoneForgotten
<1>5. CASE JobDone
  <2>1. Waiting' = Waiting \ {cursor}
    BY <1>5, ListPopped DEF JobDone
  <2>2. heap' = heap \ {cursor} /\ tjob' = tjob
    BY <1>5 DEF JobDone, NextJob, FreeJob
  <2> QED
    BY <2>1, <2>2 DEF NoneForgotten
<1> QED
  BY <1>1, <1>2, <1>3, <1>4, <1>5, ListSteps

\* A thread starts with a registered descriptor, which its job takes over.
LEMMA StepAddresses ==
  ASSUME TableInv, JobInv, LoopInv, Addressed, [Next]_vars
  PROVE  Addressed'
<1>0. /\ tpc \in [Thread -> {"idle", "work", "lock", "push", "kill"}]
      /\ tfd \in [Thread -> Fd \cup {0}]
      /\ jfd \in [Job -> Fd \cup {0}]
      /\ heap \subseteq Job
  BY DEF JobInv, JobTypes
<1>1. ASSUME NEW t \in Thread, AllocateJob(t)
      PROVE  Addressed'
  <2>1. tpc[t] = "work" /\ tfd[t] \in Fd /\ tfd' = [tfd EXCEPT ![t] = 0]
    BY <1>1 DEF AllocateJob, Forget, Addressed
  <2>2. PICK label \in {"idle", "lock"} : tpc' = [tpc EXCEPT ![t] = label]
    BY <1>1 DEF AllocateJob, Goto
  <2>3. \A u \in Thread : tpc'[u] = "work" => tfd'[u] \in Fd
    BY <1>0, <2>1, <2>2 DEF Addressed
  <2>4. \A j \in heap' : jfd'[j] \in Fd
    <3>1. CASE UNCHANGED listVars
      BY <3>1 DEF listVars, Addressed
    <3>2. ASSUME NEW j \in Job \ heap,
                 heap' = heap \cup {j}, jfd' = [jfd EXCEPT ![j] = tfd[t]]
          PROVE  \A i \in heap' : jfd'[i] \in Fd
      BY <1>0, <2>1, <3>2 DEF Addressed
    <3> QED
      BY <1>1, <3>1, <3>2 DEF AllocateJob
  <2> QED
    BY <2>3, <2>4 DEF Addressed
<1>2. ASSUME NEW t \in Thread, NEW label \in {"push", "kill", "idle"},
             tpc' = [tpc EXCEPT ![t] = label], UNCHANGED <<tfd, jfd, heap>>
      PROVE  Addressed'
  BY <1>0, <1>2 DEF Addressed
<1>3. ASSUME NEW t \in Thread, LinkJob(t) \/ PushJob(t) \/ RaiseAlarm(t)
      PROVE  Addressed'
  BY <1>2, <1>3 DEF LinkJob, PushJob, RaiseAlarm, Goto, listVars
<1>4. ASSUME NEW t \in Thread, Spawn(t)
      PROVE  Addressed'
  <2>1. tpc' = [tpc EXCEPT ![t] = "work"] /\ UNCHANGED <<jfd, heap>>
    BY <1>4 DEF Spawn, listVars
  <2>2. PICK f \in used : tfd' = [tfd EXCEPT ![t] = f]
    BY <1>4 DEF Spawn
  <2>3. f \in Fd
    BY DEF TableInv, TableTypes
  <2> QED
    BY <1>0, <2>1, <2>2, <2>3 DEF Addressed
<1>5. CASE NextJob /\ UNCHANGED <<tpc, tfd>>
  <2>1. heap' = heap \ {cursor} /\ jfd' = [jfd EXCEPT ![cursor] = 0]
    BY <1>5 DEF NextJob, FreeJob
  <2> QED
    BY <1>0, <1>5, <2>1 DEF Addressed
<1>6. CASE UNCHANGED <<tpc, tfd, jfd, heap>>
  BY <1>6 DEF Addressed
<1>7. CASE PresentJob \/ BlockReturns
  BY <1>5, <1>6, <1>7 DEF PresentJob, BlockReturns, listVars, threadVars
<1>8. CASE UsesTable
  BY <1>6, <1>8 DEF UsesTable, selector_register, selector_set_interest,
     selector_unregister_fd, Untouched, listVars, threadVars
<1>9. CASE PselectReady \/ PselectTimeout \/ PselectInterrupted
  BY <1>6, <1>9 DEF PselectReady, PselectTimeout, PselectInterrupted, Reports,
     listVars, threadVars
<1>10. CASE \/ Enter \/ handle_iteration \/ HandlerReturns \/ DestroyItem
            \/ DestroyJobs \/ Stop \/ LockJobs \/ UnlockJobs \/ UNCHANGED vars
  BY <1>6, <1>10 DEF Enter, handle_iteration, HandlerReturns, DestroyItem, DestroyJobs,
     Stop, LockJobs, UnlockJobs, vars, listVars, threadVars
<1> QED
  BY <1>1, <1>3, <1>4, <1>7, <1>8, <1>9, <1>10 DEF Next, Proceeds, NotifyBlock, Ended

(***************************************************************************)
(* Theorems: the list                                                      *)
(***************************************************************************)

\* Whatever threads and loop do, each allocated job is in the list or in the hands
\* of one thread, and carries the descriptor it was made for.
THEOREM PromiseInvariant == Spec => []PromiseInv
<1> DEFINE Inv == IInv /\ NoneForgotten /\ Addressed
<1>1. Init => Inv
  <2>1. ASSUME Init
        PROVE  NoneForgotten /\ Addressed
    BY <2>1 DEF Init, NoneForgotten, Addressed
  <2> QED
    BY <2>1, InitEstablishes
<1>2. Inv /\ [Next]_vars => NoneForgotten' /\ Addressed'
  <2> SUFFICES ASSUME Inv, [Next]_vars
               PROVE  NoneForgotten' /\ Addressed'
    OBVIOUS
  <2>1. TableInv /\ JobInv /\ LoopInv
    BY DEF IInv, TypeOK, TableInv, JobInv
  <2> QED
    BY <2>1, StepForgetsNone, StepAddresses
<1>3. Inv => PromiseInv
  <2> SUFFICES ASSUME Inv
               PROVE  PromiseInv
    OBVIOUS
  <2>1. JobInv
    BY DEF IInv, TypeOK, JobInv
  <2> QED
    BY <2>1, ListIsAccounted DEF PromiseInv
<1>4. Spec => []IInv
  BY Invariance
<1> QED
  BY <1>1, <1>2, <1>3, <1>4, PTL DEF Spec

\* No job is lost, shared, or freed while it is in the list.
THEOREM AllAccounted == Spec => []JobsAccounted
<1>1. PromiseInv => JobsAccounted
  BY DEF PromiseInv
<1> QED
  BY <1>1, PromiseInvariant, PTL

(***************************************************************************)
(* What EventLoop sees                                                     *)
(***************************************************************************)

\* The jobs whose notification EventLoop has yet to present, and their numbers.
Unpresented == Waiting \ Presented
Counts == [f \in Fd |-> Posted(f)]

\* They are finitely many.
LEMMA PostedIsCount ==
  ASSUME JobInv, NEW f
  PROVE  /\ Posted(f) = Cardinality({j \in Unpresented : jfd[j] = f})
         /\ IsFiniteSet({j \in Unpresented : jfd[j] = f})
         /\ Posted(f) \in Nat
<1>1. Posted(f) = Cardinality({j \in Unpresented : jfd[j] = f})
  BY DEF Posted, Unpresented
<1>2. {j \in Unpresented : jfd[j] = f} \in SUBSET Job
  BY ListShape DEF Unpresented
<1>3. IsFiniteSet({j \in Unpresented : jfd[j] = f})
  BY <1>2, FS_Subset, SelectorAssumption
<1> QED
  BY <1>1, <1>3, FS_CardinalityType

\* The numbers depend on those jobs and their descriptors only.
LEMMA CountsKept ==
  ASSUME Unpresented' = Unpresented, \A j \in Unpresented : jfd'[j] = jfd[j]
  PROVE  Counts' = Counts
<1>1. ASSUME NEW f \in Fd
      PROVE  Posted(f)' = Posted(f)
  <2>1. {j \in Unpresented' : jfd'[j] = f} = {j \in Unpresented : jfd[j] = f}
    OBVIOUS
  <2>2. Posted(f)' = Cardinality({j \in Unpresented' : jfd'[j] = f})
    BY DEF Posted, Unpresented
  <2>3. Posted(f) = Cardinality({j \in Unpresented : jfd[j] = f})
    BY DEF Posted, Unpresented
  <2> QED
    BY <2>1, <2>2, <2>3
<1> QED
  BY <1>1 DEF Counts

\* One job more.
LEMMA CountsUp ==
  ASSUME JobInv, NEW j, NEW g \in Fd, j \notin Unpresented, jfd'[j] = g,
         Unpresented' = Unpresented \cup {j}, \A i \in Unpresented : jfd'[i] = jfd[i]
  PROVE  Counts' = [Counts EXCEPT ![g] = @ + 1]
<1>1. ASSUME NEW f \in Fd
      PROVE  Posted(f)' = IF f = g THEN Posted(f) + 1 ELSE Posted(f)
  <2> DEFINE old == {i \in Unpresented : jfd[i] = f}
             new == {i \in Unpresented' : jfd'[i] = f}
  <2>1. Posted(f) = Cardinality(old) /\ IsFiniteSet(old) /\ Posted(f) \in Nat
    BY PostedIsCount
  <2>2. Posted(f)' = Cardinality(new)
    BY DEF Posted, Unpresented
  <2>3. new = IF f = g THEN old \cup {j} ELSE old
    OBVIOUS
  <2>4. j \notin old
    OBVIOUS
  <2> HIDE DEF old, new
  <2>5. Cardinality(old \cup {j}) = Cardinality(old) + 1
    BY <2>1, <2>4, FS_AddElement
  <2> QED
    BY <2>1, <2>2, <2>3, <2>5
<1> QED
  BY <1>1 DEF Counts

\* One job less.
LEMMA CountsDown ==
  ASSUME JobInv, NEW j \in Unpresented, NEW g \in Fd, jfd[j] = g,
         Unpresented' = Unpresented \ {j}, \A i \in Unpresented' : jfd'[i] = jfd[i]
  PROVE  Counts' = [Counts EXCEPT ![g] = @ - 1] /\ Counts[g] > 0
<1>1. ASSUME NEW f \in Fd
      PROVE  /\ Posted(f)' = IF f = g THEN Posted(f) - 1 ELSE Posted(f)
             /\ f = g => Posted(f) > 0
  <2> DEFINE old == {i \in Unpresented : jfd[i] = f}
             new == {i \in Unpresented' : jfd'[i] = f}
  <2>1. Posted(f) = Cardinality(old) /\ IsFiniteSet(old) /\ Posted(f) \in Nat
    BY PostedIsCount
  <2>2. Posted(f)' = Cardinality(new)
    BY DEF Posted, Unpresented
  <2>3. new = IF f = g THEN old \ {j} ELSE old
    OBVIOUS
  <2>4. f = g => j \in old
    OBVIOUS
  <2> HIDE DEF old, new
  <2>5. f = g => Cardinality(old \ {j}) = Cardinality(old) - 1 /\ Cardinality(old) # 0
    BY <2>1, <2>4, FS_RemoveElement, FS_EmptySet
  <2> QED
    BY <2>1, <2>2, <2>3, <2>5
<1> QED
  BY <1>1 DEF Counts

\* Steps that leave the list, the mutex and the handler alone post nothing.
LEMMA CountsIdle ==
  ASSUME UNCHANGED <<head, next, jfd, mutex, cursor, call>>
  PROVE  Counts' = Counts
<1>1. Waiting' = Waiting
  BY ListKept DEF Front
<1>2. Presented' = Presented
  BY DEF Presented
<1> QED
  BY <1>1, <1>2, CountsKept DEF Unpresented

(***************************************************************************)
(* The refinement                                                          *)
(***************************************************************************)

LoopStep == [Promise!Next]_(Promise!vars)

\* Steps that EventLoop does not see: nothing registered, interested, running or
\* posted changes.
LEMMA HiddenStep ==
  ASSUME UNCHANGED <<used, interest, Counts, call>>
  PROVE  LoopStep
BY DEF Counts, LoopStep, Promise!vars

\* What handlers do to the table, and the destruction.
LEMMA RegisterSeen ==
  ASSUME NEW f \in Fd, NEW i \in Interest, selector_register(f, i)
  PROVE  LoopStep
<1>1. UNCHANGED <<head, next, jfd, mutex, cursor, call>> /\ f \notin used
  BY DEF selector_register, Untouched, listVars
<1>2. Counts' = Counts
  BY <1>1, CountsIdle
<1>3. CASE OutOfBounds
  BY <1>1, <1>2, <1>3, HiddenStep DEF OutOfBounds, tableVars
<1>4. CASE ~OutOfBounds
  <2>1. used' = used \cup {f} /\ interest' = [interest EXCEPT ![f] = i]
    BY <1>4 DEF selector_register
  <2>2. Promise!Attach(f, i)
    BY <1>1, <1>2, <2>1 DEF Counts, Promise!Attach
  <2> QED
    BY <2>2 DEF LoopStep, Promise!Next
<1> QED
  BY <1>3, <1>4

\* A change of interest.
LEMMA SetInterestSeen ==
  ASSUME NEW f \in Fd, NEW i \in Interest, selector_set_interest(f, i)
  PROVE  LoopStep
<1>1. /\ UNCHANGED <<head, next, jfd, mutex, cursor, call, used>> /\ f \in used
      /\ interest' = [interest EXCEPT ![f] = i]
  BY DEF selector_set_interest, Untouched, listVars
<1>2. Counts' = Counts
  BY <1>1, CountsIdle
<1>3. Promise!Alter(f, i)
  BY <1>1, <1>2 DEF Counts, Promise!Alter
<1> QED
  BY <1>3 DEF LoopStep, Promise!Next

\* A descriptor leaves the table.
LEMMA UnregisterSeen ==
  ASSUME NEW f \in Fd, f \in used, Unregister(f),
         UNCHANGED <<head, next, jfd, mutex, cursor, call>>
  PROVE  LoopStep
<1>1. used' = used \ {f} /\ interest' = [interest EXCEPT ![f] = {}]
  BY DEF Unregister
<1>2. Counts' = Counts
  BY CountsIdle
<1>3. Promise!Detach(f)
  BY <1>1, <1>2 DEF Counts, Promise!Detach
<1> QED
  BY <1>3 DEF LoopStep, Promise!Next

\* The scan calls a handler only for what is registered and still interested.
LEMMA IterateSeen ==
  ASSUME TableInv, LoopInv, handle_iteration
  PROVE  LoopStep
<1>1. /\ pc = "iterate" /\ call = NoCall /\ mutex # "main"
      /\ UNCHANGED <<head, next, jfd, mutex, cursor, used, interest>>
  BY DEF handle_iteration, listVars, tableVars, LoopInv
<1>2. Counts' = Counts
  <2>1. Presented' = Presented
    BY <1>1 DEF Presented
  <2> QED
    BY <1>1, <2>1, ListKept, CountsKept DEF Unpresented, Front
<1>3. CASE Ahead = {}
  BY <1>1, <1>2, <1>3, HiddenStep DEF handle_iteration
<1>4. CASE Ahead # {}
  <2>1. call' \in Ahead
    BY <1>4, FirstAhead DEF handle_iteration
  <2>2. PICK f \in Fd, op \in {"READ", "WRITE"} : call' = <<f, op>>
    BY <2>1, AheadAreParts
  <2>3. f \in used /\ op \in interest[f]
    BY <2>1, <2>2 DEF Ahead
  <2>4. Promise!Dispatch(f, op)
    BY <1>1, <1>2, <2>2, <2>3 DEF Counts, Promise!Dispatch
  <2> QED
    BY <2>4 DEF LoopStep, Promise!Next
<1> QED
  BY <1>3, <1>4

\* A handler returns, to the scan or to the list.
LEMMA ReturnSeen ==
  ASSUME ScanTypes, call # NoCall, call' = NoCall, UNCHANGED <<used, interest, Counts>>
  PROVE  LoopStep
<1>1. call[1] \in Fd
  BY DEF ScanTypes
<1>2. Promise!Return
  BY DEF Counts, Promise!Return
<1> QED
  BY <1>1, <1>2 DEF LoopStep, Promise!Next

\* From the scan's handler.
LEMMA HandlerReturnsSeen ==
  ASSUME ScanTypes, LoopInv, HandlerReturns
  PROVE  LoopStep
<1>1. /\ pc = "iterate" /\ call # NoCall /\ call' = NoCall /\ mutex # "main"
      /\ UNCHANGED <<head, next, jfd, mutex, cursor, used, interest>>
  BY DEF HandlerReturns, InHandler, listVars, tableVars, LoopInv
<1>2. Presented' = Presented
  BY <1>1 DEF Presented
<1>3. Counts' = Counts
  BY <1>1, <1>2, ListKept, CountsKept DEF Unpresented, Front
<1> QED
  BY <1>1, <1>3, ReturnSeen

\* The job whose handler returns is off the list, and was no longer counted.
LEMMA BlockReturnsSeen ==
  ASSUME ScanTypes, JobInv, LoopInv, BlockReturns
  PROVE  LoopStep
<1>1. /\ mutex = "main" /\ cursor # NULL /\ call # NoCall /\ call' = NoCall
      /\ NextJob /\ UNCHANGED <<head, mutex, used, interest>>
  BY DEF BlockReturns, InHandler, LoopInv, tableVars
<1>2. Waiting' = Waiting \ {cursor} /\ cursor \in Waiting
  BY <1>1, ListPopped
<1>3. Presented = {cursor} /\ Presented' = {}
  BY <1>1 DEF Presented
<1>4. \A j \in Unpresented : jfd'[j] = jfd[j]
  <2>1. jfd' = [jfd EXCEPT ![cursor] = 0] /\ jfd \in [Job -> Fd \cup {0}]
    BY <1>1 DEF NextJob, FreeJob, JobInv, JobTypes
  <2> QED
    BY <1>3, <2>1, ListShape DEF Unpresented
<1>5. Counts' = Counts
  BY <1>2, <1>3, <1>4, CountsKept DEF Unpresented
<1> QED
  BY <1>1, <1>5, ReturnSeen

\* The job at the cursor is presented to its descriptor, or to nobody when that is no
\* longer registered.
LEMMA PresentSeen ==
  ASSUME JobInv, LoopInv, Addressed, PresentJob
  PROVE  LoopStep
<1>1. /\ mutex = "main" /\ cursor # NULL /\ call = NoCall
      /\ UNCHANGED <<head, mutex, used, interest>>
  BY DEF PresentJob, LoopInv, tableVars, listVars
<1>2. cursor \in heap /\ cursor \in Waiting /\ Presented = {}
  <2>1. cursor \in heap /\ Front = cursor
    BY <1>1 DEF JobInv, JobTypes, Front
  <2> QED
    BY <1>1, <2>1, ListShape DEF Presented
<1>3. PICK g \in Fd : g = jfd[cursor]
  BY <1>2 DEF Addressed
<1>4. CASE g \in used
  <2>1. call' = <<g, "BLOCK">> /\ UNCHANGED <<next, jfd, cursor>>
    BY <1>3, <1>4 DEF PresentJob, listVars
  <2>2. Waiting' = Waiting /\ Presented' = {cursor}
    <3>1. call' # NoCall
      BY <2>1, SelectorAssumption
    <3> QED
      BY <1>1, <2>1, <3>1, ListKept DEF Front, Presented
  <2>3. Unpresented' = Unpresented \ {cursor} /\ cursor \in Unpresented
    BY <1>2, <2>2 DEF Unpresented
  <2>4. Counts' = [Counts EXCEPT ![g] = @ - 1] /\ Counts[g] > 0
    BY <1>3, <2>1, <2>3, CountsDown
  <2>5. Promise!Present(g)
    BY <1>1, <1>4, <2>1, <2>4 DEF Counts, Promise!Present
  <2> QED
    BY <2>5 DEF LoopStep, Promise!Next
<1>5. CASE g \notin used
  <2>1. NextJob /\ call' = NoCall
    BY <1>1, <1>3, <1>5 DEF PresentJob
  <2>2. Waiting' = Waiting \ {cursor}
    BY <1>1, <2>1, ListPopped
  <2>3. Presented' = {}
    BY <2>1 DEF Presented
  <2>4. Unpresented' = Unpresented \ {cursor} /\ cursor \in Unpresented
    BY <1>2, <2>2, <2>3 DEF Unpresented
  <2>5. \A i \in Unpresented' : jfd'[i] = jfd[i]
    <3>1. jfd' = [jfd EXCEPT ![cursor] = 0] /\ jfd \in [Job -> Fd \cup {0}]
      BY <2>1 DEF NextJob, FreeJob, JobInv, JobTypes
    <3> QED
      BY <2>4, <3>1, ListShape DEF Unpresented
  <2>6. Counts' = [Counts EXCEPT ![g] = @ - 1] /\ Counts[g] > 0
    BY <1>3, <2>4, <2>5, CountsDown
  <2>7. Promise!Present(g)
    BY <1>1, <1>5, <2>1, <2>6 DEF Counts, Promise!Present
  <2> QED
    BY <2>7 DEF LoopStep, Promise!Next
<1> QED
  BY <1>4, <1>5

\* The mutex changes hands, and nothing is posted.
LEMMA MutexSeen ==
  ASSUME JobInv, LoopInv, LockJobs \/ UnlockJobs
  PROVE  LoopStep
<1>1. UNCHANGED <<next, jfd, used, interest, call>> /\ call = NoCall
  BY DEF LockJobs, UnlockJobs, LoopInv, tableVars, listVars
<1>2. Waiting' = Waiting
  BY <1>1, FrontKept, ListKept
<1>3. Presented = {} /\ Presented' = {}
  BY <1>1 DEF Presented
<1>4. Counts' = Counts
  BY <1>1, <1>2, <1>3, CountsKept DEF Unpresented
<1> QED
  BY <1>1, <1>4, HiddenStep

\* A thread's job counts from when it is pushed.
LEMMA AllocateSeen ==
  ASSUME JobInv, NEW t \in Thread, AllocateJob(t)
  PROVE  LoopStep
<1>1. UNCHANGED <<head, next, mutex, cursor, call, used, interest>>
  BY DEF AllocateJob, listVars, tableVars
<1>2. Unpresented' = Unpresented
  BY <1>1, ListKept DEF Front, Presented, Unpresented
<1>3. \A j \in heap : jfd'[j] = jfd[j]
  BY DEF AllocateJob, listVars, JobInv, JobTypes
<1>4. Counts' = Counts
  BY <1>2, <1>3, ListShape, CountsKept DEF Unpresented
<1> QED
  BY <1>1, <1>4, HiddenStep

\* It does not when it is linked ...
LEMMA LinkSeen ==
  ASSUME JobInv, NEW t \in Thread, LinkJob(t)
  PROVE  LoopStep
<1>1. /\ mutex = NULL /\ mutex' = t
      /\ UNCHANGED <<jfd, call, used, interest>>
  BY DEF LinkJob, tableVars
<1>2. Presented = {} /\ Presented' = {}
  BY <1>1, SelectorAssumption DEF Presented
<1>3. Counts' = Counts
  BY <1>1, <1>2, ListLinked, CountsKept DEF Unpresented
<1> QED
  BY <1>1, <1>3, HiddenStep

\* ... and does when it is pushed.
LEMMA PushSeen ==
  ASSUME JobInv, Addressed, NEW t \in Thread, PushJob(t)
  PROVE  LoopStep
<1>1. /\ tpc[t] = "push" /\ mutex' = NULL
      /\ UNCHANGED <<jfd, call, used, interest>>
  BY DEF PushJob, tableVars
<1>2. mutex = t
  BY <1>1 DEF JobInv, LockInv
<1>3. Presented = {} /\ Presented' = {}
  BY <1>1, <1>2, SelectorAssumption DEF Presented
<1>4. /\ Waiting' = Waiting \cup {tjob[t]} /\ tjob[t] \in heap
      /\ tjob[t] \notin Waiting
  BY ListPushed, ListShape
<1>5. PICK g \in Fd : g = jfd[tjob[t]]
  BY <1>4 DEF Addressed
<1>6. Counts' = [Counts EXCEPT ![g] = @ + 1]
  BY <1>1, <1>3, <1>4, <1>5, CountsUp DEF Unpresented
<1>7. Promise!Post(g)
  BY <1>1, <1>6 DEF Counts, Promise!Post
<1> QED
  BY <1>7 DEF LoopStep, Promise!Next

\* Every step of the selector and its threads is one of EventLoop's, or none.
LEMMA StepImplements ==
  ASSUME IInv, Addressed, [Next]_vars
  PROVE  LoopStep
<1>0. TableInv /\ ScanTypes /\ JobInv /\ LoopInv
  BY DEF IInv, TypeOK, TableInv, JobInv
<1>1. CASE UsesTable
  <2>1. ASSUME NEW f \in Fd, selector_unregister_fd(f)
        PROVE  LoopStep
    BY <2>1, UnregisterSeen DEF selector_unregister_fd, Untouched, listVars
  <2> QED
    BY <1>1, <2>1, RegisterSeen, SetInterestSeen DEF UsesTable
<1>2. CASE DestroyItem
  <2>1. PICK f \in used : Unregister(f)
    BY <1>2 DEF DestroyItem, Left
  <2>2. f \in Fd
    BY <1>0 DEF TableInv, TableTypes
  <2> QED
    BY <1>2, <2>1, <2>2, UnregisterSeen DEF DestroyItem, listVars
<1>3. CASE handle_iteration \/ HandlerReturns \/ BlockReturns \/ PresentJob
  BY <1>0, <1>3, IterateSeen, HandlerReturnsSeen, BlockReturnsSeen, PresentSeen
<1>4. CASE LockJobs \/ UnlockJobs
  BY <1>0, <1>4, MutexSeen
<1>5. ASSUME NEW t \in Thread, AllocateJob(t) \/ LinkJob(t) \/ PushJob(t)
      PROVE  LoopStep
  BY <1>0, <1>5, AllocateSeen, LinkSeen, PushSeen
<1>6. CASE UNCHANGED <<tableVars, listVars, mutex, cursor, call>>
  <2>1. Counts' = Counts
    BY <1>6, CountsIdle DEF listVars
  <2> QED
    BY <1>6, <2>1, HiddenStep DEF tableVars
<1>7. CASE \/ Enter \/ DestroyJobs \/ Stop \/ PselectInterrupted
           \/ (\E t \in Thread : Spawn(t) \/ RaiseAlarm(t)) \/ UNCHANGED vars
  BY <1>6, <1>7 DEF Enter, DestroyJobs, Stop, PselectInterrupted, Spawn, RaiseAlarm, vars
<1>8. CASE PselectReady \/ PselectTimeout
  BY <1>6, <1>8 DEF PselectReady, PselectTimeout, Reports
<1> QED
  BY <1>1, <1>2, <1>3, <1>4, <1>5, <1>7, <1>8 DEF Next, Proceeds, NotifyBlock, Ended

\* The selector keeps what selector.h promises: one handler at a time, a read or a
\* write handler only for a descriptor that is registered with that interest at that
\* moment, and each notification presented exactly once.
THEOREM ImplementsEventLoop == Spec => LoopSpec
<1>1. Init => Promise!Init
  <2> SUFFICES ASSUME Init
               PROVE  Promise!Init
    OBVIOUS
  <2>1. JobInv
    BY InitEstablishes DEF IInv, TypeOK, JobInv
  <2>2. Waiting = {}
    BY <2>1, ListShape DEF Init
  <2>3. ASSUME NEW f \in Fd
        PROVE  Posted(f) = 0
    <3>1. {j \in Unpresented : jfd[j] = f} = {}
      BY <2>2 DEF Unpresented
    <3> QED
      BY <2>1, <3>1, PostedIsCount, FS_EmptySet
  <2> QED
    BY <2>3 DEF Init, Promise!Init
<1>2. PromiseInv /\ [Next]_vars => [Promise!Next]_(Promise!vars)
  BY StepImplements DEF PromiseInv, LoopStep
<1> QED
  BY <1>1, <1>2, PromiseInvariant, PTL DEF Spec, LoopSpec, Promise!Spec
=============================================================================
