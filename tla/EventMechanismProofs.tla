------------------------ MODULE EventMechanismProofs ------------------------
(***************************************************************************)
(* Proofs about EventMechanism, for every size of the table, every script  *)
(* and any number of triggers and restarts: each lock is one token, the    *)
(* main loop dies only of a callback that raised, and a trigger begins its *)
(* callback at most twice.                                                 *)
(***************************************************************************)
EXTENDS EventMechanism, TLAPS

-----------------------------------------------------------------------------
(***************************************************************************)
(* The strengthening.  Looking(i): the main loop has read i's flag as set  *)
(* and is on its way to a release.                                         *)
(***************************************************************************)
Looking(i) == main \in {"exists", "locked", "release", "unlock"} /\ idx = i

LoopIndex == main \notin {"register", "launch", "round", "dead"}
               => idx \in 1..Number

LoopHoldsLocked == /\ main = "release" => sema[idx] = "none" \/ locked[idx]
                   /\ main = "dead" => idx \in 1..Number /\ sema[idx] = "none"

NoThreadYet == \A i \in Ids : i > Number => cb[i] = "none" /\ starts[i] = 0

(***************************************************************************)
(* Once the callback began and the flag was cleared, only a release that   *)
(* the main loop has under way can begin it again, and that one is the     *)
(* last.                                                                   *)
(***************************************************************************)
Repeat(i) ==
  /\ starts[i] <= 2
  /\ starts[i] > 0 /\ cb[i] \in {"try", "got", "wait", "taken"} => ~ occured[i]
  /\ starts[i] > 0 /\ cb[i] = "wait" /\ avail[i] => ~ Looking(i)
  /\ starts[i] > 0 /\ cb[i] = "taken" => ~ Looking(i)
  /\ starts[i] = 2 => /\ ~ occured[i] /\ ~ Looking(i) /\ ~ avail[i]
                      /\ cb[i] # "taken"

Repeats == \A i \in Ids : Repeat(i)

EventInv == /\ EventTypeOK /\ LoopIndex /\ LoopHoldsLocked /\ NoThreadYet
            /\ OneToken /\ Repeats
-----------------------------------------------------------------------------
(***************************************************************************)
(* Lemmas about the functions of the state: a constant function and an     *)
(* update have the type of their values.                                   *)
(***************************************************************************)
LEMMA ConstType == ASSUME NEW S, NEW x \in S PROVE AtFirst(x) \in [Ids -> S]
  BY Zenon DEF AtFirst

LEMMA ConstValue == ASSUME NEW x, NEW i \in Ids PROVE AtFirst(x)[i] = x
  BY Zenon DEF AtFirst

LEMMA ExceptType ==
  ASSUME NEW S, NEW f \in [Ids -> S], NEW j \in Ids, NEW x \in S
  PROVE  [f EXCEPT ![j] = x] \in [Ids -> S]
  BY Zenon

LEMMA ExceptValue ==
  ASSUME NEW S, NEW f \in [Ids -> S], NEW j \in Ids, NEW x, NEW i \in Ids
  PROVE  [f EXCEPT ![j] = x][i] = IF i = j THEN x ELSE f[i]
  BY Zenon

(***************************************************************************)
(* Lemma: the initial states satisfy the inductive invariant.              *)
(***************************************************************************)
LEMMA EventInvInit == Init => EventInv
  <1> SUFFICES ASSUME Init PROVE EventInv
    OBVIOUS
  <1>1. EventTypeOK
    <2>1. /\ occured \in [Ids -> BOOLEAN] /\ avail \in [Ids -> BOOLEAN]
          /\ locked \in [Ids -> BOOLEAN]
      BY ConstType, Zenon DEF Init
    <2>2. sema \in [Ids -> {"unset", "lock", "none"}] /\ starts \in [Ids -> Nat]
      BY DEF Init, AtFirst
    <2>3. cb \in [Ids -> {"none", "wait", "taken", "runs", "clear", "try", "got"}]
      BY DEF Init, AtFirst
    <2>4. /\ script \in Scripts /\ registered \in Seq(Topics) /\ Len(registered) = 0
          /\ started \in BOOLEAN /\ main = "register" /\ idx = 1
          /\ triggers = 0 /\ restarts = 0
      <3>1. /\ script \in Scripts /\ registered = <<>>
            /\ started \in BOOLEAN
            /\ main = "register" /\ idx = 1 /\ triggers = 0 /\ restarts = 0
        BY Zenon DEF Init
      <3>2. registered \in Seq(Topics) /\ Len(registered) = 0
        BY <3>1
      <3> QED BY <3>1, <3>2, Zenon
    <2> QED BY EventAssumption, <2>1, <2>2, <2>3, <2>4 DEF EventTypeOK, Number
  <1>2. Number = 0
    BY DEF Init, Number
  <1>3. LoopIndex /\ LoopHoldsLocked
    BY DEF Init, LoopIndex, LoopHoldsLocked
  <1>4. NoThreadYet /\ Repeats
    BY DEF Init, NoThreadYet, Repeats, Repeat, AtFirst, Ids, Looking
  <1>5. OneToken
    BY <1>2 DEF OneToken
  <1> QED
    BY <1>1, <1>3, <1>4, <1>5 DEF EventInv

(***************************************************************************)
(* Lemma: a trigger keeps the types of the flags and of the history, and   *)
(* touches no event that it does not reach.                                *)
(***************************************************************************)
LEMMA OccursTypes ==
  ASSUME EventTypeOK, NEW t \in Topics, Occurs(t)
  PROVE  /\ occured' \in [Ids -> BOOLEAN] /\ starts' \in [Ids -> Nat]
         /\ \A i \in Ids :
              \/ starts'[i] = 0
              \/ starts'[i] = starts[i] /\ (occured'[i] <=> occured[i])
         /\ \A i \in Ids : i > Number => starts'[i] = starts[i] \/ starts'[i] = 0
  <1>1. occured' = [i \in Ids |-> occured[i] \/ i \in Reached(t)]
    BY Zenon DEF Occurs
  <1>2. starts' = [i \in Ids |-> IF i \in Reached(t) THEN 0 ELSE starts[i]]
    BY DEF Occurs
  <1>3. occured' \in [Ids -> BOOLEAN]
    BY <1>1, Zenon
  <1>4. starts' \in [Ids -> Nat]
    BY <1>2 DEF EventTypeOK
  <1>5. ASSUME NEW i \in Ids
        PROVE \/ starts'[i] = 0
              \/ starts'[i] = starts[i] /\ (occured'[i] <=> occured[i])
    <2>1. CASE i \in Reached(t)
      BY <1>2, <2>1
    <2>2. CASE i \notin Reached(t)
      <3>1. starts'[i] = starts[i]
        BY <1>2, <2>2
      <3>2. occured'[i] <=> occured[i]
        BY <1>1, <2>2, Zenon
      <3> QED BY <3>1, <3>2
    <2> QED BY <2>1, <2>2
  <1> QED
    BY <1>3, <1>4, <1>5

(***************************************************************************)
(* Lemma: each step keeps the types.                                       *)
(***************************************************************************)
LEMMA EventTypeStep == EventTypeOK /\ LoopIndex /\ [Next]_vars => EventTypeOK'
  <1> SUFFICES ASSUME EventTypeOK, LoopIndex, [Next]_vars PROVE EventTypeOK'
    OBVIOUS
  <1> USE EventAssumption
  <1>1. ASSUME NEW t \in Topics, Trigger(t) PROVE EventTypeOK'
    <2>1. occured' \in [Ids -> BOOLEAN] /\ starts' \in [Ids -> Nat]
      BY <1>1, OccursTypes DEF Trigger
    <2> QED BY <1>1, <2>1 DEF EventTypeOK, Trigger, tableVars, lockVars, Number
  <1>2. CASE Register
    <2>1. CASE Number < MaxNum /\ idx <= Len(script)
      <3>0. /\ Number + 1 \in Ids /\ Number \in Nat /\ ~ Number >= MaxNum
            /\ script \in Seq(Topics)
        BY <2>1 DEF EventTypeOK, Number, Ids
      <3>1. script[idx] \in Topics
        BY <2>1, <3>0 DEF EventTypeOK
      <3>2. registered' = Append(registered, script[idx])
        BY <1>2, <2>1, <3>0 DEF Register
      <3>3. registered' \in Seq(Topics) /\ Len(registered') = Number + 1
        BY <3>1, <3>2 DEF EventTypeOK, Number
      <3>4. /\ occured' = [occured EXCEPT ![Number + 1] = FALSE]
            /\ sema' = [sema EXCEPT ![Number + 1] = "lock"]
            /\ avail' = [avail EXCEPT ![Number + 1] = FALSE]
            /\ locked' = [locked EXCEPT ![Number + 1] = TRUE]
            /\ cb' = [cb EXCEPT ![Number + 1] = "wait"]
            /\ starts' = [starts EXCEPT ![Number + 1] = 0]
        BY <1>2, <2>1, <3>0 DEF Register
      <3>5. /\ occured' \in [Ids -> BOOLEAN] /\ avail' \in [Ids -> BOOLEAN]
            /\ locked' \in [Ids -> BOOLEAN]
        BY <3>0, <3>4, ExceptType, Zenon DEF EventTypeOK
      <3>6. /\ sema' \in [Ids -> {"unset", "lock", "none"}]
            /\ cb' \in [Ids -> {"none", "wait", "taken", "runs", "clear", "try",
                                "got"}]
            /\ starts' \in [Ids -> Nat]
        BY <3>0, <3>4 DEF EventTypeOK
      <3> QED
        BY <1>2, <2>1, <3>0, <3>3, <3>5, <3>6 DEF Register, EventTypeOK, Number
    <2>2. CASE Number >= MaxNum
      BY <1>2, <2>2 DEF Register, EventTypeOK, lockVars, Number
    <2> QED BY <1>2, <2>1, <2>2 DEF Register
  <1>3. CASE StartTrigger
    BY <1>3 DEF StartTrigger, EventTypeOK, lockVars, Number
  <1>4. CASE TriggerLaunch
    <2>1. occured' \in [Ids -> BOOLEAN] /\ starts' \in [Ids -> Nat]
      BY <1>4, OccursTypes DEF TriggerLaunch
    <2> QED
      BY <1>4, <2>1 DEF EventTypeOK, TriggerLaunch, tableVars, lockVars, Number
  <1>5. CASE Round \/ GetOccuredFlag \/ SemaExists \/ SemaLocked
    BY <1>5 DEF Round, GetOccuredFlag, SemaExists, SemaLocked, NextEvent,
                LoopFrame, EventTypeOK, tableVars, lockVars, Number
  <1>6. CASE Release \/ Unlock
    <2>0. idx \in Ids
      BY <1>6 DEF Release, Unlock, LoopIndex, EventTypeOK, Ids, Number
    <2>1. avail' \in [Ids -> BOOLEAN]
      BY <1>6, <2>0, ExceptType, Zenon DEF Release, Unlock, EventTypeOK
    <2>2. locked' \in [Ids -> BOOLEAN]
      BY <1>6, <2>0, ExceptType, Zenon DEF Release, Unlock, EventTypeOK
    <2> QED BY <1>6, <2>1, <2>2 DEF Release, Unlock, NextEvent, LoopFrame,
                EventTypeOK, tableVars, Number
  <1>7. ASSUME NEW i \in Ids, ThreadStep(i) \/ CallbackReturns(i)
        PROVE EventTypeOK'
    <2>1. avail' \in [Ids -> BOOLEAN]
      BY <1>7, ExceptType, Zenon DEF ThreadStep, Acquire, CallbackBegins,
         CallbackReturns, ClearFlag, TryAcquire, TryAcquired, lockVars,
         EventTypeOK
    <2>2. locked' \in [Ids -> BOOLEAN]
      BY <1>7, ExceptType, Zenon DEF ThreadStep, Acquire, CallbackBegins,
         CallbackReturns, ClearFlag, TryAcquire, TryAcquired, lockVars,
         EventTypeOK
    <2>3. occured' \in [Ids -> BOOLEAN]
      BY <1>7, ExceptType, Zenon DEF ThreadStep, Acquire, CallbackBegins,
         CallbackReturns, ClearFlag, TryAcquire, TryAcquired, EventTypeOK
    <2>4. /\ cb' \in [Ids -> {"none", "wait", "taken", "runs", "clear", "try",
                              "got"}]
          /\ starts' \in [Ids -> Nat] /\ UNCHANGED sema
      <3>1. \E c \in {"taken", "runs", "clear", "try", "got", "wait"} :
              cb' = [cb EXCEPT ![i] = c]
        BY <1>7 DEF ThreadStep, Acquire, CallbackBegins, CallbackReturns,
           ClearFlag, TryAcquire, TryAcquired
      <3>2. UNCHANGED starts \/ starts' = [starts EXCEPT ![i] = @ + 1]
        BY <1>7 DEF ThreadStep, Acquire, CallbackBegins, CallbackReturns,
           ClearFlag, TryAcquire, TryAcquired
      <3>3. UNCHANGED sema
        BY <1>7 DEF ThreadStep, Acquire, CallbackBegins, CallbackReturns,
           ClearFlag, TryAcquire, TryAcquired
      <3> QED BY <3>1, <3>2, <3>3 DEF EventTypeOK
    <2>5. ThreadFrame
      BY <1>7 DEF ThreadStep, Acquire, CallbackBegins, CallbackReturns,
         ClearFlag, TryAcquire, TryAcquired
    <2> QED BY <2>1, <2>2, <2>3, <2>4, <2>5 DEF ThreadFrame, EventTypeOK,
               tableVars, Number
  <1>8. ASSUME NEW i \in Ids, CallbackRaises(i) PROVE EventTypeOK'
    BY <1>8 DEF CallbackRaises, ThreadFrame, EventTypeOK, tableVars, lockVars,
                Number
  <1>9. CASE Restart
    <2>1. Len(registered') = 0 /\ registered' \in Seq(Topics)
      BY <1>9 DEF Restart
    <2>2. /\ occured' \in [Ids -> BOOLEAN] /\ avail' \in [Ids -> BOOLEAN]
          /\ locked' \in [Ids -> BOOLEAN]
      BY <1>9, ConstType, Zenon DEF Restart
    <2>3. /\ sema' \in [Ids -> {"unset", "lock", "none"}]
          /\ starts' \in [Ids -> Nat]
          /\ cb' \in [Ids -> {"none", "wait", "taken", "runs", "clear", "try",
                              "got"}]
      BY <1>9 DEF Restart, AtFirst
    <2>4. /\ script' \in Scripts /\ started' \in BOOLEAN /\ main' = "register"
          /\ idx' = 1 /\ triggers' = triggers /\ restarts < MaxRestarts
          /\ restarts' = restarts + 1
      BY <1>9 DEF Restart
    <2> QED BY <2>1, <2>2, <2>3, <2>4 DEF EventTypeOK, Number
  <1>10. CASE UNCHANGED vars
    BY <1>10 DEF vars, EventTypeOK, tableVars, lockVars, Number
  <1> QED
    BY <1>1, <1>2, <1>3, <1>4, <1>5, <1>6, <1>7, <1>8, <1>9, <1>10
       DEF Next, MainStep

(***************************************************************************)
(* The parts of the invariant that are not types, and what a step may      *)
(* assume.                                                                 *)
(***************************************************************************)
Control == LoopIndex /\ LoopHoldsLocked /\ NoThreadYet /\ OneToken /\ Repeats

(***************************************************************************)
(* Lemma: a trigger only sets flags and forgets how often the callbacks    *)
(* began.                                                                  *)
(***************************************************************************)
LEMMA OccursControl ==
  ASSUME EventInv, NEW t \in Topics, Occurs(t),
         UNCHANGED <<registered, sema, avail, locked, idx, cb>>,
         \/ UNCHANGED main
         \/ main = "launch" /\ main' = "round"
  PROVE  Control'
  <1>1. LoopIndex' /\ LoopHoldsLocked'
    BY DEF EventInv, LoopIndex, LoopHoldsLocked, Number
  <1>2. NoThreadYet'
    BY OccursTypes DEF EventInv, NoThreadYet, Number
  <1>3. OneToken'
    BY DEF EventInv, OneToken, Token, Releasing, Acquiring, Number
  <1>4. Repeats'
    <2> SUFFICES ASSUME NEW j \in Ids PROVE Repeat(j)'
      BY DEF Repeats
    <2>1. Repeat(j)
      BY DEF EventInv, Repeats
    <2>2. \/ starts'[j] = 0
          \/ starts'[j] = starts[j] /\ (occured'[j] <=> occured[j])
      BY OccursTypes DEF EventInv
    <2>3. Looking(j)' => Looking(j)
      BY DEF Looking
    <2> QED BY <2>1, <2>2, <2>3 DEF Repeat
  <1> QED BY <1>1, <1>2, <1>3, <1>4 DEF Control

(***************************************************************************)
(* Lemma: a new event starts with its token in the flag of its lock.       *)
(***************************************************************************)
LEMMA RegisterControl == EventInv /\ Register => Control'
  <1> SUFFICES ASSUME EventInv, Register PROVE Control'
    OBVIOUS
  <1> USE EventAssumption
  <1>0. /\ Number \in Nat /\ MaxNum \in Nat /\ EventTypeOK
        /\ main = "register" /\ main' = "register"
    BY DEF Register, EventInv, EventTypeOK, Number
  <1>1. CASE Number < MaxNum
    <2>0. ~ Number >= MaxNum /\ Number + 1 \in Ids
      BY <1>0, <1>1 DEF Ids
    <2>1. Number' = Number + 1
      BY <1>0, <1>1, <2>0 DEF Register, Number, EventTypeOK
    <2> DEFINE n == Number + 1
    <2>2. \A j \in Ids : /\ occured'[j] <=> (j # n /\ occured[j])
                         /\ avail'[j] <=> (j # n /\ avail[j])
                         /\ locked'[j] <=> (j = n \/ locked[j])
                         /\ cb'[j] = IF j = n THEN "wait" ELSE cb[j]
                         /\ starts'[j] = IF j = n THEN 0 ELSE starts[j]
      <3>1. /\ occured' = [occured EXCEPT ![n] = FALSE]
            /\ avail' = [avail EXCEPT ![n] = FALSE]
            /\ locked' = [locked EXCEPT ![n] = TRUE]
            /\ cb' = [cb EXCEPT ![n] = "wait"]
            /\ starts' = [starts EXCEPT ![n] = 0]
        BY <2>0 DEF Register
      <3> HIDE DEF n
      <3> QED BY <1>0, <3>1 DEF EventTypeOK
    <2> HIDE DEF n
    <2>3. LoopIndex' /\ LoopHoldsLocked'
      BY <1>0 DEF LoopIndex, LoopHoldsLocked
    <2>4. NoThreadYet'
      BY <1>0, <2>1, <2>2 DEF n, EventInv, NoThreadYet, Ids
    <2>5. OneToken'
      <3> SUFFICES ASSUME NEW j \in 1..(Number + 1) PROVE Token(j)'
        BY <2>1 DEF OneToken
      <3>1. j \in Ids
        BY <2>0, <1>0 DEF Ids
      <3>2. CASE j = n
        BY <1>0, <2>2, <3>1, <3>2 DEF Token, Releasing, Acquiring
      <3>3. CASE j # n
        <4>1. Token(j)
          BY <1>0, <3>3 DEF n, EventInv, OneToken
        <4> QED BY <1>0, <2>2, <3>1, <3>3, <4>1 DEF Token, Releasing, Acquiring
      <3> QED BY <3>2, <3>3
    <2>6. Repeats'
      <3> SUFFICES ASSUME NEW j \in Ids PROVE Repeat(j)'
        BY DEF Repeats
      <3>1. Repeat(j) /\ starts[j] \in Nat
        BY <1>0 DEF EventInv, Repeats, EventTypeOK
      <3> QED BY <1>0, <2>2, <3>1 DEF Repeat, Looking
    <2> QED BY <2>3, <2>4, <2>5, <2>6 DEF Control
  <1>2. CASE Number >= MaxNum
    <2>1. UNCHANGED <<registered, occured, sema, avail, locked, cb, starts>>
      BY <1>0, <1>2 DEF Register, lockVars
    <2>2. LoopIndex' /\ LoopHoldsLocked'
      BY <1>0 DEF LoopIndex, LoopHoldsLocked
    <2>3. NoThreadYet' /\ OneToken'
      BY <1>0, <2>1 DEF EventInv, NoThreadYet, OneToken, Token, Releasing,
                        Acquiring, Number
    <2>4. Repeats'
      BY <1>0, <2>1 DEF EventInv, Repeats, Repeat, Looking
    <2> QED BY <2>2, <2>3, <2>4 DEF Control
  <1> QED BY <1>0, <1>1, <1>2

(***************************************************************************)
(* Lemma: the tests of a round move no token; an event is looked at only   *)
(* when its flag is set.                                                   *)
(***************************************************************************)
LEMMA LoopControl ==
  EventInv /\ (Round \/ GetOccuredFlag \/ SemaExists \/ SemaLocked) => Control'
  <1> SUFFICES ASSUME EventInv, Round \/ GetOccuredFlag \/ SemaExists \/ SemaLocked
               PROVE Control'
    OBVIOUS
  <1>0. /\ EventTypeOK /\ Number \in Nat
        /\ UNCHANGED <<registered, occured, sema, avail, locked, cb, starts>>
    BY DEF EventInv, EventTypeOK, Round, GetOccuredFlag, SemaExists, SemaLocked,
           LoopFrame, tableVars, lockVars, Number
  <1>1. LoopIndex'
    BY <1>0 DEF EventInv, LoopIndex, Round, GetOccuredFlag, SemaExists,
                SemaLocked, NextEvent, Number
  <1>2. LoopHoldsLocked'
    BY <1>0, <1>1 DEF EventInv, LoopIndex, LoopHoldsLocked, Round, GetOccuredFlag,
                SemaExists, SemaLocked, NextEvent, Number
  <1>3. NoThreadYet'
    BY <1>0 DEF EventInv, NoThreadYet, Number
  <1>4. main # "unlock" /\ main' # "unlock"
    BY DEF Round, GetOccuredFlag, SemaExists, SemaLocked, NextEvent
  <1>5. OneToken'
    BY <1>0, <1>4 DEF EventInv, OneToken, Token, Releasing, Acquiring, Number
  <1>6. Repeats'
    <2> SUFFICES ASSUME NEW j \in Ids PROVE Repeat(j)'
      BY DEF Repeats
    <2>1. Looking(j)' => Looking(j) \/ occured[j]
      BY DEF Looking, Round, GetOccuredFlag, SemaExists, SemaLocked, NextEvent
    <2>2. Repeat(j)
      BY DEF EventInv, Repeats
    <2> QED BY <1>0, <2>1, <2>2 DEF Repeat
  <1> QED BY <1>1, <1>2, <1>3, <1>5, <1>6 DEF Control

(***************************************************************************)
(* Lemma: release carries the token from the lock's flag to its mutex.     *)
(***************************************************************************)
LEMMA ReleaseControl == EventInv /\ (Release \/ Unlock) => Control'
  <1> SUFFICES ASSUME EventInv, Release \/ Unlock PROVE Control'
    OBVIOUS
  <1>0. /\ EventTypeOK /\ Number \in Nat /\ idx \in 1..Number /\ idx \in Ids
        /\ UNCHANGED <<registered, occured, sema, cb, starts>>
        /\ 1..Number \subseteq Ids
    <2>1. EventTypeOK /\ Number \in Nat /\ Number <= MaxNum
      BY DEF EventInv, EventTypeOK, Number
    <2>2. idx \in 1..Number /\ UNCHANGED <<registered, occured, sema, cb, starts>>
      BY DEF EventInv, LoopIndex, Release, Unlock, LoopFrame, tableVars
    <2> QED BY <2>1, <2>2, EventAssumption DEF Ids
  <1>1. CASE Release
    <2>1. /\ main = "release" /\ UNCHANGED <<idx, avail>>
          /\ \/ sema[idx] = "none" /\ main' = "dead" /\ UNCHANGED locked
             \/ /\ locked[idx] /\ main' = "unlock"
                /\ locked' = [locked EXCEPT ![idx] = FALSE]
      BY <1>1 DEF Release, EventInv, LoopHoldsLocked
    <2>2. \A j \in Ids : locked'[j] <=> (locked[j] /\ (main' = "dead" \/ j # idx))
      BY <2>1, <1>0 DEF EventTypeOK
    <2>3. LoopIndex' /\ LoopHoldsLocked' /\ NoThreadYet'
      BY <1>0, <2>1 DEF EventInv, LoopIndex, LoopHoldsLocked, NoThreadYet, Number
    <2>4. OneToken'
      <3> SUFFICES ASSUME NEW j \in 1..Number PROVE Token(j)'
        BY <1>0 DEF OneToken, Number
      <3>1. j \in Ids /\ Token(j)
        BY <1>0 DEF EventInv, OneToken
      <3> QED BY <1>0, <2>1, <2>2, <3>1 DEF Token, Releasing, Acquiring
    <2>5. Repeats'
      BY <1>0, <2>1 DEF EventInv, Repeats, Repeat, Looking
    <2> QED BY <2>3, <2>4, <2>5 DEF Control
  <1>2. CASE Unlock
    <2>1. main = "unlock" /\ UNCHANGED locked
      BY <1>2 DEF Unlock
    <2>2. \A j \in Ids : avail'[j] <=> (avail[j] \/ j = idx)
      BY <1>2, <1>0 DEF EventTypeOK, Unlock
    <2>3. \/ main' = "occured" /\ idx' = idx + 1 /\ idx < Number
          \/ main' = "round"
      BY <1>2 DEF Unlock, NextEvent
    <2>4. LoopIndex' /\ LoopHoldsLocked' /\ NoThreadYet'
      BY <1>0, <2>3 DEF EventInv, LoopIndex, LoopHoldsLocked, NoThreadYet, Number
    <2>5. OneToken'
      <3> SUFFICES ASSUME NEW j \in 1..Number PROVE Token(j)'
        BY <1>0 DEF OneToken, Number
      <3>1. j \in Ids /\ Token(j)
        BY <1>0 DEF EventInv, OneToken
      <3> QED BY <1>0, <2>1, <2>2, <2>3, <3>1 DEF Token, Releasing, Acquiring
    <2>6. Repeats'
      <3> SUFFICES ASSUME NEW j \in Ids PROVE Repeat(j)'
        BY DEF Repeats
      <3>1. Repeat(j) /\ ~ Looking(j)'
        BY <2>3 DEF EventInv, Repeats, Looking
      <3>2. j = idx => Looking(j)
        BY <2>1 DEF Looking
      <3> QED BY <1>0, <2>2, <3>1, <3>2 DEF Repeat
    <2> QED BY <2>4, <2>5, <2>6 DEF Control
  <1> QED BY <1>1, <1>2

(***************************************************************************)
(* Lemma: what a step of i's thread leaves alone, for itself and for the   *)
(* other events.  Each action is then one case of its new values at i.     *)
(***************************************************************************)
LEMMA ThreadControl ==
  ASSUME EventInv, NEW i \in Ids, ThreadFrame,
         UNCHANGED sema \/ sema' = [sema EXCEPT ![i] = "none"],
         cb[i] # "none",
         \A j \in Ids : j # i => /\ occured'[j] <=> occured[j]
                                 /\ avail'[j] <=> avail[j]
                                 /\ locked'[j] <=> locked[j]
                                 /\ cb'[j] = cb[j] /\ starts'[j] = starts[j],
         locked[i] => locked'[i],
         Token(i) => Token(i)', Token(i) /\ Repeat(i) => Repeat(i)'
  PROVE  Control'
  <1>0. /\ EventTypeOK /\ Number \in Nat /\ 1..Number \subseteq Ids
        /\ UNCHANGED <<registered, main, idx>> /\ i <= Number
    <2>1. EventTypeOK /\ Number \in Nat /\ Number <= MaxNum
      BY DEF EventInv, EventTypeOK, Number
    <2>2. UNCHANGED <<registered, main, idx>>
      BY DEF ThreadFrame, tableVars
    <2>3. ~ i > Number
      BY DEF EventInv, NoThreadYet
    <2> QED BY <2>1, <2>2, <2>3, EventAssumption DEF Ids
  <1>1. Number' = Number
    BY <1>0 DEF Number
  <1>2. LoopIndex'
    BY <1>0, <1>1 DEF EventInv, LoopIndex
  <1>3. LoopHoldsLocked'
    <2>1. CASE main = "release"
      <3>1. idx \in Ids
        BY <1>0, <2>1 DEF EventInv, LoopIndex
      <3>2. sema[idx] = "none" => sema'[idx] = "none"
        BY <3>1, <1>0 DEF EventTypeOK
      <3>3. locked[idx] => locked'[idx]
        BY <3>1
      <3> QED BY <1>0, <2>1, <3>2, <3>3 DEF EventInv, LoopHoldsLocked
    <2>2. CASE main = "dead"
      <3>1. idx \in 1..Number /\ idx \in Ids /\ sema[idx] = "none"
        BY <1>0, <2>2 DEF EventInv, LoopHoldsLocked
      <3>2. sema'[idx] = "none"
        BY <3>1, <1>0 DEF EventTypeOK
      <3> QED BY <1>0, <1>1, <2>2, <3>1, <3>2 DEF LoopHoldsLocked
    <2> QED BY <1>0, <2>1, <2>2 DEF LoopHoldsLocked
  <1>4. NoThreadYet'
    BY <1>0, <1>1 DEF EventInv, NoThreadYet, Ids
  <1>5. OneToken'
    <2> SUFFICES ASSUME NEW j \in 1..Number PROVE Token(j)'
      BY <1>1 DEF OneToken
    <2>1. j \in Ids /\ Token(j)
      BY <1>0 DEF EventInv, OneToken
    <2>2. CASE j # i
      BY <1>0, <2>1, <2>2 DEF Token, Releasing, Acquiring
    <2> QED BY <2>1, <2>2
  <1>6. Repeats'
    <2> SUFFICES ASSUME NEW j \in Ids PROVE Repeat(j)'
      BY DEF Repeats
    <2>1. Repeat(j) /\ Token(i)
      BY <1>0 DEF EventInv, Repeats, OneToken, Ids
    <2>2. CASE j # i
      BY <1>0, <2>1, <2>2 DEF Repeat, Looking
    <2> QED BY <2>1, <2>2
  <1> QED BY <1>2, <1>3, <1>4, <1>5, <1>6 DEF Control

(***************************************************************************)
(* Lemma: every step of a thread keeps the invariant.  CallbackBegins is   *)
(* the one that counts: with a token in its hand a second time, the main   *)
(* loop is not on its way to release a third one.                          *)
(***************************************************************************)
LEMMA ThreadStepControl ==
  ASSUME EventInv, NEW i \in Ids,
         ThreadStep(i) \/ CallbackReturns(i) \/ CallbackRaises(i)
  PROVE  Control'
  <1>0. EventTypeOK /\ starts[i] \in Nat
    BY DEF EventInv, EventTypeOK
  <1>1. CASE Acquire(i)
    <2>1. /\ cb[i] = "wait" /\ avail[i] /\ ThreadFrame
          /\ UNCHANGED <<occured, sema, locked, starts, main, idx>>
          /\ cb'[i] = "taken" /\ ~ avail'[i]
          /\ \A j \in Ids : j # i => (avail'[j] <=> avail[j]) /\ cb'[j] = cb[j]
      BY <1>0, <1>1 DEF Acquire, EventTypeOK, ThreadFrame
    <2>2. Token(i) => Token(i)'
      BY <2>1 DEF Token, Releasing, Acquiring
    <2>3. Repeat(i) => Repeat(i)'
      BY <1>0, <2>1 DEF Repeat, Looking
    <2> QED BY <2>1, <2>2, <2>3, ThreadControl
  <1>2. CASE CallbackBegins(i)
    <2>1. /\ cb[i] = "taken" /\ ThreadFrame
          /\ UNCHANGED <<occured, sema, avail, main, idx>>
          /\ cb'[i] = "runs" /\ locked'[i] /\ starts'[i] = starts[i] + 1
          /\ \A j \in Ids : j # i => /\ locked'[j] <=> locked[j]
                                     /\ cb'[j] = cb[j] /\ starts'[j] = starts[j]
      BY <1>0, <1>2 DEF CallbackBegins, EventTypeOK, ThreadFrame
    <2>2. Token(i) => Token(i)'
      BY <2>1 DEF Token, Releasing, Acquiring
    <2>3. Token(i) => ~ avail[i]
      BY <2>1 DEF Token, Acquiring
    <2>4. Token(i) /\ Repeat(i) => Repeat(i)'
      BY <1>0, <2>1, <2>3 DEF Repeat, Looking
    <2> QED BY <2>1, <2>2, <2>4, ThreadControl
  <1>3. CASE CallbackReturns(i)
    <2>1. /\ cb[i] = "runs" /\ ThreadFrame
          /\ UNCHANGED <<occured, sema, avail, locked, starts, main, idx>>
          /\ cb'[i] = "clear" /\ \A j \in Ids : j # i => cb'[j] = cb[j]
      BY <1>0, <1>3 DEF CallbackReturns, EventTypeOK, ThreadFrame, lockVars
    <2>2. Token(i) => Token(i)'
      BY <2>1 DEF Token, Releasing, Acquiring
    <2>3. Repeat(i) => Repeat(i)'
      BY <1>0, <2>1 DEF Repeat, Looking
    <2> QED BY <2>1, <2>2, <2>3, ThreadControl
  <1>4. CASE ClearFlag(i)
    <2>1. /\ cb[i] = "clear" /\ ThreadFrame
          /\ UNCHANGED <<sema, avail, locked, starts, main, idx>>
          /\ cb'[i] = "try" /\ ~ occured'[i]
          /\ \A j \in Ids : j # i => (occured'[j] <=> occured[j]) /\ cb'[j] = cb[j]
      BY <1>0, <1>4 DEF ClearFlag, EventTypeOK, ThreadFrame, lockVars
    <2>2. Token(i) => Token(i)'
      BY <2>1 DEF Token, Releasing, Acquiring
    <2>3. Repeat(i) => Repeat(i)'
      BY <1>0, <2>1 DEF Repeat, Looking
    <2> QED BY <2>1, <2>2, <2>3, ThreadControl
  <1>5. CASE TryAcquire(i)
    <2>1. /\ cb[i] = "try" /\ ThreadFrame
          /\ UNCHANGED <<occured, sema, locked, starts, main, idx>>
          /\ avail[i] => cb'[i] = "got"
          /\ ~ avail[i] => cb'[i] = "wait"
          /\ ~ avail'[i]
          /\ \A j \in Ids : j # i => (avail'[j] <=> avail[j]) /\ cb'[j] = cb[j]
      BY <1>0, <1>5 DEF TryAcquire, EventTypeOK, ThreadFrame
    <2>2. Token(i) => Token(i)'
      BY <2>1 DEF Token, Releasing, Acquiring
    <2>3. Repeat(i) => Repeat(i)'
      BY <1>0, <2>1 DEF Repeat, Looking
    <2> QED BY <2>1, <2>2, <2>3, ThreadControl
  <1>6. CASE TryAcquired(i)
    <2>1. /\ cb[i] = "got" /\ ThreadFrame
          /\ UNCHANGED <<occured, sema, avail, starts, main, idx>>
          /\ cb'[i] = "wait" /\ locked'[i]
          /\ \A j \in Ids : j # i => (locked'[j] <=> locked[j]) /\ cb'[j] = cb[j]
      BY <1>0, <1>6 DEF TryAcquired, EventTypeOK, ThreadFrame
    <2>2. Token(i) => Token(i)' /\ ~ avail[i]
      BY <2>1 DEF Token, Releasing, Acquiring
    <2>3. Token(i) /\ Repeat(i) => Repeat(i)'
      BY <1>0, <2>1, <2>2 DEF Repeat, Looking
    <2> QED BY <2>1, <2>2, <2>3, ThreadControl
  <1>7. CASE CallbackRaises(i)
    <2>1. /\ cb[i] \in {"runs", "clear", "try"} /\ ThreadFrame
          /\ UNCHANGED <<occured, avail, locked, starts, main, idx>>
          /\ sema' = [sema EXCEPT ![i] = "none"]
          /\ cb'[i] = "none" /\ \A j \in Ids : j # i => cb'[j] = cb[j]
      BY <1>0, <1>7 DEF CallbackRaises, EventTypeOK, ThreadFrame, lockVars
    <2>2. Token(i) => Token(i)'
      BY <2>1 DEF Token, Releasing, Acquiring
    <2>3. Repeat(i) => Repeat(i)'
      BY <1>0, <2>1 DEF Repeat, Looking
    <2> QED BY <2>1, <2>2, <2>3, ThreadControl
  <1> QED BY <1>1, <1>2, <1>3, <1>4, <1>5, <1>6, <1>7 DEF ThreadStep

(***************************************************************************)
(* Lemma: a restart begins with an empty table.                            *)
(***************************************************************************)
LEMMA RestartControl == EventInv /\ Restart => Control'
  <1> SUFFICES ASSUME EventInv, Restart PROVE Control'
    OBVIOUS
  <1>1. registered' = <<>> /\ main' = "register"
    BY Zenon DEF Restart
  <1>2. Number' = 0
    BY <1>1 DEF Number
  <1>3. \A j \in Ids : cb'[j] = "none" /\ starts'[j] = 0
    BY ConstValue, Zenon DEF Restart
  <1>4. LoopIndex' /\ LoopHoldsLocked' /\ NoThreadYet' /\ OneToken'
    BY <1>1, <1>2, <1>3 DEF LoopIndex, LoopHoldsLocked, NoThreadYet, OneToken
  <1>5. Repeats'
    BY <1>1, <1>3 DEF Repeats, Repeat, Looking
  <1> QED BY <1>4, <1>5 DEF Control

(***************************************************************************)
(* Theorem: EventInv is an invariant of the event mechanism.               *)
(***************************************************************************)
THEOREM EventInvariant == Spec => []EventInv
  <1>1. EventInv /\ [Next]_vars => Control'
    <2> SUFFICES ASSUME EventInv, [Next]_vars PROVE Control'
      OBVIOUS
    <2>1. ASSUME NEW t \in Topics, Trigger(t) PROVE Control'
      BY <2>1, OccursControl DEF Trigger, tableVars, lockVars
    <2>2. CASE Register
      BY <2>2, RegisterControl
    <2>3. CASE StartTrigger
      BY <2>3 DEF StartTrigger, Control, EventInv, LoopIndex, LoopHoldsLocked,
                  NoThreadYet, OneToken, Token, Releasing, Acquiring, Repeats,
                  Repeat, Looking, lockVars, Number
    <2>4. CASE TriggerLaunch
      BY <2>4, OccursControl, EventAssumption
         DEF TriggerLaunch, tableVars, lockVars
    <2>5. CASE Round \/ GetOccuredFlag \/ SemaExists \/ SemaLocked
      BY <2>5, LoopControl
    <2>6. CASE Release \/ Unlock
      BY <2>6, ReleaseControl
    <2>7. ASSUME NEW i \in Ids,
                 ThreadStep(i) \/ CallbackReturns(i) \/ CallbackRaises(i)
          PROVE Control'
      BY <2>7, ThreadStepControl
    <2>8. CASE Restart
      BY <2>8, RestartControl
    <2>9. CASE UNCHANGED vars
      BY <2>9 DEF vars, Control, EventInv, LoopIndex, LoopHoldsLocked,
                  NoThreadYet, OneToken, Token, Releasing, Acquiring, Repeats,
                  Repeat, Looking, tableVars, lockVars, Number
    <2> QED
      BY <2>1, <2>2, <2>3, <2>4, <2>5, <2>6, <2>7, <2>8, <2>9
         DEF Next, MainStep
  <1>2. EventInv /\ [Next]_vars => EventInv'
    <2>1. EventInv /\ [Next]_vars => EventTypeOK'
      BY EventTypeStep DEF EventInv
    <2> QED BY <1>1, <2>1 DEF EventInv, Control
  <1> QED BY <1>2, EventInvInit, PTL DEF Spec

(***************************************************************************)
(* Theorem: the tables of the event mechanism, the main loop and the       *)
(* callback threads keep their types, and no more than MaxNum events are   *)
(* ever registered (EventTypeOK).                                          *)
(***************************************************************************)
THEOREM EventTypes == Spec => []EventTypeOK
  <1>1. EventInv => EventTypeOK
    BY DEF EventInv
  <1> QED BY <1>1, EventInvariant, PTL

(***************************************************************************)
(* Theorem: for every script and every interleaving each registered        *)
(* event's lock is one token (OneToken).                                   *)
(***************************************************************************)
THEOREM EventOneToken == Spec => []OneToken
  <1>1. EventInv => OneToken
    BY DEF EventInv
  <1> QED BY <1>1, EventInvariant, PTL

(***************************************************************************)
(* Theorem: the main loop is ended only by a callback that raised, never   *)
(* by the release of a lock that is not locked (LoopDiesOfNone).           *)
(***************************************************************************)
THEOREM EventLoopDiesOfNone == Spec => []LoopDiesOfNone
  <1>1. EventInv => LoopDiesOfNone
    BY DEF EventInv, LoopHoldsLocked, LoopDiesOfNone
  <1> QED BY <1>1, EventInvariant, PTL

(***************************************************************************)
(* Theorem: a trigger begins its callback at most twice (AtMostOneRepeat). *)
(***************************************************************************)
THEOREM EventAtMostOneRepeat == Spec => []AtMostOneRepeat
  <1>1. EventInv => AtMostOneRepeat
    BY DEF EventInv, Repeats, Repeat, AtMostOneRepeat
  <1> QED BY <1>1, EventInvariant, PTL
=============================================================================
