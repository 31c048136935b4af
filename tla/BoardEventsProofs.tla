-------------------------- MODULE BoardEventsProofs ---------------------------
(***************************************************************************)
(* Proofs about BoardEvents, for every clock width, interval, level,       *)
(* threshold, acceleration and table size: a press, a crossing of a        *)
(* threshold and a tilt are each one event.                                *)
(***************************************************************************)
EXTENDS BoardEvents, SequenceTheorems, TLAPS

Eves == [type : {"light", "sound"}, threshold : Thresholds]

Flags == [Tilts -> BOOLEAN]

MoreTypes ==
  /\ sensor \in {"button", "level", "gyro"} /\ beat \in {0, 1}
  /\ missed \in BOOLEAN /\ eves \in Seq(Eves) /\ restarts \in Nat

(***************************************************************************)
(* The button: the static counters are the reports of this press, and the  *)
(* tick of the last one is as long ago as was really waited.               *)
(***************************************************************************)
Waited == IF fired = {} THEN wait ELSE 0

PressKept ==
  sensor = "button" /\ ~ missed =>
    /\ trigger_times = reports
    /\ trigger_times > 0 => Elapsed(now) = Waited

(***************************************************************************)
(* Light and sound: the flag is set exactly when the event cannot fire.    *)
(***************************************************************************)
LevelKept ==
  sensor = "level" =>
    /\ \A id \in Ids : stale[id] => edge[id]
    /\ Len(eves) < CODEY_EVE_MAX_NUM =>
         \A id \in DOMAIN eves : ~ stale[id] => (armed[id] <=> ~ edge[id])

(***************************************************************************)
(* The tilts: the one that was triggered is the one the board is in.       *)
(***************************************************************************)
TiltKept ==
  sensor = "gyro" =>
    /\ ~ started => posture = "none" /\ \A t \in Tilts : ~ gyro.triggerd[t]
    /\ started /\ ~ Outweighed => \A t \in Tilts : gyro.triggerd[t] <=> t = posture

BoardInv == BoardTypeOK /\ MoreTypes /\ PressKept /\ LevelKept /\ TiltKept
-------------------------------------------------------------------------------
\* Arithmetic on the clock: one turn more or less changes nothing.
LEMMA Turn ==
  ASSUME NEW r \in 0 .. Wrap - 1
  PROVE  r % Wrap = r /\ (r + Wrap) % Wrap = r /\ (r - Wrap) % Wrap = r
<1>1. Wrap \in Nat \ {0} /\ r \in Int /\ 0 <= r /\ r < Wrap
  BY BoardAssumption
<1>2. r % Wrap = r
  BY <1>1
<1>3. (r + Wrap) % Wrap = r
  BY <1>1
<1>4. (r - Wrap) % Wrap = r
  BY <1>1
<1> QED BY <1>2, <1>3, <1>4

(***************************************************************************)
(* The difference of two ticks modulo Wrap grows as the clock does, also   *)
(* over an overflow of millis().                                           *)
(***************************************************************************)
LEMMA ElapsedGrows ==
  ASSUME NEW n \in 0 .. Wrap - 1, NEW l \in 0 .. Wrap - 1, NEW d \in 0 .. MaxGap,
         ((n - l) % Wrap) + d < Wrap
  PROVE  /\ (n + d) % Wrap \in 0 .. Wrap - 1
         /\ (((n + d) % Wrap) - l) % Wrap = ((n - l) % Wrap) + d
<1>1. /\ Wrap \in Nat \ {0} /\ n \in Int /\ l \in Int /\ d \in Int /\ 0 <= d /\ d < Wrap
      /\ 0 <= n /\ n < Wrap /\ 0 <= l /\ l < Wrap
  BY BoardAssumption
<1> DEFINE t == IF n + d < Wrap THEN n + d ELSE n + d - Wrap
           e == IF n >= l THEN n - l ELSE n - l + Wrap
<1>2. t \in 0 .. Wrap - 1 /\ e \in 0 .. Wrap - 1
  BY <1>1
<1>3. (n + d) % Wrap = t
  <2>1. n + d = t \/ n + d = t + Wrap
    BY <1>1
  <2> HIDE DEF t
  <2> QED BY <1>2, <2>1, Turn
<1>4. (n - l) % Wrap = e
  <2>1. n - l = e \/ n - l = e - Wrap
    BY <1>1
  <2> HIDE DEF e
  <2> QED BY <1>2, <2>1, Turn
<1>5. e + d \in 0 .. Wrap - 1
  BY <1>1, <1>2, <1>4
<1>6. (t - l) % Wrap = e + d
  <2>1. t - l = e + d \/ t - l = (e + d) - Wrap
    BY <1>1, <1>5
  <2> DEFINE x == e + d
             y == t - l
  <2>2. x \in 0 .. Wrap - 1 /\ (y = x \/ y = x - Wrap)
    BY <1>5, <2>1
  <2> HIDE DEF x, y
  <2>3. y % Wrap = x
    BY <2>2, Turn
  <2> QED BY <2>3 DEF x, y
<1> QED BY <1>2, <1>3, <1>4, <1>6

LEMMA BoardInit == Init => BoardInv
<1> SUFFICES ASSUME Init PROVE BoardInv
  OBVIOUS
<1> USE BoardAssumption DEF Init, AllOff
<1>1. BoardTypeOK
  <2>1. 0 \in 0 .. Wrap - 1 /\ 0 \in 0 .. 2 /\ Len(<<>>) <= CODEY_EVE_MAX_NUM
    BY EmptySeq
  <2>2. /\ started \in BOOLEAN /\ {now, last_tick, wait} \subseteq 0 .. Wrap - 1
        /\ {trigger_times, reports} \subseteq 0 .. 2 /\ Len(eves) <= CODEY_EVE_MAX_NUM
    BY <2>1
  <2>3. {edge, armed, stale} \subseteq [Ids -> BOOLEAN]
    OBVIOUS
  <2>4. /\ gyro \in [occured : Flags, triggerd : Flags]
        /\ \A t \in Tilts : ~ gyro.occured[t]
    BY DEF Flags
  <2>5. {"left", "right", "forward", "back"} \subseteq Tilts
    BY DEF Tilts
  <2> QED BY <2>2, <2>3, <2>4, <2>5 DEF BoardTypeOK, Flags
<1>2. MoreTypes
  BY EmptySeq DEF MoreTypes
<1>3. PressKept
  BY DEF PressKept
<1>4. LevelKept
  BY DEF LevelKept
<1>5. TiltKept
  BY DEF TiltKept
<1> QED BY <1>1, <1>2, <1>3, <1>4, <1>5 DEF BoardInv

(***************************************************************************)
(* A sample of the button, and what PressReports says of it.               *)
(***************************************************************************)
Due ==
  /\ down'
  /\ \/ reports = 0
     \/ reports = 1 /\ wait' > SECOND_TRIGGER_INTERVAL
     \/ reports > 1 /\ wait' > THIRD_OVER_TRIGGER_INTERVAL

LEMMA ButtonStep ==
  ASSUME BoardInv, ButtonListening
  PROVE  BoardInv' /\ (started /\ ~ missed => ((fired' # {}) <=> Due))
<1> USE DEF BoardInv
<1>1. PICK v \in BOOLEAN, d \in 0 .. MaxGap :
        LET t == (now + d) % Wrap
            since == Waited + d
            report == started /\ v /\ Reported(t) IN
        /\ Sampled("button") /\ since < Wrap
        /\ now' = t
        /\ fired' = IF report THEN {"press"} ELSE {}
        /\ IF started
             THEN IF v THEN IF report THEN last_tick' = t /\ trigger_times' = OneMore(trigger_times)
                                      ELSE UNCHANGED <<last_tick, trigger_times>>
                       ELSE last_tick' = 0 /\ trigger_times' = 0
             ELSE UNCHANGED <<last_tick, trigger_times>>
        /\ down' = v /\ wait' = since
        /\ reports' = IF ~ v THEN 0 ELSE IF report THEN OneMore(reports) ELSE reports
        /\ missed' = (IF started THEN missed /\ v ELSE missed \/ (trigger_times > 0 /\ ~ v))
        /\ UNCHANGED <<levelVars, gyroVars>>
  BY DEF ButtonListening, Waited
<1> DEFINE t == (now + d) % Wrap
           report == started /\ v /\ Reported(t)
<1>2. /\ Wrap \in Nat /\ Wrap > 0 /\ MaxGap \in Nat
      /\ now \in 0 .. Wrap - 1 /\ last_tick \in 0 .. Wrap - 1 /\ wait \in 0 .. Wrap - 1
      /\ trigger_times \in 0 .. 2 /\ reports \in 0 .. 2 /\ Waited \in 0 .. Wrap - 1
      /\ started \in BOOLEAN /\ missed \in BOOLEAN
  BY BoardAssumption DEF BoardTypeOK, MoreTypes, Waited
<1>3. /\ sensor = "button" /\ sensor' = sensor /\ started' = started
      /\ restarts' = restarts /\ beat' = 1 - beat
      /\ now' = t /\ wait' = Waited + d /\ Waited + d < Wrap /\ down' = v
      /\ eves' = eves /\ edge' = edge /\ armed' = armed /\ stale' = stale
      /\ gyro' = gyro /\ posture' = posture
  BY <1>1 DEF Sampled, levelVars, gyroVars
<1>4. fired' = IF report THEN {"press"} ELSE {}
  BY <1>1
<1>5. /\ last_tick' = IF started THEN IF v THEN IF report THEN t ELSE last_tick
                                           ELSE 0 ELSE last_tick
      /\ trigger_times' = IF started THEN IF v THEN IF report THEN OneMore(trigger_times)
                                                     ELSE trigger_times
                                               ELSE 0 ELSE trigger_times
      /\ reports' = IF ~ v THEN 0 ELSE IF report THEN OneMore(reports) ELSE reports
      /\ missed' = (IF started THEN missed /\ v ELSE missed \/ (trigger_times > 0 /\ ~ v))
  BY <1>1
<1>14. /\ missed' \in BOOLEAN
       /\ ~ missed' => \/ started /\ ~ v
                       \/ ~ missed /\ (v \/ ~ (trigger_times > 0))
  <2>1. CASE started
    <3>1. missed' = (missed /\ v)
      BY <1>5, <2>1
    <3> QED BY <2>1, <3>1
  <2>2. CASE ~ started
    <3>1. missed' = (missed \/ (trigger_times > 0 /\ ~ v))
      BY <1>5, <2>2
    <3> QED BY <2>2, <3>1
  <2> QED BY <2>1, <2>2
<1>6. t \in 0 .. Wrap - 1 /\ Waited + d \in 0 .. Wrap - 1
  BY <1>2, <1>3
<1>7. OneMore(trigger_times) \in 0 .. 2 /\ OneMore(reports) \in 0 .. 2
  BY <1>2 DEF OneMore
<1>8. ~ missed /\ trigger_times > 0 => Elapsed(t) = Waited + d
  <2> SUFFICES ASSUME ~ missed, trigger_times > 0 PROVE Elapsed(t) = Waited + d
    OBVIOUS
  <2>1. (now - last_tick) % Wrap = Waited
    BY <1>3 DEF PressKept, Elapsed
  <2>2. (((now + d) % Wrap) - last_tick) % Wrap = ((now - last_tick) % Wrap) + d
    BY <1>2, <1>3, <2>1, ElapsedGrows
  <2> QED BY <2>1, <2>2 DEF Elapsed
<1>9. ~ missed => trigger_times = reports
  BY <1>3 DEF PressKept
<1>10. started /\ ~ missed => ((fired' # {}) <=> Due)
  BY <1>2, <1>3, <1>4, <1>8, <1>9 DEF Due, Reported
<1> HIDE DEF t, report
<1>11. MoreTypes' /\ LevelKept' /\ TiltKept'
  <2>1. MoreTypes'
    BY <1>3, <1>14 DEF MoreTypes
  <2> QED BY <2>1, <1>3 DEF LevelKept, TiltKept
<1>12. BoardTypeOK'
  <2>1. /\ {now', last_tick', wait'} \subseteq 0 .. Wrap - 1
        /\ {trigger_times', reports'} \subseteq 0 .. 2
    BY <1>2, <1>3, <1>5, <1>6, <1>7
  <2> QED BY <1>3, <2>1 DEF BoardTypeOK
<1>13. PressKept'
  <2> SUFFICES ASSUME ~ missed'
               PROVE  /\ trigger_times' = reports'
                      /\ trigger_times' > 0 => Elapsed(now)' = Waited'
    BY DEF PressKept
  <2>1. (started /\ ~ v) \/ (~ missed /\ (v \/ trigger_times = 0))
    BY <1>2, <1>14
  <2>2. trigger_times' = reports'
    <3>1. report => started /\ v
      BY DEF report
    <3>2. CASE started /\ ~ v
      BY <1>5, <3>2
    <3>3. CASE ~ missed /\ (v \/ trigger_times = 0)
      BY <1>5, <1>9, <3>1, <3>3
    <3> QED BY <2>1, <3>2, <3>3
  <2>3. ASSUME trigger_times' > 0 PROVE (now' - last_tick') % Wrap = Waited'
    <3>1. ~ missed /\ v
      <4>1. ~ (started /\ ~ v)
        BY <1>5, <2>3
      <4>2. trigger_times = 0 => v
        BY <1>5, <2>1, <2>3
      <4> QED BY <2>1, <4>1, <4>2
    <3>2. CASE report
      <4>1. last_tick' = t /\ now' = t /\ Waited' = 0
        BY <1>3, <1>4, <1>5, <3>1, <3>2 DEF Waited, report
      <4>2. 0 % Wrap = 0 /\ t - t = 0
        BY <1>2, <1>6, Turn
      <4> QED BY <4>1, <4>2
    <3>3. CASE ~ report
      <4>1. last_tick' = last_tick /\ now' = t /\ Waited' = Waited + d /\ trigger_times > 0
        BY <1>3, <1>4, <1>5, <2>3, <3>1, <3>3 DEF Waited
      <4> QED BY <1>8, <3>1, <4>1 DEF Elapsed
    <3> QED BY <3>2, <3>3
  <2> QED BY <2>2, <2>3 DEF Elapsed
<1> QED BY <1>10, <1>11, <1>12, <1>13 DEF BoardInv

(***************************************************************************)
(* A sample of the light or the sound, and what LevelReports says of it.   *)
(***************************************************************************)
LEMMA LevelStep ==
  ASSUME BoardInv, LevelListening
  PROVE  /\ BoardInv'
         /\ Len(eves) < CODEY_EVE_MAX_NUM =>
              \A id \in DOMAIN eves :
                ~ stale[id] => (id \in fired' <=> armed[id] /\ ~ armed'[id])
<1> USE DEF BoardInv
<1>1. PICK s \in {"light", "sound"}, v \in Levels :
        /\ Sampled("level")
        /\ fired' = {id \in Checked(s) : ~ edge[id] /\ Reached(id, v)}
        /\ edge' = [id \in Ids |->
                      id \in fired' \/ (edge[id] /\ ~ (id \in Checked(s) /\ Left(id, v)))]
        /\ armed' = [id \in Ids |->
                       IF ~ (started /\ id \in DOMAIN eves /\ eves[id].type = s) THEN armed[id]
                       ELSE IF s = "light" THEN v >= eves[id].threshold
                       ELSE v < eves[id].threshold \/ (v = eves[id].threshold /\ armed[id])]
        /\ stale' = [id \in Ids |-> stale[id] /\ edge'[id]]
        /\ UNCHANGED <<eves, buttonVars, gyroVars>>
  BY DEF LevelListening
<1>2. /\ sensor = "level" /\ sensor' = sensor /\ started' = started
      /\ restarts' = restarts /\ beat' = 1 - beat /\ eves' = eves
      /\ UNCHANGED <<buttonVars, gyroVars>>
  BY <1>1 DEF Sampled
<1>3. /\ edge \in [Ids -> BOOLEAN] /\ armed \in [Ids -> BOOLEAN]
      /\ stale \in [Ids -> BOOLEAN]
      /\ eves \in Seq(Eves) /\ Len(eves) \in Nat /\ Len(eves) <= CODEY_EVE_MAX_NUM
      /\ DOMAIN eves = 1 .. Len(eves) /\ DOMAIN eves \subseteq Ids
  BY BoardAssumption DEF BoardTypeOK, MoreTypes, Ids
<1>4. \A id \in Ids : edge'[id] = (id \in fired' \/ (edge[id] /\ ~ (id \in Checked(s) /\ Left(id, v))))
  BY <1>1
<1>5. \A id \in Ids : stale'[id] = (stale[id] /\ edge'[id])
  BY <1>1
<1>6. /\ edge' \in [Ids -> BOOLEAN] /\ stale' \in [Ids -> BOOLEAN]
  BY <1>1
<1> DEFINE th(id) == eves[id].threshold
           A(id) == IF ~ (started /\ id \in DOMAIN eves /\ eves[id].type = s) THEN armed[id]
                    ELSE IF s = "light" THEN v >= th(id)
                    ELSE v < th(id) \/ (v = th(id) /\ armed[id])
<1>14. armed' = [id \in Ids |-> A(id)]
  BY <1>1
<1>15. \A id \in Ids : A(id) \in BOOLEAN
  <2> SUFFICES ASSUME NEW id \in Ids PROVE A(id) \in BOOLEAN
    OBVIOUS
  <2>1. CASE ~ (started /\ id \in DOMAIN eves /\ eves[id].type = s)
    BY <1>3, <2>1
  <2>2. CASE started /\ id \in DOMAIN eves /\ eves[id].type = s
    <3>1. CASE s = "light"
      BY <2>2, <3>1
    <3>2. CASE s # "light"
      <4>1. A(id) = (v < th(id) \/ (v = th(id) /\ armed[id]))
        BY <2>2, <3>2
      <4> QED BY <4>1
    <3> QED BY <3>1, <3>2
  <2> QED BY <2>1, <2>2
<1>7. armed' \in [Ids -> BOOLEAN] /\ \A id \in Ids : armed'[id] = A(id)
  <2> HIDE DEF A
  <2> QED BY <1>14, <1>15
<1>8. BoardTypeOK' /\ MoreTypes' /\ PressKept' /\ TiltKept'
  <2>1. MoreTypes'
    BY <1>2 DEF MoreTypes, buttonVars
  <2>2. BoardTypeOK'
    BY <1>2, <1>6, <1>7 DEF BoardTypeOK, buttonVars, gyroVars
  <2> QED BY <1>2, <2>1, <2>2 DEF PressKept, TiltKept
<1>9. ASSUME NEW id \in DOMAIN eves, ~ (started /\ eves[id].type = s)
      PROVE  /\ id \notin fired' /\ (edge'[id] <=> edge[id]) /\ (armed'[id] <=> armed[id])
  <2>1. id \notin Checked(s)
    BY <1>9 DEF Checked
  <2>2. id \notin fired'
    BY <1>1, <2>1
  <2>3. edge'[id] <=> edge[id]
    BY <1>3, <1>4, <2>1, <2>2
  <2>4. armed'[id] = armed[id]
    BY <1>1, <1>3, <1>9
  <2> QED BY <2>2, <2>3, <2>4
<1>10. ASSUME NEW id \in DOMAIN eves, started, eves[id].type = s,
              Len(eves) < CODEY_EVE_MAX_NUM
       PROVE  /\ id \in fired' <=> ~ edge[id] /\ Reached(id, v)
              /\ edge'[id] <=> (id \in fired' \/ (edge[id] /\ ~ Left(id, v)))
              /\ Reached(id, v) => ~ Left(id, v) /\ ~ armed'[id]
              /\ Left(id, v) => armed'[id]
              /\ ~ Reached(id, v) /\ ~ Left(id, v) => (armed'[id] <=> armed[id])
  <2>1. id \in Checked(s) /\ id \in Ids
    BY <1>3, <1>10 DEF Checked
  <2>2. id \in fired' <=> ~ edge[id] /\ Reached(id, v)
    BY <1>1, <2>1
  <2>3. edge'[id] <=> (id \in fired' \/ (edge[id] /\ ~ Left(id, v)))
    BY <1>4, <2>1
  <2>4. eves[id] \in Eves /\ eves[id].threshold \in Int /\ v \in Int
    <3>1. id \in 1 .. Len(eves)
      BY <1>3
    <3>2. eves[id] \in Eves
      BY <1>3, <3>1, ElementOfSeq
    <3> QED BY <3>2, BoardAssumption DEF Eves
  <2>5. armed'[id] = A(id)
    BY <1>7, <2>1
  <2>6. CASE s = "light"
    <3>1. A(id) = (v >= eves[id].threshold)
      BY <1>10, <2>6
    <3>3. armed'[id] <=> v >= eves[id].threshold
      BY <2>5, <3>1
    <3>2. (Reached(id, v) <=> eves[id].threshold > v) /\ (Left(id, v) <=> eves[id].threshold <= v)
      BY <1>10, <2>6 DEF Reached, Left
    <3>4. (Reached(id, v) => ~ Left(id, v)) /\ (Left(id, v) \/ Reached(id, v))
      BY <2>4, <3>2
    <3>5. (Reached(id, v) => ~ armed'[id]) /\ (Left(id, v) => armed'[id])
      BY <2>4, <3>2, <3>3
    <3> QED BY <2>2, <2>3, <3>4, <3>5
  <2>7. CASE s = "sound"
    <3>7. A(id) = (v < eves[id].threshold \/ (v = eves[id].threshold /\ armed[id]))
      BY <1>10, <2>7
    <3>1. armed'[id] <=> v < eves[id].threshold \/ (v = eves[id].threshold /\ armed[id])
      BY <2>5, <3>7
    <3>2. (Reached(id, v) <=> eves[id].threshold < v) /\ (Left(id, v) <=> eves[id].threshold > v)
      BY <1>10, <2>7 DEF Reached, Left
    <3>3. Reached(id, v) => ~ Left(id, v) /\ ~ armed'[id]
      BY <2>4, <3>1, <3>2
    <3>4. Left(id, v) => armed'[id]
      BY <2>4, <3>1, <3>2
    <3>5. ~ Reached(id, v) /\ ~ Left(id, v) => v = eves[id].threshold
      BY <2>4, <3>2
    <3>6. ~ Reached(id, v) /\ ~ Left(id, v) => (armed'[id] <=> armed[id])
      BY <2>4, <3>1, <3>2, <3>5
    <3> QED BY <2>2, <2>3, <3>3, <3>4, <3>6
  <2> QED BY <2>6, <2>7
<1>11. ASSUME Len(eves) < CODEY_EVE_MAX_NUM, NEW id \in DOMAIN eves, ~ stale[id]
       PROVE  id \in fired' <=> armed[id] /\ ~ armed'[id]
  <2>1. armed[id] <=> ~ edge[id]
    BY <1>2, <1>11 DEF LevelKept
  <2> QED BY <1>9, <1>10, <1>11, <2>1
<1>12. ASSUME Len(eves) < CODEY_EVE_MAX_NUM, NEW id \in DOMAIN eves, ~ stale'[id]
       PROVE  armed'[id] <=> ~ edge'[id]
  <2>1. id \in Ids /\ (stale'[id] <=> stale[id] /\ edge'[id])
    BY <1>3, <1>5
  <2>2. (~ stale[id] => (armed[id] <=> ~ edge[id])) /\ (stale[id] => edge[id])
    BY <1>2, <1>12, <2>1 DEF LevelKept
  <2>3. CASE ~ (started /\ eves[id].type = s)
    BY <1>9, <1>12, <2>1, <2>2, <2>3
  <2>4. CASE started /\ eves[id].type = s
    BY <1>10, <1>12, <2>1, <2>2, <2>4
  <2> QED BY <2>3, <2>4
<1>13. LevelKept'
  BY <1>2, <1>5, <1>12 DEF LevelKept
<1> QED BY <1>8, <1>11, <1>13

LEMMA RegisterStep ==
  ASSUME BoardInv, Register
  PROVE  BoardInv'
<1> USE DEF BoardInv
<1>1. PICK s \in {"light", "sound"}, th \in Thresholds :
        eves' = Append(eves, [type |-> s, threshold |-> th])
  BY DEF Register
<1> DEFINE e == [type |-> s, threshold |-> th]
           k == Len(eves) + 1
<1>2. /\ eves \in Seq(Eves) /\ e \in Eves /\ Len(eves) \in Nat
      /\ Len(eves) < CODEY_EVE_MAX_NUM /\ CODEY_EVE_MAX_NUM \in Nat
  BY BoardAssumption DEF MoreTypes, Register, Eves
<1>3. /\ eves' \in Seq(Eves) /\ Len(eves') = k /\ k \in Ids
      /\ DOMAIN eves' = DOMAIN eves \cup {k}
  <2>1. Append(eves, e) \in Seq(Eves) /\ Len(Append(eves, e)) = Len(eves) + 1
    BY <1>2, AppendProperties
  <2>2. DOMAIN eves = 1 .. Len(eves) /\ DOMAIN eves' = 1 .. Len(eves')
    BY <1>1, <1>2, <2>1, LenProperties
  <2> QED BY <1>1, <1>2, <2>1, <2>2 DEF Ids
<1>4. /\ edge \in [Ids -> BOOLEAN] /\ armed \in [Ids -> BOOLEAN] /\ stale \in [Ids -> BOOLEAN]
  BY DEF BoardTypeOK
<1>5. /\ armed' = [armed EXCEPT ![k] = TRUE] /\ stale' = [stale EXCEPT ![k] = edge[k]]
      /\ edge' = edge /\ sensor = "level" /\ sensor' = sensor /\ started' = started
      /\ beat' = beat /\ restarts' = restarts /\ UNCHANGED <<buttonVars, gyroVars>>
  BY <1>3 DEF Register
<1> HIDE DEF k, e
<1>6. armed' \in [Ids -> BOOLEAN] /\ stale' \in [Ids -> BOOLEAN]
  BY <1>3, <1>4, <1>5
<1>7. BoardTypeOK'
  <2>1. Len(eves') <= CODEY_EVE_MAX_NUM
    BY <1>2, <1>3 DEF Ids
  <2> QED BY <1>5, <1>6, <2>1 DEF BoardTypeOK, buttonVars, gyroVars
<1>8. MoreTypes'
  BY <1>3, <1>5 DEF MoreTypes, buttonVars
<1>9. ASSUME NEW id \in Ids, stale'[id] PROVE edge'[id]
  <2>1. CASE id = k
    BY <1>3, <1>4, <1>5, <1>9, <2>1
  <2>2. CASE id # k
    BY <1>3, <1>4, <1>5, <1>9, <2>2 DEF LevelKept
  <2> QED BY <2>1, <2>2
<1>10. ASSUME NEW id \in DOMAIN eves', ~ stale'[id] PROVE armed'[id] <=> ~ edge'[id]
  <2>1. CASE id = k
    <3>1. armed'[id] = TRUE /\ stale'[id] = edge[id]
      BY <1>3, <1>4, <1>5, <2>1
    <3> QED BY <1>5, <1>10, <3>1
  <2>2. CASE id # k
    <3>1. armed'[id] = armed[id] /\ stale'[id] = stale[id] /\ id \in DOMAIN eves
      BY <1>3, <1>4, <1>5, <2>2
    <3> QED BY <1>2, <1>5, <1>10, <3>1 DEF LevelKept
  <2> QED BY <2>1, <2>2
<1>11. LevelKept'
  BY <1>9, <1>10 DEF LevelKept
<1> QED BY <1>5, <1>7, <1>8, <1>11 DEF PressKept, TiltKept

(***************************************************************************)
(* A sample of the gyroscope, and what TiltReports says of it: first the   *)
(* flags after the two listeners, g.                                       *)
(***************************************************************************)
Leans(ax, ay) == Lean(ax) # "none" /\ Abs(ax) >= Abs(ay)

LEMMA Tilted ==
  ASSUME BoardInv, NEW ax, NEW ay
  PROVE  LET g == Pitched(Rolled(gyro, ay), ax, ay)
         IN /\ g \in [occured : Flags, triggerd : Flags]
            /\ ~ (g.occured["left"] /\ g.occured["right"])
            /\ ~ (g.occured["forward"] /\ g.occured["back"])
            /\ Leans(ax, ay) => \A t \in Tilts :
                 /\ g.occured[t] <=> t = Lean(ax)
                 /\ g.triggerd[t] <=> gyro.triggerd[t] /\ t = Lean(ax)
            /\ ~ Leans(ax, ay) =>
                 /\ \A t \in Sideways : g.occured[t] <=> t = Side(ay)
                 /\ \A t \in Tilts : g.triggerd[t] <=> /\ gyro.triggerd[t]
                                                      /\ t \in Sideways /\ t = Side(ay)
<1> DEFINE r == Rolled(gyro, ay)
           g == Pitched(r, ax, ay)
<1>1. /\ gyro \in [occured : Flags, triggerd : Flags]
      /\ gyro.occured \in Flags /\ gyro.triggerd \in Flags
      /\ ~ (gyro.occured["forward"] /\ gyro.occured["back"])
  BY DEF BoardInv, BoardTypeOK, Flags
<1>2. /\ r = [occured |-> r.occured, triggerd |-> r.triggerd]
      /\ r.occured \in Flags /\ r.triggerd \in Flags
      /\ \A t \in Tilts : r.occured[t] <=> IF t \in Sideways THEN t = Side(ay) ELSE gyro.occured[t]
      /\ \A t \in Tilts : r.triggerd[t] <=> gyro.triggerd[t] /\ (t \in Sideways => t = Side(ay))
  <2>1. r.occured = [t \in Tilts |-> IF t \in Sideways THEN t = Side(ay) ELSE gyro.occured[t]]
    BY DEF Rolled
  <2>2. r.triggerd = [t \in Tilts |-> gyro.triggerd[t] /\ (t \in Sideways => t = Side(ay))]
    BY DEF Rolled
  <2>3. r = [occured |-> r.occured, triggerd |-> r.triggerd]
    BY DEF Rolled
  <2>4. r.triggerd \in Flags
    BY <2>2 DEF Flags
  <2>5. \A t \in Tilts : (IF t \in Sideways THEN t = Side(ay) ELSE gyro.occured[t]) \in BOOLEAN
    BY <1>1 DEF Flags
  <2>6. r.occured \in Flags
    BY <2>1, <2>5 DEF Flags
  <2> QED BY <2>1, <2>2, <2>3, <2>4, <2>6
<1>3. {"left", "right", "forward", "back"} \subseteq Tilts /\ Sideways = {"left", "right"}
  BY DEF Tilts, Sideways
<1> HIDE DEF r
<1>4. CASE Leans(ax, ay)
  <2>1. /\ g.occured = [t \in Tilts |-> t = Lean(ax)]
        /\ g.triggerd = [t \in Tilts |-> r.triggerd[t] /\ t = Lean(ax)]
        /\ g = [occured |-> g.occured, triggerd |-> g.triggerd]
    BY <1>4 DEF Pitched, Leans
  <2>2. g.occured \in Flags /\ g.triggerd \in Flags
    BY <2>1 DEF Flags
  <2>3. \A t \in Tilts : g.occured[t] <=> t = Lean(ax)
    BY <2>1
  <2>4. \A t \in Tilts : g.triggerd[t] <=> r.triggerd[t] /\ t = Lean(ax)
    BY <2>1
  <2>5. Lean(ax) \in {"forward", "back"}
    BY <1>4 DEF Leans, Lean
  <2> HIDE DEF g
  <2>6. \A t \in Tilts : g.triggerd[t] <=> gyro.triggerd[t] /\ t = Lean(ax)
    BY <1>2, <1>3, <2>4, <2>5
  <2>7. g \in [occured : Flags, triggerd : Flags]
    BY <2>1, <2>2
  <2>8. /\ ~ (g.occured["left"] /\ g.occured["right"])
        /\ ~ (g.occured["forward"] /\ g.occured["back"])
    BY <1>3, <2>3
  <2> QED BY <1>4, <2>3, <2>6, <2>7, <2>8 DEF g, r
<1>5. CASE ~ Leans(ax, ay)
  <2>1. /\ g.occured = [t \in Tilts |-> r.occured[t] /\ (Lean(ax) # "none" \/ t \in Sideways)]
        /\ g.triggerd = [t \in Tilts |-> r.triggerd[t] /\ t \in Sideways]
        /\ g = [occured |-> g.occured, triggerd |-> g.triggerd]
    BY <1>5 DEF Pitched, Leans
  <2>2. g.occured \in Flags /\ g.triggerd \in Flags
    BY <2>1 DEF Flags
  <2>3. \A t \in Tilts : g.occured[t] <=> r.occured[t] /\ (Lean(ax) # "none" \/ t \in Sideways)
    BY <2>1
  <2>4. \A t \in Tilts : g.triggerd[t] <=> r.triggerd[t] /\ t \in Sideways
    BY <2>1
  <2> HIDE DEF g
  <2>5. \A t \in Sideways : g.occured[t] <=> t = Side(ay)
    BY <1>2, <1>3, <2>3
  <2>6. \A t \in Tilts : g.triggerd[t] <=> gyro.triggerd[t] /\ t \in Sideways /\ t = Side(ay)
    BY <1>2, <2>4
  <2>7. g \in [occured : Flags, triggerd : Flags]
    BY <2>1, <2>2
  <2>8. ~ (g.occured["left"] /\ g.occured["right"])
    BY <1>3, <2>5
  <2>9. ~ (g.occured["forward"] /\ g.occured["back"])
    BY <1>1, <1>2, <1>3, <2>3
  <2> QED BY <1>5, <2>5, <2>6, <2>7, <2>8, <2>9 DEF g, r
<1> QED BY <1>4, <1>5

LEMMA GyroStep ==
  ASSUME BoardInv, GyroListening
  PROVE  /\ BoardInv'
         /\ started /\ ~ Outweighed /\ ~ Outweighed' =>
              fired' = {posture'} \ {posture, "none"}
<1>1. PICK ax \in Accs, ay \in Accs :
        LET g == Pitched(Rolled(gyro, ay), ax, ay) IN
        /\ Sampled("gyro")
        /\ fired' = IF started THEN {t \in Tilts : g.occured[t] /\ ~ g.triggerd[t]} ELSE {}
        /\ gyro' = [g EXCEPT !.triggerd = [t \in Tilts |-> g.triggerd[t] \/ t \in fired']]
        /\ posture' = IF started THEN Posture(ax, ay) ELSE "none"
        /\ UNCHANGED <<buttonVars, levelVars>>
  BY DEF GyroListening
<1> DEFINE g == Pitched(Rolled(gyro, ay), ax, ay)
           L == Lean(ax)
           S == Side(ay)
<1>2. /\ fired' = IF started THEN {t \in Tilts : g.occured[t] /\ ~ g.triggerd[t]} ELSE {}
      /\ gyro' = [g EXCEPT !.triggerd = [t \in Tilts |-> g.triggerd[t] \/ t \in fired']]
      /\ posture' = IF started THEN IF Leans(ax, ay) THEN L ELSE S ELSE "none"
  BY <1>1 DEF Posture, Leans
<1>3. /\ g \in [occured : Flags, triggerd : Flags]
      /\ ~ (g.occured["left"] /\ g.occured["right"])
      /\ ~ (g.occured["forward"] /\ g.occured["back"])
      /\ ~ Leans(ax, ay) =>
           /\ \A t \in Sideways : g.occured[t] <=> t = S
           /\ \A t \in Tilts : g.triggerd[t] <=> gyro.triggerd[t] /\ t \in Sideways /\ t = S
  BY Tilted
<1>15. ASSUME Leans(ax, ay), NEW t \in Tilts
       PROVE  (g.occured[t] <=> t = L) /\ (g.triggerd[t] <=> gyro.triggerd[t] /\ t = L)
  BY <1>15, Tilted
<1>4. /\ Leans(ax, ay) => L \in {"forward", "back"}
      /\ S \in {"left", "right", "none"}
      /\ Tilts = {"left", "right", "forward", "back"} /\ Sideways = {"left", "right"}
  BY DEF Leans, Lean, Side, Tilts, Sideways
<1>5. /\ sensor = "gyro" /\ sensor' = sensor /\ started' = started
      /\ restarts' = restarts /\ beat' = 1 - beat
      /\ UNCHANGED <<buttonVars, levelVars>>
  BY <1>1 DEF Sampled
<1> HIDE DEF g, L, S
<1>6. /\ gyro'.occured = g.occured /\ gyro'.triggerd = [t \in Tilts |-> g.triggerd[t] \/ t \in fired']
      /\ gyro' = [occured |-> gyro'.occured, triggerd |-> gyro'.triggerd]
  BY <1>2, <1>3
<1>7. \A t \in Tilts : gyro'.triggerd[t] <=> g.triggerd[t] \/ t \in fired'
  BY <1>6
<1>8. gyro' \in [occured : Flags, triggerd : Flags]
  <2>1. gyro'.triggerd \in Flags
    BY <1>6 DEF Flags
  <2>2. gyro'.occured \in Flags
    BY <1>3, <1>6
  <2> QED BY <1>6, <2>1, <2>2
<1>9. BoardTypeOK'
  BY <1>3, <1>5, <1>6, <1>8 DEF BoardInv, BoardTypeOK, buttonVars, levelVars, Flags
<1>10. MoreTypes'
  BY <1>5 DEF BoardInv, MoreTypes, buttonVars, levelVars
<1>11. PressKept' /\ LevelKept'
  BY <1>5 DEF PressKept, LevelKept
<1>12. \A t \in {"forward", "back"} : ~ Outweighed' => (g.occured[t] => posture' = t)
  BY <1>6 DEF Outweighed
<1>13. CASE ~ started
  <2>1. posture' = "none" /\ fired' = {}
    BY <1>2, <1>13
  <2>2. \A t \in Tilts : ~ gyro.triggerd[t]
    BY <1>5, <1>13 DEF BoardInv, TiltKept
  <2>5. \A t \in Tilts : ~ g.triggerd[t]
    <3>1. CASE Leans(ax, ay)
      BY <1>15, <2>2, <3>1
    <3>2. CASE ~ Leans(ax, ay)
      BY <1>3, <2>2, <3>2
    <3> QED BY <3>1, <3>2
  <2>3. \A t \in Tilts : ~ gyro'.triggerd[t]
    BY <1>7, <2>1, <2>5
  <2>4. TiltKept'
    BY <1>5, <1>13, <2>1, <2>3 DEF TiltKept
  <2> QED BY <1>9, <1>10, <1>11, <1>13, <2>4 DEF BoardInv
<1>14. CASE started
  <2>1. \A t \in Tilts : t \in fired' <=> g.occured[t] /\ ~ g.triggerd[t]
    BY <1>2, <1>14
  <2>2. fired' \subseteq Tilts
    BY <1>2, <1>14
  <2>3. posture' = IF Leans(ax, ay) THEN L ELSE S
    BY <1>2, <1>14
  <2>4. ASSUME ~ Outweighed'
        PROVE  \A t \in Tilts : g.occured[t] <=> t = posture'
    <3>1. CASE Leans(ax, ay)
      <4>1. posture' = L
        BY <2>3, <3>1
      <4> QED BY <1>15, <3>1, <4>1
    <3>2. CASE ~ Leans(ax, ay)
      <4>1. posture' = S
        BY <2>3, <3>2
      <4>2. \A t \in Sideways : g.occured[t] <=> t = posture'
        BY <1>3, <3>2, <4>1
      <4>3. \A t \in {"forward", "back"} : t # posture' /\ ~ g.occured[t]
        BY <1>4, <1>12, <2>4, <4>1
      <4> QED BY <1>4, <4>2, <4>3
    <3> QED BY <3>1, <3>2
  <2>5. ASSUME ~ Outweighed'
        PROVE  \A t \in Tilts : g.triggerd[t] <=> gyro.triggerd[t] /\ t = posture'
    <3>1. CASE Leans(ax, ay)
      <4>1. posture' = L
        BY <2>3, <3>1
      <4> QED BY <1>15, <3>1, <4>1
    <3>2. CASE ~ Leans(ax, ay)
      <4>1. posture' = S
        BY <2>3, <3>2
      <4> QED BY <1>3, <1>4, <3>2, <4>1
    <3> QED BY <3>1, <3>2
  <2>6. TiltKept'
    <3>1. ASSUME ~ Outweighed'
          PROVE  \A t \in Tilts : gyro'.triggerd[t] <=> t = posture'
      BY <1>7, <2>1, <2>4, <2>5, <3>1
    <3> QED BY <1>5, <1>14, <3>1 DEF TiltKept
  <2>7. ASSUME ~ Outweighed, ~ Outweighed'
        PROVE  fired' = {posture'} \ {posture, "none"}
    <3>1. \A t \in Tilts : gyro.triggerd[t] <=> t = posture
      BY <1>5, <1>14, <2>7 DEF BoardInv, TiltKept
    <3>2. \A t \in Tilts : t \in fired' <=> t = posture' /\ t # posture
      BY <2>1, <2>4, <2>5, <2>7, <3>1
    <3>3. posture' \in Tilts \cup {"none"} /\ "none" \notin Tilts
      BY <1>4, <2>3
    <3> QED BY <2>2, <3>2, <3>3
  <2> QED BY <1>9, <1>10, <1>11, <2>6, <2>7 DEF BoardInv
<1> QED BY <1>13, <1>14 DEF BoardInv, BoardTypeOK

LEMMA StartStep ==
  ASSUME BoardInv, StartTrigger
  PROVE  BoardInv'
<1>1. /\ ~ started /\ started' = TRUE /\ fired' = {} /\ wait' = Waited
      /\ UNCHANGED <<sensor, now, last_tick, trigger_times, down, reports, missed>>
      /\ UNCHANGED <<levelVars, gyroVars, beat, restarts>>
  BY DEF StartTrigger, Waited
<1>2. Waited \in 0 .. Wrap - 1
  BY BoardAssumption DEF BoardInv, BoardTypeOK, Waited
<1>3. BoardTypeOK'
  BY <1>1, <1>2 DEF BoardInv, BoardTypeOK, levelVars, gyroVars
<1>4. MoreTypes' /\ LevelKept'
  BY <1>1 DEF BoardInv, MoreTypes, LevelKept, levelVars
<1>5. PressKept'
  BY <1>1 DEF BoardInv, PressKept, Waited, Elapsed
<1>6. TiltKept'
  <2>1. "none" \notin Tilts
    BY DEF Tilts
  <2> QED BY <1>1, <2>1 DEF BoardInv, TiltKept, gyroVars
<1> QED BY <1>3, <1>4, <1>5, <1>6 DEF BoardInv

LEMMA RestartStep ==
  ASSUME BoardInv, Restart
  PROVE  BoardInv'
<1>1. /\ started' = FALSE /\ eves' = <<>> /\ fired' = {} /\ wait' = Waited
      /\ restarts' = restarts + 1
      /\ gyro' = [gyro EXCEPT !.triggerd = AllOff(Tilts)]
      /\ armed' = AllOff(Ids) /\ stale' = AllOff(Ids) /\ posture' = "none"
      /\ UNCHANGED <<sensor, now, last_tick, trigger_times, down, reports, missed, edge, beat>>
  BY DEF Restart, Waited
<1>2. Waited \in 0 .. Wrap - 1
  BY BoardAssumption DEF BoardInv, BoardTypeOK, Waited
<1>3. /\ AllOff(Ids) \in [Ids -> BOOLEAN] /\ \A id \in Ids : ~ AllOff(Ids)[id]
      /\ AllOff(Tilts) \in Flags /\ \A t \in Tilts : ~ AllOff(Tilts)[t]
  BY DEF AllOff, Flags
<1>4. gyro \in [occured : Flags, triggerd : Flags]
  BY DEF BoardInv, BoardTypeOK, Flags
<1>5. /\ gyro' \in [occured : Flags, triggerd : Flags]
      /\ gyro'.occured = gyro.occured /\ gyro'.triggerd = AllOff(Tilts)
  BY <1>1, <1>3, <1>4
<1>6. BoardTypeOK'
  <2>1. Len(eves') <= CODEY_EVE_MAX_NUM
    BY <1>1, BoardAssumption, EmptySeq
  <2> QED BY <1>1, <1>2, <1>3, <1>5, <2>1 DEF BoardInv, BoardTypeOK, Flags
<1>7. MoreTypes'
  BY <1>1, EmptySeq DEF BoardInv, MoreTypes
<1>8. PressKept'
  BY <1>1 DEF BoardInv, PressKept, Waited, Elapsed
<1>9. LevelKept'
  BY <1>1, <1>3 DEF LevelKept
<1>10. TiltKept'
  BY <1>1, <1>3, <1>5 DEF TiltKept
<1> QED BY <1>6, <1>7, <1>8, <1>9, <1>10 DEF BoardInv

LEMMA BoardStep == BoardInv /\ [Next]_vars => BoardInv'
<1> SUFFICES ASSUME BoardInv, [Next]_vars PROVE BoardInv'
  OBVIOUS
<1>1. CASE UNCHANGED vars
  BY <1>1 DEF vars, buttonVars, levelVars, gyroVars, BoardInv, BoardTypeOK, MoreTypes,
              PressKept, Waited, Elapsed, LevelKept, TiltKept, Outweighed
<1> QED BY <1>1, ButtonStep, LevelStep, RegisterStep, GyroStep, StartStep, RestartStep
        DEF Next
-------------------------------------------------------------------------------
(***************************************************************************)
(* The static flags of the listeners keep their types, and tilts to        *)
(* opposite sides are never held together.                                 *)
(***************************************************************************)
THEOREM BoardTypes == Spec => []BoardTypeOK
<1>1. BoardInv => BoardTypeOK
  BY DEF BoardInv
<1> QED BY <1>1, BoardInit, BoardStep, PTL DEF Spec

(***************************************************************************)
(* Only a sample changes the beat, and it is one of the behaviour's sensor. *)
(***************************************************************************)
LEMMA SampleOnly ==
  ASSUME [Next]_vars, beat' # beat
  PROVE  \/ sensor = "button" /\ ButtonListening
         \/ sensor = "level" /\ LevelListening
         \/ sensor = "gyro" /\ GyroListening
BY DEF Next, vars, ButtonListening, LevelListening, GyroListening, Sampled, Register,
       StartTrigger, Restart

(***************************************************************************)
(* codey_button_board_event_listening reports a press exactly when it is   *)
(* due, for every width of millis(), every pair of intervals and every     *)
(* sampling: the static counters agree with what was really waited, also   *)
(* over an overflow of the clock and over restarts.                        *)
(***************************************************************************)
THEOREM BoardPressReports == Spec => PressReports
<1>1. ASSUME BoardInv, [Next]_vars, beat' # beat, sensor = "button", started, ~ missed
      PROVE  (fired' # {}) <=> Due
  BY <1>1, SampleOnly, ButtonStep
<1>2. BoardInv /\ [Next]_vars =>
        [ beat' # beat /\ sensor = "button" /\ started /\ ~ missed =>
            ((fired' # {}) <=> /\ down'
                               /\ \/ reports = 0
                                  \/ reports = 1 /\ wait' > SECOND_TRIGGER_INTERVAL
                                  \/ reports > 1 /\ wait' > THIRD_OVER_TRIGGER_INTERVAL) ]_vars
  BY <1>1 DEF Due
<1> QED BY <1>2, BoardInit, BoardStep, PTL DEF Spec, PressReports

(***************************************************************************)
(* codey_eve_trigger_check lets a light or sound event occur exactly when  *)
(* its level comes to the side it waits for, for every table, level and    *)
(* threshold.                                                              *)
(***************************************************************************)
THEOREM BoardLevelReports == Spec => LevelReports
<1>1. ASSUME BoardInv, [Next]_vars, beat' # beat, sensor = "level",
             Len(eves) < CODEY_EVE_MAX_NUM
      PROVE  \A id \in DOMAIN eves :
               ~ stale[id] => (id \in fired' <=> armed[id] /\ ~ armed'[id])
  BY <1>1, SampleOnly, LevelStep
<1>2. BoardInv /\ [Next]_vars =>
        [ beat' # beat /\ sensor = "level" /\ Len(eves) < CODEY_EVE_MAX_NUM =>
            \A id \in DOMAIN eves :
              ~ stale[id] => (id \in fired' <=> armed[id] /\ ~ armed'[id]) ]_vars
  BY <1>1
<1> QED BY <1>2, BoardInit, BoardStep, PTL DEF Spec, LevelReports

(***************************************************************************)
(* codey_gyro_board_event_listening_t triggers the tilt the board enters   *)
(* and no other, for every range and every acceleration.                   *)
(***************************************************************************)
THEOREM BoardTiltReports == Spec => TiltReports
<1>1. ASSUME BoardInv, [Next]_vars, beat' # beat, sensor = "gyro", started,
             ~ Outweighed, ~ Outweighed'
      PROVE  fired' = {posture'} \ {posture, "none"}
  BY <1>1, SampleOnly, GyroStep
<1>2. BoardInv /\ [Next]_vars =>
        [ beat' # beat /\ sensor = "gyro" /\ started /\ ~ Outweighed /\ ~ Outweighed' =>
            fired' = {posture'} \ {posture, "none"} ]_vars
  BY <1>1
<1> QED BY <1>2, BoardInit, BoardStep, PTL DEF Spec, TiltReports
===============================================================================
