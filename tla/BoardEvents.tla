----------------------------- MODULE BoardEvents ------------------------------
(***************************************************************************)
(* When the sensors of the board trigger events: the listeners that        *)
(* codey_sensors_update_t calls every 10 ms with what a button, the light  *)
(* and the sound sensor and the gyroscope show.  A listener keeps its own  *)
(* static flags, so that one press, one crossing of a threshold or one     *)
(* tilt is one event; a restart of the script resets some of them          *)
(* (codey_eve_deinit_t) and not the others.                                *)
(*                                                                         *)
(* The listeners share only the start flag: a behaviour samples one of     *)
(* them, chosen at the start, and is the projection of the behaviour of    *)
(* all.  Each button has its own counters: one button is modelled.  What   *)
(* happens to an event once it is triggered is the module EventMechanism.  *)
(***************************************************************************)
EXTENDS Integers, Sequences

CONSTANTS
  CODEY_EVE_MAX_NUM,          \* 16 in the code
  Wrap,                       \* millis() counts modulo this; 2^32 in the code
  SECOND_TRIGGER_INTERVAL, THIRD_OVER_TRIGGER_INTERVAL,
  MaxGap,                     \* bound: ticks between two samples of the button
  Levels, Thresholds,         \* of light and sound
  Low, High, Accs,            \* the range of a tilt; accelerations ax and ay
  MaxRestarts                 \* bound

ASSUME BoardAssumption ==
  /\ CODEY_EVE_MAX_NUM \in Nat \ {0} /\ MaxGap \in Nat /\ MaxRestarts \in Nat
  /\ {Wrap, SECOND_TRIGGER_INTERVAL, THIRD_OVER_TRIGGER_INTERVAL} \subseteq Nat
  /\ Low \in Nat /\ High \in Nat
  /\ 0 < THIRD_OVER_TRIGGER_INTERVAL
  /\ THIRD_OVER_TRIGGER_INTERVAL < SECOND_TRIGGER_INTERVAL
  /\ SECOND_TRIGGER_INTERVAL + MaxGap < Wrap
  /\ Levels \subseteq Int /\ Thresholds \subseteq Int /\ Accs \subseteq Int
  /\ 0 < Low /\ Low <= High

VARIABLES
  sensor,                   \* the listener of this behaviour
  started,                  \* s_codey_eve_started
  now, last_tick, trigger_times,
  eves, edge,               \* light and sound events; light_sound_triggerd_flag
  gyro,                     \* event_occured_flag and s_codey_eve_triggerd of the tilts
  fired, beat,              \* the events the last sample triggered; samples, modulo 2
  restarts,
  \* What really happened, for the properties: the button and its press, the
  \* ticks since it was last reported, a release nobody listened to; whether an
  \* event may fire again, and whether a flag is an earlier script's; the tilt.
  down, reports, wait, missed, armed, stale, posture

buttonVars == <<now, last_tick, trigger_times, down, reports, wait, missed>>
levelVars == <<eves, edge, armed, stale>>
gyroVars == <<gyro, posture>>
vars == <<sensor, started, buttonVars, levelVars, gyroVars, fired, beat, restarts>>

Ids == 1 .. CODEY_EVE_MAX_NUM
Tilts == {"left", "right", "forward", "back"}
AllOff(S) == [x \in S |-> FALSE]

Init ==
  /\ sensor \in {"button", "level", "gyro"} /\ started = FALSE
  /\ now \in 0 .. Wrap - 1 /\ last_tick = 0 /\ trigger_times = 0
  /\ eves = <<>> /\ edge = AllOff(Ids)
  /\ gyro = [occured |-> AllOff(Tilts), triggerd |-> AllOff(Tilts)]
  /\ fired = {} /\ beat = 0 /\ restarts = 0
  /\ down = FALSE /\ reports = 0 /\ wait = 0 /\ missed = FALSE
  /\ armed = AllOff(Ids) /\ stale = AllOff(Ids) /\ posture = "none"

Sampled(s) == sensor = s /\ beat' = 1 - beat /\ UNCHANGED <<sensor, started, restarts>>

------------------------------------------------------------------------------
\* codey_button_board_event_listening

ElapsedUnwrapped(t) == t - last_tick    \* mutant: the difference is not modulo 2^32

Elapsed(t) == (t - last_tick) % Wrap

\* Is a press reported by this sample at tick t?  trigger_times counts the
\* reports of the press: only 0, 1 and more are told apart.
Reported(t) ==
  \/ trigger_times = 0
  \/ trigger_times = 1 /\ Elapsed(t) > SECOND_TRIGGER_INTERVAL
  \/ trigger_times > 1 /\ Elapsed(t) > THIRD_OVER_TRIGGER_INTERVAL

OneMore(n) == IF n < 2 THEN n + 1 ELSE 2

ButtonListening ==
  \E v \in BOOLEAN, d \in 0 .. MaxGap :
    LET t == (now + d) % Wrap
        since == (IF fired = {} THEN wait ELSE 0) + d
        report == started /\ v /\ Reported(t) IN
    /\ Sampled("button") /\ since < Wrap
    /\ now' = t
    /\ fired' = IF report THEN {"press"} ELSE {}
    /\ IF started
         THEN IF v THEN IF report THEN last_tick' = t /\ trigger_times' = OneMore(trigger_times)
                                  ELSE UNCHANGED <<last_tick, trigger_times>>
                   ELSE last_tick' = 0 /\ trigger_times' = 0
         ELSE UNCHANGED <<last_tick, trigger_times>>
    /\ down' = v /\ wait' = since
    /\ reports' = IF ~ v THEN 0 ELSE IF report THEN OneMore(reports) ELSE reports
    /\ missed' = (IF started THEN missed /\ v ELSE missed \/ (trigger_times > 0 /\ ~ v))
    /\ UNCHANGED <<levelVars, gyroVars>>

------------------------------------------------------------------------------
\* codey_light_sensor_event_listening and codey_sound_sensor_event_listening:
\* codey_eve_trigger_t of every registered event of the type, with the value.

Reached(id, v) == IF eves[id].type = "light" THEN eves[id].threshold > v ELSE eves[id].threshold < v

LeftAtEqual(id, v) ==    \* mutant: a sound that equals the threshold also clears the flag
  IF eves[id].type = "light" THEN eves[id].threshold <= v ELSE eves[id].threshold >= v

Left(id, v) == IF eves[id].type = "light" THEN eves[id].threshold <= v ELSE eves[id].threshold > v

\* codey_eve_trigger_check, of the events of type s at value v: those for which
\* it is true; the flags it sets and clears.
Checked(s) ==
  IF started /\ Len(eves) < CODEY_EVE_MAX_NUM
    THEN {id \in DOMAIN eves : eves[id].type = s} ELSE {}

LevelListening ==
  \E s \in {"light", "sound"}, v \in Levels :
    /\ Sampled("level")
    /\ fired' = {id \in Checked(s) : ~ edge[id] /\ Reached(id, v)}
    /\ edge' = [id \in Ids |->
                  id \in fired' \/ (edge[id] /\ ~ (id \in Checked(s) /\ Left(id, v)))]
    /\ armed' = [id \in Ids |->
                   IF ~ (started /\ id \in DOMAIN eves /\ eves[id].type = s) THEN armed[id]
                   ELSE IF s = "light" THEN v >= eves[id].threshold
                   ELSE v < eves[id].threshold \/ (v = eves[id].threshold /\ armed[id])]
    /\ stale' = [id \in Ids |-> stale[id] /\ edge'[id]]
    /\ UNCHANGED <<eves, buttonVars, gyroVars>>

\* codey_eve_register_t: the flag of the number is left as it is.
Register ==
  /\ sensor = "level" /\ Len(eves) < CODEY_EVE_MAX_NUM
  /\ \E s \in {"light", "sound"}, th \in Thresholds :
       eves' = Append(eves, [type |-> s, threshold |-> th])
  /\ armed' = [armed EXCEPT ![Len(eves')] = TRUE]
  /\ stale' = [stale EXCEPT ![Len(eves')] = edge[Len(eves')]]
  /\ fired' = {}
  /\ UNCHANGED <<sensor, started, buttonVars, edge, gyroVars, beat, restarts>>

------------------------------------------------------------------------------
\* codey_gyro_board_event_listening_t, the tilts

Abs(n) == IF n < 0 THEN - n ELSE n

Side(ay) == IF ay \in Low .. High THEN "left" ELSE IF - ay \in Low .. High THEN "right" ELSE "none"

Lean(ax) ==
  IF ax \in Low .. High THEN "forward" ELSE IF - ax \in Low .. High THEN "back" ELSE "none"

Sideways == {"left", "right"}

RolledKeepsOther(g, ay) ==    \* mutant: left does not clear right, nor right left
  [occured |-> [t \in Tilts |-> g.occured[t] \/ t = Side(ay)],
   triggerd |-> g.triggerd]

\* Left and right: the flags follow ay.
Rolled(g, ay) ==
  [occured |-> [t \in Tilts |-> IF t \in Sideways THEN t = Side(ay) ELSE g.occured[t]],
   triggerd |-> [t \in Tilts |-> g.triggerd[t] /\ (t \in Sideways => t = Side(ay))]]

PitchedKeepsSides(g, ax, ay) ==    \* mutant: a lean does not clear triggerd of left and right
  IF Lean(ax) # "none" /\ Abs(ax) >= Abs(ay)
    THEN [occured |-> [t \in Tilts |-> t = Lean(ax)],
          triggerd |-> [t \in Tilts |-> g.triggerd[t] /\ (t = Lean(ax) \/ t \in Sideways)]]
    ELSE [occured |-> [t \in Tilts |-> g.occured[t] /\ (Lean(ax) # "none" \/ t \in Sideways)],
          triggerd |-> [t \in Tilts |-> g.triggerd[t] /\ t \in Sideways]]

\* Forward and back: a lean that outweighs the side is the only tilt; one that
\* does not clears triggerd of forward and back and leaves occured as it was.
Pitched(g, ax, ay) ==
  IF Lean(ax) # "none" /\ Abs(ax) >= Abs(ay)
    THEN [occured |-> [t \in Tilts |-> t = Lean(ax)],
          triggerd |-> [t \in Tilts |-> g.triggerd[t] /\ t = Lean(ax)]]
    ELSE [occured |-> [t \in Tilts |-> g.occured[t] /\ (Lean(ax) # "none" \/ t \in Sideways)],
          triggerd |-> [t \in Tilts |-> g.triggerd[t] /\ t \in Sideways]]

\* The tilt of the board: the larger of the two, the lean if they are equal.
Posture(ax, ay) == IF Lean(ax) # "none" /\ Abs(ax) >= Abs(ay) THEN Lean(ax) ELSE Side(ay)

\* The flags are brought up to date also while no script listens.
GyroListening ==
  \E ax \in Accs, ay \in Accs :
    LET g == Pitched(Rolled(gyro, ay), ax, ay) IN
    /\ Sampled("gyro")
    /\ fired' = IF started THEN {t \in Tilts : g.occured[t] /\ ~ g.triggerd[t]} ELSE {}
    /\ gyro' = [g EXCEPT !.triggerd = [t \in Tilts |-> g.triggerd[t] \/ t \in fired']]
    /\ posture' = IF started THEN Posture(ax, ay) ELSE "none"
    /\ UNCHANGED <<buttonVars, levelVars>>

------------------------------------------------------------------------------
\* codey_event_start_trigger
StartTrigger ==
  /\ ~ started /\ started' = TRUE /\ fired' = {}
  /\ wait' = IF fired = {} THEN wait ELSE 0
  /\ UNCHANGED <<sensor, now, last_tick, trigger_times, down, reports, missed>>
  /\ UNCHANGED <<levelVars, gyroVars, beat, restarts>>

\* The next script: codey_eve_deinit_t.
Restart ==
  /\ started /\ restarts < MaxRestarts /\ restarts' = restarts + 1
  /\ started' = FALSE /\ eves' = <<>> /\ fired' = {}
  /\ gyro' = [gyro EXCEPT !.triggerd = AllOff(Tilts)]
  /\ wait' = (IF fired = {} THEN wait ELSE 0) /\ armed' = AllOff(Ids) /\ stale' = AllOff(Ids)
  /\ posture' = "none"
  /\ UNCHANGED <<sensor, now, last_tick, trigger_times, down, reports, missed, edge, beat>>

Next == ButtonListening \/ LevelListening \/ Register \/ GyroListening \/ StartTrigger \/ Restart

Spec == Init /\ [][Next]_vars

------------------------------------------------------------------------------
\* The type of the state.  Tilts to opposite sides are never held together.
BoardTypeOK ==
  /\ started \in BOOLEAN /\ {now, last_tick, wait} \subseteq 0 .. Wrap - 1
  /\ {trigger_times, reports} \subseteq 0 .. 2 /\ Len(eves) <= CODEY_EVE_MAX_NUM
  /\ {edge, armed, stale} \subseteq [Ids -> BOOLEAN]
  /\ gyro \in [occured : [Tilts -> BOOLEAN], triggerd : [Tilts -> BOOLEAN]]
  /\ ~ (gyro.occured["left"] /\ gyro.occured["right"])
  /\ ~ (gyro.occured["forward"] /\ gyro.occured["back"])

\* A press is reported by the first sample that sees it, again when the button
\* is held longer than SECOND_TRIGGER_INTERVAL, then each time it is held longer
\* than THIRD_OVER_TRIGGER_INTERVAL since the last report, and at no other time,
\* also when millis() overflows in between; except for a press whose button was
\* released, after an earlier report, while no script listened.
PressReports ==
  [][ beat' # beat /\ sensor = "button" /\ started /\ ~ missed =>
        ((fired' # {}) <=> /\ down'
                           /\ \/ reports = 0
                              \/ reports = 1 /\ wait' > SECOND_TRIGGER_INTERVAL
                              \/ reports > 1 /\ wait' > THIRD_OVER_TRIGGER_INTERVAL) ]_vars

\* A light or sound event occurs exactly when its level reaches the side of the
\* threshold it waits for, having been on the other side or not sampled since the
\* event was registered; while fewer than CODEY_EVE_MAX_NUM events are
\* registered, and unless the flag of its number was left set by an earlier script.
LevelReports ==
  [][ beat' # beat /\ sensor = "level" /\ Len(eves) < CODEY_EVE_MAX_NUM =>
        \A id \in DOMAIN eves :
          ~ stale[id] => (id \in fired' <=> armed[id] /\ ~ armed'[id]) ]_vars

\* A lean that is outweighed by the side and was held before.
Outweighed == \E t \in {"forward", "back"} : gyro.occured[t] /\ posture # t

\* A tilt event occurs exactly when the board enters the tilt, or is in it at the
\* first sample of a script; unless a forward or back tilt is still held by the
\* flags although the side outweighs it.
TiltReports ==
  [][ beat' # beat /\ sensor = "gyro" /\ started /\ ~ Outweighed /\ ~ Outweighed' =>
        fired' = {posture'} \ {posture, "none"} ]_vars
===============================================================================
