----------------------------- MODULE LedDriver -----------------------------
(***************************************************************************)
(* my_kylin_led_driver.c: the kernel module behind /dev/kylin_led.  A      *)
(* write of a number switches or blinks the user LED (kylin) and takes the *)
(* power LED over meanwhile: off, its brightness saved once, given back    *)
(* later.  Writers are serialised by kylin_led_lock; other users of the    *)
(* power LED (sysfs, triggers) are not.                                    *)
(*                                                                         *)
(* A brightness is a number, 0 is off and Full is LED_FULL.  Every         *)
(* led_set_brightness is a step, so that other users come between.         *)
(* A writer keeps the file open, and so the module loaded (owner, 233).    *)
(***************************************************************************)
EXTENDS Integers

CONSTANTS Writers,
          Values,       \* the numbers written
          Full,         \* LED_FULL
          MaxBlink      \* the limit of 100

Nobody == "nobody"

ASSUME LedAssumption == /\ Values \subseteq Int /\ Full \in Nat \ {0} /\ MaxBlink \in Nat \ {0}
                        /\ Nobody \notin Writers

VARIABLES loaded,       \* "yes" between kylin_led_init and kylin_led_exit
          found,        \* "yes" when power_led is not NULL
          kylin,        \* brightness of the user LED
          power,        \* brightness of the power LED
          saved,        \* power_saved_brightness
          valid,        \* power_saved_valid, "yes" or "no"
          lock,         \* who holds kylin_led_lock
          pc,           \* where each writer stands
          value,        \* the number it writes
          blinks,       \* how often it has still to blink
          wanted,       \* history: what the others set the power LED to last
          disturbed     \* history: they did so during a takeover

ledVars == <<loaded, found, kylin, power, saved, valid, lock, pc, value, blinks, wanted, disturbed>>

LedInit == /\ loaded = "no" /\ found \in {"yes", "no"}
           /\ kylin = 0 /\ power = Full /\ saved = 0 /\ valid = "no"
           /\ lock = Nobody /\ pc = [w \in Writers |-> "idle"]
           /\ value = [w \in Writers |-> 0] /\ blinks = [w \in Writers |-> 0]
           /\ wanted = Full /\ disturbed = "no"
-----------------------------------------------------------------------------
(* Loading and unloading (246-309).  Without the user LED the module does not
   load. *)

Load == /\ loaded = "no"
        /\ loaded' = "yes"
        /\ found' \in {"yes", "no"}
        /\ UNCHANGED <<kylin, power, saved, valid, lock, pc, value, blinks, wanted, disturbed>>

\* kylin_power_led_restore_locked (135-143).
TakenOver == found = "yes" /\ valid = "yes"
Restore == /\ power' = IF TakenOver THEN saved ELSE power
           /\ valid' = IF TakenOver THEN "no" ELSE valid
           /\ disturbed' = IF TakenOver /\ saved = wanted THEN "no" ELSE disturbed

RestoredAtExit == Restore
Unload == /\ loaded = "yes"
          /\ \A w \in Writers : pc[w] = "idle"
          /\ loaded' = "no"
          /\ kylin' = 0
          /\ RestoredAtExit
          /\ UNCHANGED <<found, saved, lock, pc, value, blinks, wanted>>
-----------------------------------------------------------------------------
(* kylin_led_write (175-229).  Input that is empty, too long or not a number is
   turned away before the lock and changes nothing. *)

Write(w, v) == /\ loaded = "yes"
               /\ pc[w] = "idle"
               /\ value' = [value EXCEPT ![w] = v]
               /\ pc' = [pc EXCEPT ![w] = "lock"]
               /\ UNCHANGED <<loaded, found, kylin, power, saved, valid, lock, blinks, wanted,
                              disturbed>>

Lock(w) == /\ pc[w] = "lock"
           /\ lock = Nobody
           /\ lock' = w
           /\ pc' = [pc EXCEPT ![w] = "powerSave"]
           /\ UNCHANGED <<loaded, found, kylin, power, saved, valid, value, blinks, wanted,
                          disturbed>>

\* kylin_power_led_off_locked (116-130): saved only by the first of several.
SavesAlways == TRUE                                 \* slip: saved every time
SavesFirst == valid = "no"
PowerSave(w) == /\ pc[w] = "powerSave"
                /\ IF found = "yes"
                   THEN /\ saved' = IF SavesFirst THEN power ELSE saved
                        /\ valid' = "yes"
                        /\ pc' = [pc EXCEPT ![w] = "powerOff"]
                   ELSE /\ pc' = [pc EXCEPT ![w] = "set"]
                        /\ UNCHANGED <<saved, valid>>
                /\ UNCHANGED <<loaded, found, kylin, power, lock, value, blinks, wanted,
                               disturbed>>

PowerOff(w) == /\ pc[w] = "powerOff"
               /\ power' = 0
               /\ pc' = [pc EXCEPT ![w] = "set"]
               /\ UNCHANGED <<loaded, found, kylin, saved, valid, lock, value, blinks, wanted,
                              disturbed>>

\* value <= 0 (209-211).
SetOff(w) == /\ pc[w] = "set"
             /\ value[w] <= 0
             /\ kylin' = 0
             /\ pc' = [pc EXCEPT ![w] = "restore"]
             /\ UNCHANGED <<loaded, found, power, saved, valid, lock, value, blinks, wanted,
                            disturbed>>

\* value == 1 (212-213): the power LED stays off.
Restoring == "restore"                              \* slip: restore_power is set
NotRestoring == "unlock"
SetFull(w) == /\ pc[w] = "set"
              /\ value[w] = 1
              /\ kylin' = Full
              /\ pc' = [pc EXCEPT ![w] = NotRestoring]
              /\ UNCHANGED <<loaded, found, power, saved, valid, lock, value, blinks, wanted,
                             disturbed>>

\* Anything larger blinks, so often at most (214-217).
Limited(v) == IF v > MaxBlink THEN MaxBlink ELSE v
SetBlink(w) == /\ pc[w] = "set"
               /\ value[w] > 1
               /\ blinks' = [blinks EXCEPT ![w] = Limited(value[w])]
               /\ pc' = [pc EXCEPT ![w] = "on"]
               /\ UNCHANGED <<loaded, found, kylin, power, saved, valid, lock, value, wanted,
                              disturbed>>

\* kylin_do_blink_locked (149-165): on, wait, off, wait.
BlinkOn(w) == /\ pc[w] = "on"
              /\ kylin' = Full
              /\ pc' = [pc EXCEPT ![w] = "off"]
              /\ UNCHANGED <<loaded, found, power, saved, valid, lock, value, blinks, wanted,
                             disturbed>>

Counted(w) == blinks[w] - 1
BlinkOff(w) == /\ pc[w] = "off"
               /\ kylin' = 0
               /\ blinks' = [blinks EXCEPT ![w] = Counted(w)]
               /\ pc' = [pc EXCEPT ![w] = IF Counted(w) = 0 THEN "restore" ELSE "on"]
               /\ UNCHANGED <<loaded, found, power, saved, valid, lock, value, wanted,
                              disturbed>>

RestorePower(w) == /\ pc[w] = "restore"
                   /\ Restore
                   /\ pc' = [pc EXCEPT ![w] = "unlock"]
                   /\ UNCHANGED <<loaded, found, kylin, saved, lock, value, blinks, wanted>>

Unlock(w) == /\ pc[w] = "unlock"
             /\ lock' = Nobody
             /\ pc' = [pc EXCEPT ![w] = "idle"]
             /\ UNCHANGED <<loaded, found, kylin, power, saved, valid, value, blinks, wanted,
                            disturbed>>
-----------------------------------------------------------------------------
(* Anyone else sets the power LED (sysfs, a trigger). *)
OthersSet(b) == /\ power # b
                /\ power' = b
                /\ wanted' = b
                /\ disturbed' = IF TakenOver THEN "yes" ELSE "no"
                /\ UNCHANGED <<loaded, found, kylin, saved, valid, lock, pc, value, blinks>>
-----------------------------------------------------------------------------
Writing(w) == \/ PowerSave(w) \/ PowerOff(w) \/ SetOff(w) \/ SetFull(w)
              \/ SetBlink(w) \/ BlinkOn(w) \/ BlinkOff(w) \/ RestorePower(w) \/ Unlock(w)

LedNext == \/ Load \/ Unload
           \/ \E w \in Writers : (\E v \in Values : Write(w, v)) \/ Lock(w) \/ Writing(w)
           \/ \E b \in {0, Full} : OthersSet(b)

LedSpec == LedInit /\ [][LedNext]_ledVars
-----------------------------------------------------------------------------
Holding == {"powerSave", "powerOff", "set", "on", "off", "restore", "unlock"}

LedTypeOK == /\ loaded \in {"yes", "no"} /\ found \in {"yes", "no"} /\ valid \in {"yes", "no"}
             /\ kylin \in {0, Full} /\ power \in {0, Full} /\ saved \in {0, Full}
             /\ wanted \in {0, Full} /\ disturbed \in {"yes", "no"}
             /\ lock \in Writers \cup {Nobody}
             /\ pc \in [Writers -> Holding \cup {"idle", "lock"}]
             /\ value \in [Writers -> Int]
             /\ blinks \in [Writers -> 0..MaxBlink]

(* Between two writes the power LED is taken over exactly while the user LED is
   lit by a 1: it is never left off by a 0 or a blink, whatever ran before; and
   a 1 does take it (the comment at line 171 says that 1 does not touch it). *)
TakenOverOnlyWhileLit == lock = Nobody /\ found = "yes" /\ loaded = "yes" =>
                           (valid = "yes" <=> kylin = Full)

(* When the driver gives the power LED back, it shows what the others set it to
   before the takeover, through any sequence of writes: 1 after 1, a blink in
   the middle, an unload; unless the others interfered during the takeover. *)
PowerComesBack == lock = Nobody /\ valid = "no" /\ disturbed = "no" => power = wanted

(* The module leaves nothing behind: unloaded, the user LED is off and the power
   LED is not held. *)
UnloadedIsClean == loaded = "no" => kylin = 0 /\ valid = "no"
=============================================================================
