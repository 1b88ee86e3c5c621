----------------------------- MODULE StatusLed -----------------------------
(***************************************************************************)
(* main/status_led.c: led_set_state posts to a queue and never waits,      *)
(* led_task empties the queue, looks at the error override and shows one   *)
(* of the two. led_flash_error writes the override from core 1 while       *)
(* led_task, on core 0, reads and resets it, without a lock. Colours and   *)
(* animation, and the blink that is mixed in for traffic, are left out.    *)
(***************************************************************************)
EXTENDS Naturals, Sequences

CONSTANTS
  LedStates,     \* led_state_t
  LedBoot,       \* LED_STATE_BOOT, the state at power-on
  LedBusOff,     \* LED_STATE_BUS_OFF, also what led_flash_error shows
  QLedCap        \* depth of q_led_cmd (8)

ASSUME LedConstants ==
  /\ {LedBoot, LedBusOff} \subseteq LedStates
  /\ QLedCap \in Nat \ {0}

VARIABLES
  led,           \* led_task: pc, current is g_current_state, override says that g_override
                 \* holds an error, live that g_override_until_us is not over
  q_led_cmd,
  asked          \* history: the last led_set_state (state, kept: it found room);
                 \* err, that led_flash_error was called and its time is not over;
                 \* raced, that led_task was between its look at the override and its
                 \* reset while led_flash_error was between its two stores

ledVars == <<led, q_led_cmd, asked>>

LedInit ==
  /\ led = [pc |-> "delay", current |-> LedBoot, override |-> FALSE, live |-> FALSE]
  /\ q_led_cmd = <<>>
  /\ asked = [state |-> LedBoot, kept |-> TRUE, err |-> FALSE, raced |-> FALSE]

-----------------------------------------------------------------------------
(* What other tasks call. led_flash_error is two stores. *)

LedSetState(s) ==
  /\ q_led_cmd' = IF Len(q_led_cmd) < QLedCap THEN Append(q_led_cmd, s) ELSE q_led_cmd
  /\ asked' = [asked EXCEPT !.state = s, !.kept = Len(q_led_cmd) < QLedCap]
  /\ UNCHANGED led

Deciding == led.pc \in {"until", "reset"}

LedStoreOverride ==
  /\ led' = [led EXCEPT !.override = TRUE]
  /\ asked' = [asked EXCEPT !.err = FALSE, !.raced = Deciding]
  /\ UNCHANGED q_led_cmd

LedStoreUntil ==
  /\ led' = [led EXCEPT !.live = TRUE]
  /\ asked' = [asked EXCEPT !.err = TRUE, !.raced = @ \/ Deciding]
  /\ UNCHANGED q_led_cmd

-----------------------------------------------------------------------------
(* led_task, from the end of its delay. It shows the error when it finds the override  *)
(* live, and otherwise resets it and shows the state. storing says that led_flash_error *)
(* is between its stores.                                                              *)

\* The command that wins among those queued: the last.
WinnerMutant(q) == q[1]         \* mutant: the queue is not emptied in order
Winner(q) == q[Len(q)]

LedDrain ==
  /\ led.pc = "delay"
  /\ led' = [led EXCEPT !.pc = "override",
                        !.current = IF q_led_cmd = <<>> THEN @ ELSE Winner(q_led_cmd)]
  /\ q_led_cmd' = <<>>
  /\ UNCHANGED asked

LedReadOverride(storing) ==
  /\ led.pc = "override"
  /\ led' = [led EXCEPT !.pc = IF led.override THEN "until" ELSE "reset"]
  /\ asked' = [asked EXCEPT !.raced = @ \/ storing]
  /\ UNCHANGED q_led_cmd

\* g_override_until_us has two words: during its store either result may be read.
LedReadUntil(storing) ==
  \E live \in {led.live} \cup (IF storing THEN BOOLEAN ELSE {}) :
    /\ led.pc = "until"
    /\ led' = [led EXCEPT !.pc = IF live THEN "delay" ELSE "reset"]
    /\ UNCHANGED <<q_led_cmd, asked>>

LedReset ==
  /\ led.pc = "reset"
  /\ led' = [led EXCEPT !.pc = "delay", !.override = FALSE]
  /\ UNCHANGED <<q_led_cmd, asked>>

\* The 600 ms of led_flash_error are over.
ErrorTimeOver ==
  /\ led.live
  /\ led' = [led EXCEPT !.live = FALSE]
  /\ asked' = [asked EXCEPT !.err = FALSE]
  /\ UNCHANGED q_led_cmd

LedTask(storing) ==
  \/ LedDrain \/ LedReadOverride(storing) \/ LedReadUntil(storing) \/ LedReset

-----------------------------------------------------------------------------
(* Properties *)

LedTypeOK ==
  /\ led \in [pc : {"delay", "override", "until", "reset"}, current : LedStates,
              override : BOOLEAN, live : BOOLEAN]
  /\ q_led_cmd \in Seq(LedStates) /\ Len(q_led_cmd) <= QLedCap
  /\ asked \in [state : LedStates, kept : BOOLEAN, err : BOOLEAN, raced : BOOLEAN]

\* With no command waiting, the state of the LED is the last one any task set, unless the
\* queue was full then (led_set_state, led_task). status_led.h:23-24 says otherwise: that of
\* two active states the one of higher priority wins ("vince quello con priorità più alta").
LastStateWins == q_led_cmd = <<>> /\ asked.kept => led.current = asked.state

\* An error reported by led_flash_error is still to be shown until its 600 ms are over:
\* led_task resets the override only if the two met between their stores.
ErrorNotErased == asked.err /\ ~asked.raced => led.override

\* The LED tells what happened last: both of the above (led_set_state,
\* led_flash_error, led_task).
LedTells == LastStateWins /\ ErrorNotErased
=============================================================================
