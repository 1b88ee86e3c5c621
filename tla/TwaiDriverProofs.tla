------------------------- MODULE TwaiDriverProofs -------------------------
(***************************************************************************)
(* The LED and the frames of TwaiDriver, for queues of any depth and any   *)
(* number of frames.                                                       *)
(***************************************************************************)
EXTENDS TwaiDriver, SequenceTheorems, TLAPS

LEMMA Caps ==
  /\ MaxFrames \in Nat /\ DrvCap \in Nat \ {0}
  /\ QTxCap \in Nat \ {0} /\ QRxCap \in Nat \ {0} /\ QMonCap \in Nat \ {0}
  /\ LedBoot \in LedStates /\ LedBusOff \in LedStates /\ QLedCap \in Nat \ {0}
BY TwaiConstants, LedConstants

-----------------------------------------------------------------------------
(* The LED. LedTells is kept because the last command queued is the last one set,  *)
(* an error whose time is not over has its deadline stored, and led_task resets    *)
(* the override only where the two have met.                                        *)

LedInv ==
  /\ asked.kept => IF q_led_cmd = <<>> THEN led.current = asked.state
                   ELSE q_led_cmd[Len(q_led_cmd)] = asked.state
  /\ asked.err => led.live
  /\ Storing => ~asked.err /\ (asked.raced \/ (led.override /\ ~Deciding))
  /\ asked.err /\ ~asked.raced => led.override /\ led.pc # "reset"

LEMMA LedInitInv == Init => LedTypeOK /\ LedInv
<1> SUFFICES ASSUME Init PROVE LedTypeOK /\ LedInv
  OBVIOUS
<1>1. led \in [pc : {"delay", "override", "until", "reset"}, current : LedStates,
               override : BOOLEAN, live : BOOLEAN]
  BY Caps DEF Init, LedInit
<1>2. asked \in [state : LedStates, kept : BOOLEAN, err : BOOLEAN, raced : BOOLEAN]
  BY Caps DEF Init, LedInit
<1>3. LedInv
  BY DEF Init, LedInit, LedInv, Storing
<1> QED
  BY <1>1, <1>2, <1>3, Caps DEF Init, LedInit, LedTypeOK

\* A task that sets the LED.
LEMMA LedSetStateInv ==
  ASSUME LedTypeOK, LedInv, NEW s \in LedStates, LedSetState(s), Storing' = Storing
  PROVE  LedTypeOK' /\ LedInv'
<1>1. led' = led
  BY DEF LedSetState
<1>0. PICK k \in BOOLEAN : /\ k <=> Len(q_led_cmd) < QLedCap
                           /\ asked' = [asked EXCEPT !.state = s, !.kept = k]
  <2> WITNESS (Len(q_led_cmd) < QLedCap) \in BOOLEAN
  <2> QED
    BY DEF LedSetState
<1>2. asked' \in [state : LedStates, kept : BOOLEAN, err : BOOLEAN, raced : BOOLEAN]
  BY <1>0 DEF LedTypeOK
<1>3. /\ asked'.state = s /\ (asked'.kept <=> Len(q_led_cmd) < QLedCap)
      /\ asked'.err = asked.err /\ asked'.raced = asked.raced
  BY DEF LedSetState, LedTypeOK
<1>4. CASE Len(q_led_cmd) < QLedCap
  <2>1. q_led_cmd' = Append(q_led_cmd, s)
    BY <1>4 DEF LedSetState
  <2>2. /\ q_led_cmd' \in Seq(LedStates) /\ Len(q_led_cmd') = Len(q_led_cmd) + 1
        /\ q_led_cmd' # <<>> /\ q_led_cmd'[Len(q_led_cmd')] = s
    BY <2>1, AppendProperties DEF LedTypeOK
  <2> QED
    BY <1>1, <1>2, <1>3, <1>4, <2>2, Caps DEF LedTypeOK, LedInv, Storing, Deciding
<1>5. CASE ~(Len(q_led_cmd) < QLedCap)
  <2>1. q_led_cmd' = q_led_cmd
    BY <1>5 DEF LedSetState
  <2> QED
    BY <1>1, <1>2, <1>3, <1>5, <2>1 DEF LedTypeOK, LedInv, Storing, Deciding
<1> QED
  BY <1>4, <1>5

\* led_flash_error, store by store.
LEMMA LedFlashErrorInv ==
  ASSUME LedTypeOK, LedInv, FlashError
  PROVE  LedTypeOK' /\ LedInv'
<1>1. q_led_cmd' = q_led_cmd
  BY DEF FlashError, LedStoreOverride, LedStoreUntil
<1>2. CASE task.pc = "override" /\ LedStoreOverride /\ task' = [task EXCEPT !.pc = "until"]
  <2>1. led' \in [pc : {"delay", "override", "until", "reset"}, current : LedStates,
                  override : BOOLEAN, live : BOOLEAN]
    BY <1>2 DEF LedStoreOverride, LedTypeOK
  <2>2. /\ led'.pc = led.pc /\ led'.current = led.current /\ led'.override
        /\ led'.live = led.live
    BY <1>2 DEF LedStoreOverride, LedTypeOK
  <2>3. PICK d \in BOOLEAN : /\ d <=> Deciding
                             /\ asked' = [asked EXCEPT !.err = FALSE, !.raced = d]
    <3> WITNESS (led.pc \in {"until", "reset"}) \in BOOLEAN
    <3> QED
      BY <1>2 DEF LedStoreOverride, Deciding
  <2>4. asked' \in [state : LedStates, kept : BOOLEAN, err : BOOLEAN, raced : BOOLEAN]
    BY <2>3 DEF LedTypeOK
  <2>5. /\ asked'.state = asked.state /\ asked'.kept = asked.kept
        /\ ~asked'.err /\ (asked'.raced <=> Deciding)
    BY <2>3 DEF LedTypeOK
  <2>6. LedTypeOK'
    BY <1>1, <2>1, <2>4 DEF LedTypeOK
  <2>7. Deciding' <=> Deciding
    BY <2>2 DEF Deciding
  <2>8. asked'.kept => IF q_led_cmd' = <<>> THEN led'.current = asked'.state
                       ELSE q_led_cmd'[Len(q_led_cmd')] = asked'.state
    BY <1>1, <2>2, <2>5 DEF LedInv
  <2>9. CASE Deciding
    <3>1. asked'.raced
      BY <2>5, <2>9
    <3> QED
      BY <2>5, <2>6, <2>8, <3>1 DEF LedInv, Storing, Deciding
  <2>10. CASE ~Deciding
    <3>1. ~Deciding'
      BY <2>7, <2>10
    <3> QED
      BY <2>2, <2>5, <2>6, <2>8, <3>1 DEF LedInv
  <2> QED
    BY <2>9, <2>10
<1>3. CASE task.pc = "until" /\ LedStoreUntil /\ task' = [task EXCEPT !.pc = "rx"]
  <2>1. led' \in [pc : {"delay", "override", "until", "reset"}, current : LedStates,
                  override : BOOLEAN, live : BOOLEAN]
    BY <1>3 DEF LedStoreUntil, LedTypeOK
  <2>2. /\ led'.pc = led.pc /\ led'.current = led.current /\ led'.override = led.override
        /\ led'.live
    BY <1>3 DEF LedStoreUntil, LedTypeOK
  <2>3. asked' \in [state : LedStates, kept : BOOLEAN, err : BOOLEAN, raced : BOOLEAN]
    BY <1>3 DEF LedStoreUntil, LedTypeOK, Deciding
  <2>4. /\ asked'.state = asked.state /\ asked'.kept = asked.kept
        /\ asked'.err /\ (asked'.raced <=> asked.raced \/ Deciding)
    BY <1>3 DEF LedStoreUntil, LedTypeOK, Deciding
  <2>5. ~Storing'
    BY <1>3 DEF Storing
  <2> QED
    BY <1>1, <1>3, <2>1, <2>2, <2>3, <2>4, <2>5 DEF LedTypeOK, LedInv, Storing, Deciding
<1> QED
  BY <1>2, <1>3 DEF FlashError

\* led_task, and the end of the error's time.
LEMMA LedRunsInv ==
  ASSUME LedTypeOK, LedInv, LedTask(Storing) \/ ErrorTimeOver, task' = task
  PROVE  LedTypeOK' /\ LedInv'
<1> DEFINE LedType == [pc : {"delay", "override", "until", "reset"}, current : LedStates,
                       override : BOOLEAN, live : BOOLEAN]
<1>1. CASE LedDrain
  <2>1. asked' = asked /\ q_led_cmd' = <<>>
    BY <1>1 DEF LedDrain
  <2>2. q_led_cmd # <<>> => q_led_cmd[Len(q_led_cmd)] \in LedStates
    BY DEF LedTypeOK
  <2>3. led' \in LedType
    BY <1>1, <2>2 DEF LedDrain, LedTypeOK, Winner
  <2>4. /\ led'.pc = "override" /\ led'.override = led.override /\ led'.live = led.live
        /\ led'.current = IF q_led_cmd = <<>> THEN led.current ELSE q_led_cmd[Len(q_led_cmd)]
    BY <1>1 DEF LedDrain, LedTypeOK, Winner
  <2>5. LedTypeOK'
    BY <2>1, <2>3, Caps DEF LedTypeOK
  <2> QED
    BY <1>1, <2>1, <2>4, <2>5 DEF LedDrain, LedTypeOK, LedInv, Storing, Deciding
<1>2. CASE LedReadOverride(Storing)
  <2>1. q_led_cmd' = q_led_cmd
    BY <1>2 DEF LedReadOverride
  <2>2. led' \in LedType
    BY <1>2 DEF LedReadOverride, LedTypeOK
  <2>3. /\ led'.pc = (IF led.override THEN "until" ELSE "reset")
        /\ led'.current = led.current /\ led'.override = led.override /\ led'.live = led.live
    BY <1>2 DEF LedReadOverride, LedTypeOK
  <2>4. asked' \in [state : LedStates, kept : BOOLEAN, err : BOOLEAN, raced : BOOLEAN]
    BY <1>2 DEF LedReadOverride, LedTypeOK, Storing
  <2>5. /\ asked'.state = asked.state /\ asked'.kept = asked.kept /\ asked'.err = asked.err
        /\ (asked'.raced <=> asked.raced \/ Storing)
    BY <1>2 DEF LedReadOverride, LedTypeOK, Storing
  <2>6. LedTypeOK'
    BY <2>1, <2>2, <2>4 DEF LedTypeOK
  <2>7. Storing' <=> Storing
    BY DEF Storing
  <2>8. LedInv'
    <3>1. asked'.kept => IF q_led_cmd' = <<>> THEN led'.current = asked'.state
                         ELSE q_led_cmd'[Len(q_led_cmd')] = asked'.state
      BY <2>1, <2>3, <2>5 DEF LedInv
    <3>2. asked'.err => led'.live
      BY <2>3, <2>5 DEF LedInv
    <3>3. Storing' => ~asked'.err /\ asked'.raced
      BY <2>5, <2>7 DEF LedInv
    <3>4. asked'.err /\ ~asked'.raced => led'.override /\ led'.pc # "reset"
      BY <2>3, <2>5 DEF LedInv
    <3> QED
      BY <3>1, <3>2, <3>3, <3>4 DEF LedInv, Storing, Deciding
  <2> QED
    BY <2>6, <2>8
<1>3. CASE LedReadUntil(Storing)
  <2>1. q_led_cmd' = q_led_cmd /\ asked' = asked
    BY <1>3 DEF LedReadUntil
  <2>2. PICK live \in {led.live} \cup (IF Storing THEN BOOLEAN ELSE {}) :
          led' = [led EXCEPT !.pc = IF live THEN "delay" ELSE "reset"]
    BY <1>3 DEF LedReadUntil
  <2>3. led' \in LedType
    BY <2>2 DEF LedTypeOK
  <2>4. /\ led'.pc \in {"delay", "reset"} /\ (~Storing /\ led.live => led'.pc = "delay")
        /\ led'.current = led.current /\ led'.override = led.override /\ led'.live = led.live
    BY <2>2 DEF LedTypeOK
  <2>5. led.pc = "until"
    BY <1>3 DEF LedReadUntil
  <2>6. LedTypeOK'
    BY <2>1, <2>3 DEF LedTypeOK
  <2> QED
    BY <2>1, <2>4, <2>5, <2>6 DEF LedTypeOK, LedInv, Storing, Deciding
<1>4. CASE LedReset
  <2>1. q_led_cmd' = q_led_cmd /\ asked' = asked /\ led.pc = "reset"
    BY <1>4 DEF LedReset
  <2>2. led' \in LedType
    BY <1>4 DEF LedReset, LedTypeOK
  <2>3. led'.pc = "delay" /\ led'.current = led.current /\ led'.live = led.live
    BY <1>4 DEF LedReset, LedTypeOK
  <2>4. LedTypeOK'
    BY <2>1, <2>2 DEF LedTypeOK
  <2> QED
    BY <2>1, <2>3, <2>4 DEF LedTypeOK, LedInv, Storing, Deciding
<1>5. CASE ErrorTimeOver
  <2>1. q_led_cmd' = q_led_cmd
    BY <1>5 DEF ErrorTimeOver
  <2>2. led' \in LedType
    BY <1>5 DEF ErrorTimeOver, LedTypeOK
  <2>3. led'.pc = led.pc /\ led'.current = led.current /\ led'.override = led.override
    BY <1>5 DEF ErrorTimeOver, LedTypeOK
  <2>4. asked' \in [state : LedStates, kept : BOOLEAN, err : BOOLEAN, raced : BOOLEAN]
    BY <1>5 DEF ErrorTimeOver, LedTypeOK
  <2>5. /\ asked'.state = asked.state /\ asked'.kept = asked.kept /\ ~asked'.err
        /\ asked'.raced = asked.raced
    BY <1>5 DEF ErrorTimeOver, LedTypeOK
  <2>6. LedTypeOK'
    BY <2>1, <2>2, <2>4 DEF LedTypeOK
  <2> QED
    BY <2>1, <2>3, <2>5, <2>6 DEF LedTypeOK, LedInv, Storing, Deciding
<1> QED
  BY <1>1, <1>2, <1>3, <1>4, <1>5 DEF LedTask

-----------------------------------------------------------------------------
(* Sequences of frames in the order they were made. *)

Frames == 1..MaxFrames
Inc(s) == \A i, j \in DOMAIN s : i < j => s[i] < s[j]

\* The provers reason better about concatenation when they do not see it.
Cat(s, t) == s \o t

LEMMA CatType ==
  ASSUME NEW s \in Seq(Frames), NEW t \in Seq(Frames)
  PROVE  Cat(s, t) \in Seq(Frames)
BY ConcatProperties DEF Cat

LEMMA CatEmpty ==
  ASSUME NEW s \in Seq(Frames)
  PROVE  Cat(s, <<>>) = s /\ Cat(<<>>, s) = s
BY ConcatEmptySeq DEF Cat

LEMMA Assoc ==
  ASSUME NEW p \in Seq(Frames), NEW q \in Seq(Frames), NEW r \in Seq(Frames)
  PROVE  Cat(Cat(p, q), r) = Cat(p, Cat(q, r))
BY ConcatAssociative DEF Cat

LEMMA HeadAndTail ==
  ASSUME NEW s \in Seq(Frames), s # <<>>
  PROVE  /\ Head(s) \in Frames /\ Tail(s) \in Seq(Frames)
         /\ s = Cat(<<Head(s)>>, Tail(s)) /\ Len(s) = Len(Tail(s)) + 1
<1>1. /\ Head(s) \in Frames /\ Tail(s) \in Seq(Frames) /\ Len(Tail(s)) = Len(s) - 1
      /\ Len(s) \in Nat /\ Len(s) # 0 /\ Head(s) = s[1]
      /\ \A i \in 1..Len(Tail(s)) : Tail(s)[i] = s[i + 1]
  BY HeadTailProperties, LenProperties, EmptySeq
<1>2. <<Head(s)>> \in Seq(Frames)
  BY <1>1
<1>3. /\ <<Head(s)>> \o Tail(s) \in Seq(Frames) /\ Len(<<Head(s)>> \o Tail(s)) = Len(s)
      /\ \A i \in 1..Len(s) : (<<Head(s)>> \o Tail(s))[i] = s[i]
  BY <1>1, <1>2, ConcatProperties
<1> QED
  BY <1>1, <1>3, SeqEqual DEF Cat

LEMMA Assoc4 ==
  ASSUME NEW a \in Seq(Frames), NEW b \in Seq(Frames), NEW c \in Seq(Frames),
         NEW d \in Seq(Frames)
  PROVE  Cat(Cat(Cat(a, b), c), d) = Cat(a, Cat(b, Cat(c, d)))
BY CatType, Assoc

LEMMA Assoc5 ==
  ASSUME NEW a \in Seq(Frames), NEW h \in Seq(Frames), NEW t \in Seq(Frames),
         NEW c \in Seq(Frames), NEW d \in Seq(Frames)
  PROVE  /\ Cat(t, Cat(c, d)) \in Seq(Frames)
         /\ Cat(Cat(Cat(a, Cat(h, t)), c), d) = Cat(Cat(a, h), Cat(t, Cat(c, d)))
         /\ Cat(Cat(Cat(a, t), c), d) = Cat(a, Cat(t, Cat(c, d)))
<1>1. Cat(c, d) \in Seq(Frames) /\ Cat(h, t) \in Seq(Frames) /\ Cat(a, h) \in Seq(Frames)
  BY CatType
<1>2. Cat(t, Cat(c, d)) \in Seq(Frames)
  BY <1>1, CatType
<1>3. Cat(Cat(Cat(a, t), c), d) = Cat(a, Cat(t, Cat(c, d)))
  BY Assoc4
<1>4. Cat(Cat(Cat(Cat(a, h), t), c), d) = Cat(Cat(a, h), Cat(t, Cat(c, d)))
  BY <1>1, Assoc4
<1>5. Cat(a, Cat(h, t)) = Cat(Cat(a, h), t)
  BY Assoc
<1> QED
  BY <1>2, <1>3, <1>4, <1>5

LEMMA AppendFrame ==
  ASSUME NEW s \in Seq(Frames), NEW n \in Frames
  PROVE  /\ Append(s, n) \in Seq(Frames) /\ Len(Append(s, n)) = Len(s) + 1
         /\ Append(s, n) = Cat(s, <<n>>) /\ <<n>> \in Seq(Frames)
BY AppendProperties, ConcatProperties, SeqEqual, LenProperties DEF Cat

\* What is left when frames in the middle are lost.
LEMMA Dropped ==
  ASSUME NEW p \in Seq(Frames), NEW q \in Seq(Frames), NEW r \in Seq(Frames),
         Inc(Cat(Cat(p, q), r))
  PROVE  Inc(Cat(p, r)) /\ InSeq(Cat(p, r)) \subseteq InSeq(Cat(Cat(p, q), r))
<1> DEFINE all == (p \o q) \o r
           at(i) == IF i <= Len(p) THEN i ELSE i + Len(q)
<1>1. Len(p) \in Nat /\ Len(q) \in Nat /\ Len(r) \in Nat
  BY LenProperties
<1>2. /\ p \o q \in Seq(Frames) /\ Len(p \o q) = Len(p) + Len(q)
      /\ \A i \in 1..Len(p) + Len(q) :
           (p \o q)[i] = IF i <= Len(p) THEN p[i] ELSE q[i - Len(p)]
  BY ConcatProperties
<1>3. /\ all \in Seq(Frames) /\ Len(all) = Len(p) + Len(q) + Len(r)
      /\ \A i \in 1..Len(p) + Len(q) + Len(r) :
           all[i] = IF i <= Len(p) + Len(q) THEN (p \o q)[i] ELSE r[i - (Len(p) + Len(q))]
  BY <1>2, ConcatProperties
<1>4. /\ p \o r \in Seq(Frames) /\ Len(p \o r) = Len(p) + Len(r)
      /\ \A i \in 1..Len(p) + Len(r) :
           (p \o r)[i] = IF i <= Len(p) THEN p[i] ELSE r[i - Len(p)]
  BY ConcatProperties
<1>5. DOMAIN all = 1..Len(p) + Len(q) + Len(r) /\ DOMAIN (p \o r) = 1..Len(p) + Len(r)
  BY <1>3, <1>4, LenProperties
<1>6. \A i \in DOMAIN (p \o r) : at(i) \in DOMAIN all /\ (p \o r)[i] = all[at(i)]
  <2> TAKE i \in DOMAIN (p \o r)
  <2>1. CASE i <= Len(p)
    BY <1>1, <1>2, <1>3, <1>4, <1>5, <2>1
  <2>2. CASE i > Len(p)
    <3>1. /\ i + Len(q) \in DOMAIN all /\ i + Len(q) > Len(p) + Len(q)
          /\ i + Len(q) - (Len(p) + Len(q)) = i - Len(p)
      BY <1>1, <1>5, <2>2
    <3>2. all[i + Len(q)] = r[i - Len(p)]
      BY <1>3, <1>5, <3>1
    <3> QED
      BY <1>4, <1>5, <2>2, <3>1, <3>2
  <2> QED
    BY <1>1, <1>5, <2>1, <2>2
<1>7. \A i, j \in DOMAIN (p \o r) : i < j => at(i) < at(j)
  BY <1>1, <1>5
<1>8. Inc(p \o r)
  BY <1>6, <1>7 DEF Inc, Cat
<1>9. InSeq(p \o r) \subseteq InSeq(all)
  BY <1>6 DEF InSeq
<1> QED
  BY <1>8, <1>9 DEF Cat

\* One more frame, made after all the others.
LEMMA Added ==
  ASSUME NEW s \in Seq(Frames), NEW n \in Nat, n + 1 \in Frames, Inc(s),
         InSeq(s) \subseteq 1..n
  PROVE  Inc(Append(s, n + 1)) /\ InSeq(Append(s, n + 1)) = InSeq(s) \cup {n + 1}
<1>1. /\ Len(s) \in Nat /\ DOMAIN s = 1..Len(s)
      /\ DOMAIN Append(s, n + 1) = 1..(Len(s) + 1)
      /\ Append(s, n + 1)[Len(s) + 1] = n + 1
      /\ \A i \in 1..Len(s) : Append(s, n + 1)[i] = s[i]
  BY AppendProperties, LenProperties
<1>2. \A i \in 1..Len(s) : s[i] \in 1..n
  BY <1>1 DEF InSeq
<1>3. Inc(Append(s, n + 1))
  BY <1>1, <1>2 DEF Inc
<1>4. InSeq(Append(s, n + 1)) = InSeq(s) \cup {n + 1}
  BY <1>1 DEF InSeq
<1> QED
  BY <1>3, <1>4

-----------------------------------------------------------------------------
(* The frames on their way. The inductive invariant speaks of the whole sequence:   *)
(* a step moves a border in it, removes a frame from the middle, or adds one.       *)

Held == IF task.frame = 0 THEN <<>> ELSE <<task.frame>>
OnWay == Cat(Cat(Cat(bus, drv.tx), Held), q_twai_tx)

DrvType == [state : {"running", "bus_off", "recovering", "stopped"},
            tx : Seq(Frames), rx : 0..DrvCap, alert : BOOLEAN]
TaskType == [pc : {"tx", "transmit", "override", "until", "rx", "alerts"},
             frame : 0..MaxFrames]

QueuesOK ==
  /\ drv \in DrvType /\ Len(drv.tx) <= DrvCap
  /\ task \in TaskType /\ (task.frame # 0 <=> task.pc = "transmit")
  /\ q_twai_tx \in Seq(Frames) /\ Len(q_twai_tx) <= QTxCap
  /\ q_twai_rx \in 0..QRxCap /\ q_can_monitor \in 0..QMonCap
  /\ busError \in BOOLEAN /\ made \in 0..MaxFrames /\ bus \in Seq(Frames)

WayInv ==
  /\ Inc(OnWay) /\ InSeq(OnWay) \subseteq 1..made
  /\ InSeq(OnWay) = 1..made \/ busError \/ drv.alert

IInv == LedTypeOK /\ LedInv /\ QueuesOK /\ WayInv

LEMMA HeldType == ASSUME QueuesOK PROVE Held \in Seq(Frames)
<1>1. task.frame \in 0..MaxFrames /\ MaxFrames \in Nat
  BY Caps DEF QueuesOK, TaskType
<1>2. CASE task.frame = 0
  BY <1>2, EmptySeq DEF Held
<1>3. CASE task.frame # 0
  <2>1. task.frame \in Frames
    BY <1>1, <1>3 DEF Frames
  <2> QED
    BY <1>3, <2>1 DEF Held
<1> QED
  BY <1>2, <1>3

\* A step that leaves the sequence as it is.
LEMMA WaySame ==
  ASSUME WayInv, OnWay' = OnWay, made' = made, busError => busError',
         drv.alert => drv'.alert \/ busError'
  PROVE  WayInv'
BY DEF WayInv, Inc, InSeq

\* A step that drops frames from the middle of it, and tells.
LEMMA WayLoses ==
  ASSUME QueuesOK, WayInv, made' = made, busError' \/ drv'.alert,
         NEW p \in Seq(Frames), NEW q \in Seq(Frames), NEW r \in Seq(Frames),
         OnWay = Cat(Cat(p, q), r), OnWay' = Cat(p, r)
  PROVE  WayInv'
<1>1. Inc(Cat(Cat(p, q), r)) /\ InSeq(Cat(Cat(p, q), r)) \subseteq 1..made
  BY DEF WayInv
<1>2. Inc(Cat(p, r)) /\ InSeq(Cat(p, r)) \subseteq InSeq(Cat(Cat(p, q), r))
  BY <1>1, Dropped
<1>3. Inc(OnWay') /\ InSeq(OnWay') \subseteq 1..made'
  BY <1>1, <1>2
<1> QED
  BY <1>3 DEF WayInv, Inc, InSeq

LEMMA TakeFrameInv ==
  ASSUME QueuesOK, WayInv, TakeFrame PROVE QueuesOK' /\ WayInv'
<1>1. task.pc = "tx" /\ task.frame = 0 /\ Held = <<>>
  BY DEF TakeFrame, QueuesOK, Held
<1>2. CASE q_twai_tx = <<>>
  <2>1. task' = [task EXCEPT !.pc = "rx"] /\ q_twai_tx' = q_twai_tx
    BY <1>2 DEF TakeFrame
  <2>2. task' \in TaskType /\ task'.frame = 0 /\ task'.pc = "rx"
    BY <1>1, <2>1 DEF QueuesOK, TaskType
  <2>3. OnWay' = OnWay
    BY <1>1, <2>1, <2>2 DEF OnWay, Held, TakeFrame
  <2>4. WayInv'
    BY <2>3, WaySame DEF TakeFrame
  <2> QED
    BY <2>1, <2>2, <2>4 DEF QueuesOK, TakeFrame
<1>3. CASE q_twai_tx # <<>>
  <2>1. task' = [pc |-> "transmit", frame |-> Head(q_twai_tx)] /\ q_twai_tx' = Tail(q_twai_tx)
    BY <1>3 DEF TakeFrame
  <2>2. /\ Head(q_twai_tx) \in Frames /\ Tail(q_twai_tx) \in Seq(Frames)
        /\ q_twai_tx = Cat(<<Head(q_twai_tx)>>, Tail(q_twai_tx))
        /\ Len(q_twai_tx) = Len(Tail(q_twai_tx)) + 1
    BY <1>3, HeadAndTail DEF QueuesOK
  <2>3. Head(q_twai_tx) \in 0..MaxFrames /\ Head(q_twai_tx) # 0
    BY <2>2, Caps DEF Frames
  <2>4. task' \in TaskType /\ task'.frame # 0 /\ task'.pc = "transmit"
    BY <2>1, <2>3 DEF TaskType
  <2>5. Len(q_twai_tx') <= QTxCap
    BY <2>1, <2>2, Caps, LenProperties DEF QueuesOK
  <2>6. Held' = <<Head(q_twai_tx)>> /\ Held' \in Seq(Frames)
    BY <2>1, <2>2, <2>3 DEF Held
  <2>7. bus \in Seq(Frames) /\ drv.tx \in Seq(Frames) /\ Cat(bus, drv.tx) \in Seq(Frames)
    BY CatType DEF QueuesOK, DrvType
  <2>8. OnWay' = Cat(Cat(Cat(bus, drv.tx), Held'), Tail(q_twai_tx))
    BY <2>1 DEF OnWay, TakeFrame
  <2>9. OnWay = Cat(Cat(bus, drv.tx), q_twai_tx)
    BY <1>1, <2>7, CatEmpty DEF OnWay
  <2>10. OnWay' = OnWay
    <3>1. Cat(Cat(Cat(bus, drv.tx), Held'), Tail(q_twai_tx))
            = Cat(Cat(bus, drv.tx), Cat(Held', Tail(q_twai_tx)))
      BY <2>2, <2>6, <2>7, Assoc
    <3> QED
      BY <2>2, <2>6, <2>8, <2>9, <3>1
  <2>11. WayInv'
    BY <2>10, WaySame DEF TakeFrame
  <2> QED
    BY <2>1, <2>2, <2>4, <2>5, <2>11 DEF QueuesOK, TakeFrame
<1> QED
  BY <1>2, <1>3

LEMMA TransmitInv ==
  ASSUME QueuesOK, WayInv, Transmit PROVE QueuesOK' /\ WayInv'
<1>1. /\ task.pc = "transmit" /\ task.frame \in 0..MaxFrames /\ task.frame # 0
      /\ MaxFrames \in Nat
  BY Caps DEF Transmit, QueuesOK, TaskType
<1>2. task.frame \in Frames /\ Held = <<task.frame>> /\ Held \in Seq(Frames)
  BY <1>1 DEF Frames, Held
<1>3. /\ Append(drv.tx, task.frame) \in Seq(Frames)
      /\ Len(Append(drv.tx, task.frame)) = Len(drv.tx) + 1
      /\ Append(drv.tx, task.frame) = Cat(drv.tx, Held)
  BY <1>2, AppendFrame DEF QueuesOK, DrvType
<1>4. drv' \in DrvType /\ drv'.tx = Append(drv.tx, task.frame) /\ drv'.alert = drv.alert
  BY <1>3 DEF Transmit, QueuesOK, DrvType
<1>5. Len(drv'.tx) <= DrvCap
  BY <1>3, <1>4, Caps, LenProperties DEF Transmit, QueuesOK, DrvType
<1>6. task' \in TaskType /\ task'.frame = 0 /\ task'.pc = "rx" /\ Held' = <<>>
  BY <1>1 DEF Transmit, TaskType, Held
<1>7. q_can_monitor' \in 0..QMonCap
  BY Caps DEF Transmit, Into, QueuesOK
<1>8. OnWay' = Cat(Cat(Cat(bus, Cat(drv.tx, Held)), <<>>), q_twai_tx)
  BY <1>3, <1>4, <1>6 DEF OnWay, Transmit
<1>9. bus \in Seq(Frames) /\ drv.tx \in Seq(Frames) /\ Cat(bus, Cat(drv.tx, Held)) \in Seq(Frames)
  BY <1>2, CatType DEF QueuesOK, DrvType
<1>10. OnWay' = OnWay
  <2>1. Cat(Cat(bus, Cat(drv.tx, Held)), <<>>) = Cat(bus, Cat(drv.tx, Held))
    BY <1>9, CatEmpty
  <2>2. Cat(bus, Cat(drv.tx, Held)) = Cat(Cat(bus, drv.tx), Held)
    BY <1>2, <1>9, Assoc
  <2> QED
    BY <1>8, <2>1, <2>2 DEF OnWay
<1>11. WayInv'
  BY <1>4, <1>10, WaySame DEF Transmit
<1> QED
  BY <1>4, <1>5, <1>6, <1>7, <1>11 DEF QueuesOK, Transmit

LEMMA TransmitFailsInv ==
  ASSUME QueuesOK, WayInv, TransmitFails PROVE QueuesOK' /\ WayInv'
<1>1. task' \in TaskType /\ task'.frame = 0 /\ task'.pc = "override" /\ Held' = <<>>
  BY Caps DEF TransmitFails, TaskType, Held
<1>2. busError'
  BY DEF TransmitFails, FlagError
<1>3. Held \in Seq(Frames) /\ bus \in Seq(Frames) /\ drv.tx \in Seq(Frames)
  BY HeldType DEF QueuesOK, DrvType
<1>4. Cat(bus, drv.tx) \in Seq(Frames)
  BY <1>3, CatType
<1>5. OnWay' = Cat(Cat(bus, drv.tx), q_twai_tx)
  BY <1>1, <1>4, CatEmpty DEF OnWay, TransmitFails
<1>6. WayInv'
  BY <1>2, <1>3, <1>4, <1>5, WayLoses DEF OnWay, QueuesOK, TransmitFails
<1> QED
  BY <1>1, <1>2, <1>6 DEF QueuesOK, TransmitFails, FlagError

LEMMA FrameSentInv ==
  ASSUME QueuesOK, WayInv, FrameSent PROVE QueuesOK' /\ WayInv'
<1>1. /\ bus \in Seq(Frames) /\ drv.tx \in Seq(Frames) /\ drv.tx # <<>>
  BY DEF QueuesOK, DrvType, FrameSent
<1>2. /\ Head(drv.tx) \in Frames /\ Tail(drv.tx) \in Seq(Frames)
      /\ drv.tx = Cat(<<Head(drv.tx)>>, Tail(drv.tx)) /\ Len(drv.tx) = Len(Tail(drv.tx)) + 1
  BY <1>1, HeadAndTail
<1>3. drv' \in DrvType /\ drv'.tx = Tail(drv.tx) /\ drv'.alert = drv.alert
  BY <1>2 DEF FrameSent, QueuesOK, DrvType
<1>4. Len(drv'.tx) <= DrvCap
  BY <1>2, <1>3, Caps, LenProperties DEF QueuesOK
<1>5. /\ bus' \in Seq(Frames) /\ bus' = Cat(bus, <<Head(drv.tx)>>)
      /\ <<Head(drv.tx)>> \in Seq(Frames)
  BY <1>1, <1>2, AppendFrame DEF FrameSent
<1>6. Cat(bus', drv'.tx) = Cat(bus, drv.tx)
  <2>1. Cat(Cat(bus, <<Head(drv.tx)>>), Tail(drv.tx)) = Cat(bus, Cat(<<Head(drv.tx)>>, Tail(drv.tx)))
    BY <1>1, <1>2, <1>5, Assoc
  <2> QED
    BY <1>2, <1>3, <1>5, <2>1
<1>7. OnWay' = OnWay
  BY <1>6 DEF OnWay, Held, FrameSent
<1>8. WayInv'
  BY <1>3, <1>7, WaySame DEF FrameSent
<1> QED
  BY <1>3, <1>4, <1>5, <1>8 DEF QueuesOK, FrameSent

LEMMA BusOffInv ==
  ASSUME QueuesOK, WayInv, BusOff PROVE QueuesOK' /\ WayInv'
<1>1. /\ bus \in Seq(Frames) /\ drv.tx \in Seq(Frames) /\ Held \in Seq(Frames)
      /\ q_twai_tx \in Seq(Frames)
  BY HeldType DEF QueuesOK, DrvType
<1>2. CASE drv.tx = <<>>
  <2>1. drv' \in DrvType /\ drv'.tx = drv.tx /\ drv'.alert
    BY <1>2 DEF BusOff, QueuesOK, DrvType
  <2>2. OnWay' = OnWay
    BY <2>1 DEF OnWay, Held, BusOff
  <2>3. WayInv'
    BY <2>1, <2>2, WaySame DEF BusOff
  <2> QED
    BY <2>1, <2>3 DEF QueuesOK, BusOff
<1>3. CASE drv.tx # <<>>
  <2>1. /\ Head(drv.tx) \in Frames /\ Tail(drv.tx) \in Seq(Frames)
        /\ drv.tx = Cat(<<Head(drv.tx)>>, Tail(drv.tx)) /\ Len(drv.tx) = Len(Tail(drv.tx)) + 1
        /\ <<Head(drv.tx)>> \in Seq(Frames)
    BY <1>1, <1>3, HeadAndTail
  <2>2. drv' \in DrvType /\ drv'.tx = Tail(drv.tx) /\ drv'.alert
    BY <1>3, <2>1 DEF BusOff, QueuesOK, DrvType
  <2>3. Len(drv'.tx) <= DrvCap
    BY <2>1, <2>2, Caps, LenProperties DEF QueuesOK
  <2>4. PICK h \in Seq(Frames), t \in Seq(Frames) : drv.tx = Cat(h, t) /\ t = drv'.tx
    BY <2>1, <2>2
  <2>5. /\ OnWay = Cat(Cat(Cat(bus, Cat(h, t)), Held), q_twai_tx)
        /\ OnWay' = Cat(Cat(Cat(bus, t), Held), q_twai_tx)
    BY <2>4 DEF OnWay, Held, BusOff
  <2> DEFINE r == Cat(t, Cat(Held, q_twai_tx))
  <2>6. r \in Seq(Frames) /\ OnWay = Cat(Cat(bus, h), r) /\ OnWay' = Cat(bus, r)
    BY <1>1, <2>5, Assoc5
  <2>7. WayInv'
    <3>1. made' = made /\ (busError' \/ drv'.alert)
      BY <2>2 DEF BusOff
    <3> HIDE DEF r
    <3> QED
      BY <1>1, <2>6, <3>1, WayLoses
  <2> QED
    BY <2>2, <2>3, <2>7 DEF QueuesOK, BusOff
<1> QED
  BY <1>2, <1>3

LEMMA ReadAlertsInv ==
  ASSUME QueuesOK, WayInv, ReadAlerts PROVE QueuesOK' /\ WayInv'
<1>1. /\ bus \in Seq(Frames) /\ drv.tx \in Seq(Frames) /\ Held \in Seq(Frames)
      /\ q_twai_tx \in Seq(Frames)
  BY HeldType DEF QueuesOK, DrvType
<1>2. task' \in TaskType /\ task'.frame = task.frame /\ task'.pc = "tx" /\ Held' = Held
      /\ task.pc = "alerts"
  BY DEF ReadAlerts, QueuesOK, TaskType, Held
<1>3. CASE ~drv.alert
  <2>1. drv' = drv /\ busError' = busError
    BY <1>3 DEF ReadAlerts
  <2>2. OnWay' = OnWay
    BY <1>2, <2>1 DEF OnWay, ReadAlerts
  <2>3. WayInv'
    BY <2>1, <2>2, WaySame DEF ReadAlerts
  <2> QED
    BY <1>2, <2>1, <2>3 DEF QueuesOK, ReadAlerts
<1>4. CASE drv.alert
  <2>0. drv' = [drv EXCEPT !.alert = FALSE, !.state = "recovering", !.tx = <<>>]
        /\ busError' = TRUE
    BY <1>4 DEF ReadAlerts
  <2>1. drv' \in DrvType /\ drv'.tx = <<>> /\ busError' /\ busError' \in BOOLEAN
    <3>1. <<>> \in Seq(Frames)
      BY EmptySeq
    <3> QED
      BY <2>0, <3>1 DEF QueuesOK, DrvType
  <2>2. Len(drv'.tx) <= DrvCap
    BY <2>1, Caps
  <2>3. Cat(Held, q_twai_tx) \in Seq(Frames) /\ Cat(bus, drv.tx) \in Seq(Frames)
    BY <1>1, CatType
  <2>4. OnWay = Cat(Cat(bus, drv.tx), Cat(Held, q_twai_tx))
    BY <1>1, <2>3, Assoc DEF OnWay
  <2>5. OnWay' = Cat(bus, Cat(Held, q_twai_tx))
    <3>1. Cat(bus, <<>>) = bus
      BY <1>1, CatEmpty
    <3>2. OnWay' = Cat(Cat(bus, Held), q_twai_tx)
      BY <1>2, <2>1, <3>1 DEF OnWay, ReadAlerts
    <3> QED
      BY <1>1, <3>2, Assoc
  <2>6. WayInv'
    BY <1>1, <2>1, <2>3, <2>4, <2>5, WayLoses DEF ReadAlerts
  <2> QED
    BY <1>2, <2>1, <2>2, <2>6 DEF QueuesOK, ReadAlerts
<1> QED
  BY <1>3, <1>4

LEMMA IsotpSendsInv ==
  ASSUME QueuesOK, WayInv, IsotpSends PROVE QueuesOK' /\ WayInv'
<1>1. /\ bus \in Seq(Frames) /\ drv.tx \in Seq(Frames) /\ Held \in Seq(Frames)
      /\ q_twai_tx \in Seq(Frames)
  BY HeldType DEF QueuesOK, DrvType
<1>2. made \in Nat /\ made + 1 \in Frames /\ made' = made + 1 /\ made' \in 0..MaxFrames
  BY Caps DEF IsotpSends, QueuesOK, Frames
<1>3. /\ q_twai_tx' \in Seq(Frames) /\ Len(q_twai_tx') = Len(q_twai_tx) + 1
      /\ q_twai_tx' = Cat(q_twai_tx, <<made + 1>>) /\ <<made + 1>> \in Seq(Frames)
  BY <1>1, <1>2, AppendFrame DEF IsotpSends
<1>4. Len(q_twai_tx') <= QTxCap
  BY <1>1, <1>3, Caps, LenProperties DEF IsotpSends
<1>5. Cat(Cat(bus, drv.tx), Held) \in Seq(Frames) /\ OnWay \in Seq(Frames)
  BY <1>1, CatType DEF OnWay
<1>6. OnWay' = Append(OnWay, made + 1)
  <2>1. OnWay' = Cat(Cat(Cat(bus, drv.tx), Held), Cat(q_twai_tx, <<made + 1>>))
    BY <1>3 DEF OnWay, Held, IsotpSends
  <2> DEFINE start == Cat(Cat(bus, drv.tx), Held)
             new == <<made + 1>>
  <2> HIDE DEF start, new
  <2>2. start \in Seq(Frames) /\ new \in Seq(Frames)
    BY <1>3, <1>5 DEF start, new
  <2>3. Cat(Cat(start, q_twai_tx), new) = Cat(start, Cat(q_twai_tx, new))
    BY <1>1, <2>2, Assoc
  <2>4. Cat(OnWay, <<made + 1>>)
          = Cat(Cat(Cat(bus, drv.tx), Held), Cat(q_twai_tx, <<made + 1>>))
    BY <2>3 DEF OnWay, start, new
  <2> QED
    BY <1>2, <1>5, <2>1, <2>4, AppendFrame
<1>7. Inc(OnWay) /\ InSeq(OnWay) \subseteq 1..made
  BY DEF WayInv
<1>8. Inc(Append(OnWay, made + 1)) /\ InSeq(Append(OnWay, made + 1)) = InSeq(OnWay) \cup {made + 1}
  BY <1>2, <1>5, <1>7, Added
<1>9. 1..made' = 1..made \cup {made + 1}
  BY <1>2
<1>10. Inc(OnWay') /\ InSeq(OnWay') = InSeq(OnWay) \cup {made + 1}
  BY <1>6, <1>8
<1>11. busError' = busError /\ drv' = drv
  BY DEF IsotpSends
<1>12. WayInv'
  BY <1>7, <1>9, <1>10, <1>11 DEF WayInv, Inc, InSeq
<1> QED
  BY <1>2, <1>3, <1>4, <1>12 DEF QueuesOK, IsotpSends

\* The steps that no frame of ours takes part in.
LEMMA OtherStepsInv ==
  ASSUME QueuesOK, WayInv,
         FlashError \/ Receive \/ Recovered \/ FrameArrives \/ OthersTake \/ OthersSetLed
           \/ LedRuns
  PROVE  QueuesOK' /\ WayInv'
<1>1. /\ q_twai_tx' = q_twai_tx /\ busError' = busError /\ made' = made /\ bus' = bus
  BY DEF FlashError, Receive, Recovered, FrameArrives, OthersTake, OthersSetLed, LedRuns
<1>2. /\ drv' \in DrvType /\ drv'.tx = drv.tx /\ drv'.alert = drv.alert
  <2>1. CASE Receive
    BY <2>1, Caps DEF Receive, QueuesOK, DrvType
  <2>2. CASE Recovered
    BY <2>2 DEF Recovered, QueuesOK, DrvType
  <2>3. CASE FrameArrives
    <3>1. drv.rx \in 0..DrvCap /\ drv.rx < DrvCap /\ drv' = [drv EXCEPT !.rx = @ + 1]
      BY <2>3 DEF FrameArrives, QueuesOK, DrvType
    <3>2. drv.rx + 1 \in 0..DrvCap
      BY <3>1, Caps
    <3> QED
      BY <3>1, <3>2 DEF QueuesOK, DrvType
  <2> QED
    BY <2>1, <2>2, <2>3 DEF FlashError, OthersTake, OthersSetLed, LedRuns, QueuesOK
<1>3. /\ task' \in TaskType /\ task'.frame = task.frame
      /\ task'.pc = "transmit" <=> task.pc = "transmit"
  BY DEF FlashError, Receive, Recovered, FrameArrives, OthersTake, OthersSetLed, LedRuns,
         QueuesOK, TaskType
<1>4. q_twai_rx' \in 0..QRxCap /\ q_can_monitor' \in 0..QMonCap
  <2>1. CASE Receive
    BY <2>1, Caps DEF Receive, QueuesOK, Into
  <2>2. CASE OthersTake
    BY <2>2, Caps DEF OthersTake, QueuesOK
  <2> QED
    BY <2>1, <2>2 DEF FlashError, Recovered, FrameArrives, OthersSetLed, LedRuns, QueuesOK
<1>5. OnWay' = OnWay
  BY <1>1, <1>2, <1>3 DEF OnWay, Held
<1>6. WayInv'
  BY <1>1, <1>2, <1>5, WaySame
<1> QED
  BY <1>1, <1>2, <1>3, <1>4, <1>6 DEF QueuesOK

-----------------------------------------------------------------------------
(* The LED is touched by five of the actions, and twai_task is between the stores of *)
(* led_flash_error only inside FlashError.                                            *)

LEMMA LedStep ==
  ASSUME IInv, Next PROVE LedTypeOK' /\ LedInv'
<1> USE DEF IInv
<1>1. CASE FlashError
  BY <1>1, LedFlashErrorInv
<1>2. CASE LedRuns
  BY <1>2, LedRunsInv DEF LedRuns
<1>3. CASE OthersSetLed
  <2>1. PICK s \in LedStates : LedSetState(s)
    BY <1>3 DEF OthersSetLed
  <2>2. Storing' = Storing
    BY <1>3 DEF OthersSetLed, Storing
  <2> QED
    BY <2>1, <2>2, LedSetStateInv
<1>4. CASE ReadAlerts /\ drv.alert
  <2>1. LedSetState(LedBusOff) /\ LedBusOff \in LedStates
    BY <1>4, Caps DEF ReadAlerts
  <2>2. Storing' = Storing
    BY <1>4 DEF ReadAlerts, Storing, QueuesOK, TaskType
  <2> QED
    BY <2>1, <2>2, LedSetStateInv
<1>5. CASE \/ TakeFrame \/ Transmit \/ TransmitFails \/ Receive \/ (ReadAlerts /\ ~drv.alert)
           \/ FrameSent \/ BusOff \/ Recovered \/ FrameArrives \/ IsotpSends \/ OthersTake
  <2>1. led' = led /\ q_led_cmd' = q_led_cmd /\ asked' = asked
    BY <1>5 DEF TakeFrame, Transmit, TransmitFails, Receive, ReadAlerts, FrameSent, BusOff,
                Recovered, FrameArrives, IsotpSends, OthersTake, ledVars
  <2>2. Storing' <=> Storing
    BY <1>5 DEF TakeFrame, Transmit, TransmitFails, Receive, ReadAlerts, FrameSent, BusOff,
                Recovered, FrameArrives, IsotpSends, OthersTake, Storing, QueuesOK, TaskType
  <2> QED
    BY <2>1, <2>2 DEF LedTypeOK, LedInv, Storing, Deciding
<1> QED
  BY <1>1, <1>2, <1>3, <1>4, <1>5 DEF Next, TwaiTask

LEMMA InitIInv == Init => IInv
<1> SUFFICES ASSUME Init PROVE IInv
  OBVIOUS
<1>1. LedTypeOK /\ LedInv
  BY LedInitInv
<1>2. QueuesOK
  <2>1. <<>> \in Seq(Frames) /\ Len(<<>>) = 0
    BY EmptySeq
  <2>2. drv \in DrvType /\ Len(drv.tx) <= DrvCap
    BY <2>1, Caps DEF Init, DrvType
  <2>3. task \in TaskType /\ task.frame = 0 /\ task.pc = "tx"
    BY Caps DEF Init, TaskType
  <2>4. q_twai_tx \in Seq(Frames) /\ Len(q_twai_tx) <= QTxCap /\ bus \in Seq(Frames)
    BY <2>1, Caps DEF Init
  <2>5. q_twai_rx \in 0..QRxCap /\ q_can_monitor \in 0..QMonCap /\ made \in 0..MaxFrames
    BY Caps DEF Init
  <2> QED
    BY <2>2, <2>3, <2>4, <2>5 DEF Init, QueuesOK
<1>3. OnWay = <<>>
  BY CatEmpty, EmptySeq DEF Init, OnWay, Held
<1>4. WayInv
  BY <1>3 DEF Init, WayInv, Inc, InSeq
<1> QED
  BY <1>1, <1>2, <1>4 DEF IInv

\* The invariant of the gateway's side of the bus and of its LED is inductive.
THEOREM InductiveInv == Spec => []IInv
<1>1. IInv /\ Next => IInv'
  <2> SUFFICES ASSUME IInv, Next PROVE IInv'
    OBVIOUS
  <2>1. LedTypeOK' /\ LedInv'
    BY LedStep
  <2>2. QueuesOK' /\ WayInv'
    BY TakeFrameInv, TransmitInv, TransmitFailsInv, FrameSentInv, BusOffInv, ReadAlertsInv,
       IsotpSendsInv, OtherStepsInv DEF IInv, Next, TwaiTask
  <2> QED
    BY <2>1, <2>2 DEF IInv
<1>2. IInv /\ UNCHANGED vars => IInv'
  <2> SUFFICES ASSUME IInv, UNCHANGED vars PROVE IInv'
    OBVIOUS
  <2>1. LedTypeOK' /\ LedInv'
    BY DEF vars, IInv, LedTypeOK, LedInv, Storing, Deciding
  <2>2. QueuesOK'
    BY DEF vars, IInv, QueuesOK
  <2>3. WayInv'
    <3>1. OnWay' = OnWay
      BY DEF vars, OnWay, Held
    <3> QED
      BY <3>1, WaySame DEF vars, IInv
  <2> QED
    BY <2>1, <2>2, <2>3 DEF IInv
<1> QED
  BY InitIInv, <1>1, <1>2, PTL DEF Spec

\* Every variable of twai_task, its queues and led_task keeps its type.
THEOREM TypeCorrect == Spec => []TypeOK
<1>1. IInv => TypeOK
  BY DEF IInv, QueuesOK, TypeOK, DrvType, TaskType, Frames
<1> QED
  BY InductiveInv, <1>1, PTL

\* No frame of isotp_task is lost on its way to the bus without EVT_BUS_ERROR or the alert
\* that sets it, and none overtakes another (twai_task).
THEOREM NoSilentLoss == Spec => []FramesAccounted
<1>1. IInv => FramesAccounted
  BY DEF IInv, WayInv, FramesAccounted, OnWay, Held, Cat, Inc
<1> QED
  BY InductiveInv, <1>1, PTL

\* The LED shows the last state that found room in its queue, and an error until its time
\* is over (led_task against led_set_state and led_flash_error).
THEOREM LedTellsAlways == Spec => []LedTells
<1>1. IInv => LedTells
  BY DEF IInv, LedInv, LedTells, LastStateWins, ErrorNotErased
<1> QED
  BY InductiveInv, <1>1, PTL
=============================================================================
