------------------------------- MODULE Timers -------------------------------
(***************************************************************************)
(* Espfc::Utils::Timer (Utils/Timer.cpp), the two ways in which the        *)
(* firmware decides that a piece of work is due: by the clock (check) and  *)
(* by the count of another timer's ticks (syncTo).  Clock readings are     *)
(* 32-bit numbers of microseconds; here they run modulo ClockMod.          *)
(***************************************************************************)
EXTENDS Integers

CONSTANT ClockMod
ASSUME ClockAssumption == ClockMod \in Nat /\ ClockMod > 0

(* Timer::check with an interval, Timer::update.  next is compared as a     *)
(* number, not as a difference.                                             *)
Due(next, now) == now >= next
Rearm(now, interval) == (now + interval) % ClockMod

(* Timer::syncTo: the slot is clamped to the last one of denom.             *)
(* (Slot_Unclamped: a mutant.)                                              *)
Slot_Unclamped(slot, denom) == slot
Slot(slot, denom) == IF slot > denom - 1 THEN denom - 1 ELSE slot
Synced(iteration, denom, slot) == iteration % denom = Slot(slot, denom)
=============================================================================
