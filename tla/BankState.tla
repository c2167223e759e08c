----------------------------- MODULE BankState -----------------------------
(***************************************************************************)
(* The per-bank record the memory controller keeps in bankStates[r][b]    *)
(* (BankState.h/.cpp of DRAMSim2, which is not part of this repository's  *)
(* sources; modelled from spec.md section 3 and 4.2).                      *)
(*                                                                         *)
(* Time is kept RELATIVE to the current clock cycle: a "not-before" field  *)
(* such as nextActivate holds max(0, nextActivate - currentClockCycle).    *)
(* The code only ever compares currentClockCycle >= nextX and assigns      *)
(* max(currentClockCycle + k, nextX), currentClockCycle + k, or another    *)
(* nextY, and all of these are preserved by the shift; the clock itself   *)
(* is never compared with anything else, so the model needs no absolute   *)
(* clock and stays finite.                                                 *)
(***************************************************************************)
EXTENDS Naturals

\* currentBankState values
Idle        == "Idle"
RowActive   == "RowActive"
Precharging == "Precharging"
Refreshing  == "Refreshing"
PowerDown   == "PowerDown"
BankStateKinds == {Idle, RowActive, Precharging, Refreshing, PowerDown}

\* BusPacketType values
ACTIVATE  == "ACTIVATE"
READ      == "READ"
READ_P    == "READ_P"
WRITE     == "WRITE"
WRITE_P   == "WRITE_P"
PRECHARGE == "PRECHARGE"
REFRESH   == "REFRESH"
DATA      == "DATA"
CommandKinds == {ACTIVATE, READ, READ_P, WRITE, WRITE_P, PRECHARGE, REFRESH}
ColumnKinds  == {READ, READ_P, WRITE, WRITE_P}
ReadKinds    == {READ, READ_P}
WriteKinds   == {WRITE, WRITE_P}

\* The set of bank records whose timers do not exceed maxDelay cycles.
BankRec(Rows, maxDelay) ==
  [ currentBankState : BankStateKinds,
    lastCommand      : CommandKinds,
    openRowAddress   : Rows,
    stateChangeCountdown : 0..maxDelay,
    nextRead : 0..maxDelay, nextWrite : 0..maxDelay,
    nextActivate : 0..maxDelay, nextPrecharge : 0..maxDelay,
    nextPowerUp : 0..maxDelay ]

\* BankState::BankState: Idle, lastCommand READ, row 0, all timers 0.
InitBank(row0) ==
  [ currentBankState |-> Idle, lastCommand |-> READ, openRowAddress |-> row0,
    stateChangeCountdown |-> 0,
    nextRead |-> 0, nextWrite |-> 0, nextActivate |-> 0, nextPrecharge |-> 0,
    nextPowerUp |-> 0 ]

\* max(currentClockCycle + k, next) in the relative frame.
NotBefore(k, next) == IF k > next THEN k ELSE next

\* currentClockCycle >= next
Reached(next) == next = 0

\* The shift of every timer when currentClockCycle advances by one.
Elapse(t) == IF t > 0 THEN t - 1 ELSE 0

ElapseBank(b) ==
  [ b EXCEPT !.nextRead = Elapse(@), !.nextWrite = Elapse(@),
             !.nextActivate = Elapse(@), !.nextPrecharge = Elapse(@),
             !.nextPowerUp = Elapse(@) ]
=============================================================================
