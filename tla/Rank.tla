-------------------------------- MODULE Rank --------------------------------
(***************************************************************************)
(* The rank side of the command and data buses (Rank.cpp of DRAMSim2: not *)
(* part of this repository's sources; modelled from spec.md section 4.6). *)
(* A rank answers a READ or READ_P with a DATA packet that reaches the     *)
(* controller's receiveFromBus RL + BL/2 cycles after the command arrived; *)
(* a REFRESH clears the rank's refreshWaiting flag.  Ranks are updated     *)
(* before the controller in every cycle.                                   *)
(***************************************************************************)
EXTENDS Naturals, Sequences, BankState

CONSTANTS
  RL,   \* read latency, AL + CL
  BL    \* burst length

\* The cycles from a READ reaching the rank to its data reaching the controller.
ReadReturnDelay == RL + BL \div 2

\* receiveFromBus: the rank's reaction to a command packet.
RankReceive(p, readReturn, refreshWaiting) ==
  [ readReturn |->
      IF p.type \in ReadKinds
      THEN [readReturn EXCEPT ![p.rank] =
              Append(@, [addr |-> p.addr, id |-> p.id, countdown |-> ReadReturnDelay])]
      ELSE readReturn,
    refreshWaiting |->
      IF p.type = REFRESH THEN [refreshWaiting EXCEPT ![p.rank] = FALSE]
      ELSE refreshWaiting ]

\* update(): count down the returning reads of rank r; the head whose count
\* reaches zero is handed to the controller as a DATA packet.
RankUpdate(s) ==
  LET s1 == [i \in 1..Len(s) |-> [s[i] EXCEPT !.countdown = @ - 1]]
  IN IF Len(s1) > 0 /\ s1[1].countdown = 0
     THEN [delivered |-> << [addr |-> s1[1].addr, id |-> s1[1].id] >>, rest |-> Tail(s1)]
     ELSE [delivered |-> << >>, rest |-> s1]
=============================================================================
