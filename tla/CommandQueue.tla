---------------------------- MODULE CommandQueue ----------------------------
(***************************************************************************)
(* The command queue the memory controller enqueues into and pops from    *)
(* (CommandQueue.cpp of DRAMSim2: not part of this repository's sources;   *)
(* modelled from spec.md section 4.3).  Pure operators over the queue     *)
(* contents, its refresh flags and round-robin pointer, and the bank       *)
(* records; the controller module owns the variables.                     *)
(*                                                                         *)
(* Queues are per (rank, bank).  A packet is a record                      *)
(*   [type, rank, bank, row, addr, id]                                     *)
(* where id is the arrival number of the transaction it was made from (0  *)
(* for packets the queue synthesizes: PRECHARGE and REFRESH).              *)
(***************************************************************************)
EXTENDS Naturals, Sequences, SequencesExt, BankState

CONSTANTS
  Ranks,            \* 0..NUM_RANKS-1
  Banks,            \* 0..NUM_BANKS-1
  CMD_QUEUE_DEPTH,  \* capacity of one per-bank queue
  ClosePage,        \* ROW_BUFFER_POLICY = close-page
  CommandFCFS       \* SCHEDULER_POLICY = command-FCFS (else rank-then-bank)

Queues == Ranks \X Banks

\* Queues in round-robin order: rank then bank.
QueueAt(k) == << k \div Cardinality(Banks), k % Cardinality(Banks) >>
QueueIndex(q) == q[1] * Cardinality(Banks) + q[2]
NumQueues == Cardinality(Queues)

Packet(type, rank, bank, row, addr, id) ==
  [type |-> type, rank |-> rank, bank |-> bank, row |-> row, addr |-> addr, id |-> id]

\* hasRoomFor(n, rank, bank)
HasRoomFor(n, queues, r, b) == CMD_QUEUE_DEPTH - Len(queues[<<r, b>>]) >= n

\* enqueue(packet): append in arrival order.
Enqueue(queues, p) == [queues EXCEPT ![<<p.rank, p.bank>>] = Append(@, p)]

\* isIssuable(packet): the bank state and its not-before guard permit it now.
Issuable(p, bs) ==
  LET b == bs[<<p.rank, p.bank>>] IN
  CASE p.type = ACTIVATE  -> b.currentBankState = Idle /\ Reached(b.nextActivate)
    [] p.type \in ReadKinds -> /\ b.currentBankState = RowActive
                               /\ b.openRowAddress = p.row
                               /\ Reached(b.nextRead)
    [] p.type \in WriteKinds -> /\ b.currentBankState = RowActive
                                /\ b.openRowAddress = p.row
                                /\ Reached(b.nextWrite)
    [] p.type = PRECHARGE -> b.currentBankState = RowActive /\ Reached(b.nextPrecharge)
    [] OTHER -> FALSE

\* Open page: an access may not overtake an earlier access to the same row;
\* close page: a column access may not overtake its own ACTIVATE.
MayIssueAt(s, i, bs) ==
  /\ Issuable(s[i], bs)
  /\ IF ClosePage
       THEN ~(i > 1 /\ s[i-1].type = ACTIVATE /\ s[i-1].addr = s[i].addr)
       ELSE ~\E j \in 1..(i-1) : s[j].type # ACTIVATE /\ s[j].row = s[i].row

FirstIssuable(s, bs) == SelectInSeq([i \in 1..Len(s) |-> i], LAMBDA i : MayIssueAt(s, i, bs))

\* Removing the issued packet; under open page a column access taken from
\* behind its own ACTIVATE is a row-buffer hit and the ACTIVATE is dropped.
IsRowHit(s, i) == ~ClosePage /\ i > 1 /\ s[i-1].type = ACTIVATE /\ s[i].type \in ColumnKinds
AfterIssue(s, i) == IF IsRowHit(s, i) THEN SubSeq(s, 1, i-2) \o SubSeq(s, i+1, Len(s))
                                      ELSE RemoveAt(s, i)

Popped(p, queues, rw, rr, next, hit) ==
  [found |-> TRUE, pkt |-> p, queues |-> queues, refreshWaiting |-> rw,
   refreshRank |-> rr, next |-> next, hit |-> hit]
NoPop == [found |-> FALSE]

\* needRefresh(rank)
NeedRefresh(r) == [refreshWaiting |-> TRUE, refreshRank |-> r]

(***************************************************************************)
(* pop() while a refresh is waiting: drain or close the first open bank   *)
(* of the refresh rank, then REFRESH once every bank is closed and its    *)
(* nextActivate has been reached.                                          *)
(***************************************************************************)
RefreshPopNoClose(queues, rr, next, bs) ==
  LET blocking == {b \in Banks : bs[<<rr, b>>].currentBankState = RowActive
                                 \/ ~Reached(bs[<<rr, b>>].nextActivate)}
  IN IF blocking = {}
     THEN IF bs[<<rr, 0>>].currentBankState # PowerDown
          THEN Popped(Packet(REFRESH, rr, 0, 0, 0, 0), queues, FALSE, rr, next, FALSE)
          ELSE NoPop
     ELSE LET b    == Min(blocking)
              bk   == bs[<<rr, b>>]
              s    == queues[<<rr, b>>]
              i    == SelectInSeq(s, LAMBDA p : p.row = bk.openRowAddress)
          IN CASE bk.currentBankState # RowActive -> NoPop
               [] i > 0 /\ s[i].type # ACTIVATE ->
                    IF Issuable(s[i], bs)
                    THEN Popped(s[i], [queues EXCEPT ![<<rr, b>>] = RemoveAt(s, i)],
                                TRUE, rr, next, FALSE)
                    ELSE NoPop
               [] OTHER -> NoPop
RefreshPop(queues, rr, next, bs) ==
  LET blocking == {b \in Banks : bs[<<rr, b>>].currentBankState = RowActive
                                 \/ ~Reached(bs[<<rr, b>>].nextActivate)}
  IN IF blocking = {}
     THEN IF bs[<<rr, 0>>].currentBankState # PowerDown
          THEN Popped(Packet(REFRESH, rr, 0, 0, 0, 0), queues, FALSE, rr, next, FALSE)
          ELSE NoPop
     ELSE LET b    == Min(blocking)
              bk   == bs[<<rr, b>>]
              s    == queues[<<rr, b>>]
              i    == SelectInSeq(s, LAMBDA p : p.row = bk.openRowAddress)
          IN CASE bk.currentBankState # RowActive -> NoPop
               [] i > 0 /\ s[i].type # ACTIVATE ->
                    IF Issuable(s[i], bs)
                    THEN Popped(s[i], [queues EXCEPT ![<<rr, b>>] = RemoveAt(s, i)],
                                TRUE, rr, next, FALSE)
                    ELSE NoPop
               [] Reached(bk.nextPrecharge) ->
                    Popped(Packet(PRECHARGE, rr, b, 0, 0, 0), queues, TRUE, rr, next, FALSE)
               [] OTHER -> NoPop

(***************************************************************************)
(* pop() with nothing issuable: a PRECHARGE to the first open bank, in    *)
(* rank-then-bank order, whose queue holds no access to its open row      *)
(* (open page only), skipping the rank waiting for refresh.               *)
(***************************************************************************)
\* A variant that closes an open bank even when an access to its open row
\* is still queued.
IdlePrechargeAnyOpen(queues, rw, rr, next, bs) ==
  LET Closable(q) == /\ bs[q].currentBankState = RowActive
                     /\ Reached(bs[q].nextPrecharge)
                     /\ ~(rw /\ q[1] = rr)
      pres == {q \in Queues : Closable(q)}
  IN IF pres # {} /\ ~ClosePage
     THEN LET q == QueueAt(Min({QueueIndex(x) : x \in pres}))
          IN Popped(Packet(PRECHARGE, q[1], q[2], 0, 0, 0), queues, rw, rr, next, FALSE)
     ELSE NoPop
IdlePrecharge(queues, rw, rr, next, bs) ==
  LET Closable(q) == /\ bs[q].currentBankState = RowActive
                     /\ Reached(bs[q].nextPrecharge)
                     /\ ~(rw /\ q[1] = rr)
                     /\ ~\E j \in 1..Len(queues[q]) : queues[q][j].row = bs[q].openRowAddress
      pres == {q \in Queues : Closable(q)}
  IN IF pres # {} /\ ~ClosePage
     THEN LET q == QueueAt(Min({QueueIndex(x) : x \in pres}))
          IN Popped(Packet(PRECHARGE, q[1], q[2], 0, 0, 0), queues, rw, rr, next, FALSE)
     ELSE NoPop

\* The packet at position i of queue q is taken (and its ACTIVATE dropped on
\* a row hit); next is the new round-robin pointer.
Take(queues, q, i, rw, rr, next) ==
  Popped(queues[q][i], [queues EXCEPT ![q] = AfterIssue(@, i)],
         rw, rr, next, IsRowHit(queues[q], i))

(***************************************************************************)
(* pop() under rank-then-bank round robin: the first queue in that order  *)
(* from the pointer, skipping the rank waiting for refresh, that holds an *)
(* issuable packet.                                                        *)
(***************************************************************************)
NormalPop(queues, rw, rr, next, bs) ==
  LET Ready(k) == LET q == QueueAt((next + k) % NumQueues)
                  IN ~(rw /\ q[1] = rr) /\ FirstIssuable(queues[q], bs) > 0
      ks == {k \in 0..(NumQueues - 1) : Ready(k)}
  IN IF ks # {}
     THEN LET k == (next + Min(ks)) % NumQueues
              q == QueueAt(k)
          IN Take(queues, q, FirstIssuable(queues[q], bs), rw, rr, (k + 1) % NumQueues)
     ELSE IdlePrecharge(queues, rw, rr, next, bs)

(***************************************************************************)
(* pop() under command-FCFS: ranks in round-robin order from the pointer, *)
(* skipping the rank waiting for refresh; in the first rank holding an    *)
(* issuable packet, the earliest-arriving issuable packet over all its    *)
(* banks (a bank's own queue is in arrival order).                         *)
(***************************************************************************)
FCFSPop(queues, rw, rr, next, bs) ==
  LET NR == Cardinality(Ranks)
      Cands(r) == {<<b, i>> \in Banks \X (1..CMD_QUEUE_DEPTH) :
                     i <= Len(queues[<<r, b>>]) /\ MayIssueAt(queues[<<r, b>>], i, bs)}
      Ready(k) == LET r == (next + k) % NR IN ~(rw /\ r = rr) /\ Cands(r) # {}
      ks == {k \in 0..(NR - 1) : Ready(k)}
  IN IF ks # {}
     THEN LET r  == (next + Min(ks)) % NR
              Id(c) == queues[<<r, c[1]>>][c[2]].id
              c  == CHOOSE c \in Cands(r) :
                      \A d \in Cands(r) : Id(c) < Id(d) \/ (Id(c) = Id(d) /\ c[2] <= d[2])
          IN Take(queues, <<r, c[1]>>, c[2], rw, rr, (r + 1) % NR)
     ELSE IdlePrecharge(queues, rw, rr, next, bs)

\* pop(&busPacket)
Pop(queues, rw, rr, next, bs) ==
  LET ref == IF rw THEN RefreshPop(queues, rr, next, bs) ELSE NoPop
  IN IF ref.found THEN ref
     ELSE IF CommandFCFS THEN FCFSPop(queues, rw, rr, next, bs)
     ELSE NormalPop(queues, rw, rr, next, bs)

\* isEmpty(rank)
IsEmpty(queues, r) == \A b \in Banks : queues[<<r, b>>] = << >>

(***************************************************************************)
(* Row-buffer accounting (getRowBufferHits / getRowBufferMisses): a READ  *)
(* or WRITE taken on the open row with its own ACTIVATE dropped is a hit; *)
(* an ACTIVATE issued is a miss.  resetRowBufferStats clears them.        *)
(***************************************************************************)
NoRowBufferStats == [q \in Queues |-> [hits |-> 0, misses |-> 0]]

\* A variant that counts every READ/WRITE to the open row as a hit.
CountRowBufferAllColumns(stats, pop) ==
  LET q == <<pop.pkt.rank, pop.pkt.bank>> IN
  [stats EXCEPT ![q].hits = IF pop.pkt.type \in ColumnKinds THEN @ + 1 ELSE @,
                ![q].misses = IF pop.pkt.type = ACTIVATE THEN @ + 1 ELSE @]
CountRowBuffer(stats, pop) ==
  LET q == <<pop.pkt.rank, pop.pkt.bank>> IN
  [stats EXCEPT ![q].hits = IF pop.hit THEN @ + 1 ELSE @,
                ![q].misses = IF pop.pkt.type = ACTIVATE THEN @ + 1 ELSE @]
=============================================================================
