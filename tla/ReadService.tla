---------------------------- MODULE ReadService -----------------------------
(***************************************************************************)
(* What the memory controller promises its caller about reads (spec.md    *)
(* sections 5 and 8): a read the caller hands over is answered with one   *)
(* ReturnReadData callback carrying its own data; of the reads of one     *)
(* address the oldest is answered first (FIFO per address), while reads   *)
(* of different addresses may be answered in any order; and every read   *)
(* is eventually answered.  Nothing about cycles, banks or commands.      *)
(***************************************************************************)
EXTENDS Naturals, Sequences, SequencesExt

CONSTANTS
  Ids,     \* arrival numbers of transactions
  Addrs    \* physical addresses

VARIABLES
  outstanding,  \* reads handed over and not yet answered: [id, addr] records
  served        \* the callbacks so far, in order: [id, data] records

vars == << outstanding, served >>

Read == [id : Ids, addr : Addrs]

Answered == {s.id : s \in ToSet(served)}

TypeOK ==
  /\ outstanding \subseteq Read
  /\ \A k \in 1..Len(served) : served[k] \in [id : Ids, data : Ids]

Init == outstanding = {} /\ served = << >>

\* The caller hands over a read with a fresh arrival number.
Request(r) ==
  /\ r.id \notin {o.id : o \in outstanding} \cup Answered
  /\ outstanding' = outstanding \cup {r}
  /\ UNCHANGED served

\* The oldest outstanding read of its address.
OldestOfAddr(r) == \A o \in outstanding : o.addr = r.addr => r.id <= o.id

\* ReturnReadData for r, with r's own data.
Answer(r) ==
  /\ r \in outstanding
  /\ OldestOfAddr(r)
  /\ outstanding' = outstanding \ {r}
  /\ served' = Append(served, [id |-> r.id, data |-> r.id])

Next == \E r \in Read : Request(r) \/ Answer(r)

\* A read that is the oldest of its address keeps being answerable until
\* it is answered, so weak fairness on each answer makes every read
\* answered in the end.
Fairness == \A r \in Read : WF_vars(Answer(r))

Spec == Init /\ [][Next]_vars /\ Fairness
=============================================================================
