----------------------------- MODULE LossyQueue -----------------------------
(***************************************************************************)
(* What a serial ring promises: a queue of at most Capacity characters     *)
(* that are delivered in the order in which they came, each once. A        *)
(* character that finds the queue full is lost, and the whole queue may be *)
(* discarded on request.                                                   *)
(***************************************************************************)
EXTENDS Naturals, Sequences

CONSTANTS Chars, Capacity, None

VARIABLES
  queue,      \* accepted and not yet delivered
  got         \* the character delivered last

Init == queue = <<>> /\ got = None

Put(c) ==
  /\ Len(queue) < Capacity
  /\ queue' = Append(queue, c)
  /\ UNCHANGED got

Get ==
  /\ queue # <<>>
  /\ got' = Head(queue)
  /\ queue' = Tail(queue)

Discard == queue' = <<>> /\ UNCHANGED got

\* The consumer forgets what it was given.
Forget == got' = None /\ UNCHANGED queue

Next == (\E c \in Chars : Put(c)) \/ Get \/ Discard \/ Forget

Spec == Init /\ [][Next]_<<queue, got>>
=============================================================================
