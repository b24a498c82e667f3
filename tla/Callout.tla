------------------------------- MODULE Callout -------------------------------
(***************************************************************************)
(* The callout queue of igmpproxy (callout.c): a list of events in the     *)
(* order they are due.  A node holds only the seconds between its          *)
(* predecessor and itself, so adding and ageing touch one other node.      *)
(***************************************************************************)
EXTENDS Integers, Sequences

Node(event, seconds) == [ev |-> event, time |-> seconds]

(* The seconds from now to each node: the sum of the nodes up to it.       *)
Offsets(q) ==
    LET sum[i \in 0 .. Len(q)] == IF i = 0 THEN 0 ELSE sum[i - 1] + q[i].time
    IN  sum

(* The nodes the search for `delay' passes: `delay < ptr->time' is false.  *)
NodesWithin(q, delay) ==
    CHOOSE k \in 0 .. Len(q) :
        /\ Offsets(q)[k] <= delay
        /\ k < Len(q) => delay < Offsets(q)[k + 1]

(* Mutant: the node behind the new one keeps its time. *)
MutKeepNext(q, delay, event) ==
    LET k == NodesWithin(q, delay)
    IN  SubSeq(q, 1, k) \o <<Node(event, delay - Offsets(q)[k])>> \o SubSeq(q, k + 1, Len(q))

(* The new node takes what is left of its delay behind the nodes it        *)
(* passed, and the node behind it gives that up.                           *)
timer_setTimer(q, delay, event) ==
    LET k    == NodesWithin(q, delay)
        rest == delay - Offsets(q)[k]
    IN  SubSeq(q, 1, k) \o <<Node(event, rest)>>
        \o [i \in 1 .. Len(q) - k |->
               IF i = 1 THEN [q[k + 1] EXCEPT !.time = @ - rest] ELSE q[k + i]]

(* age_callout_queue: the nodes that are due ...                           *)
Expired(q, elapsed) ==
    [i \in 1 .. NodesWithin(q, elapsed) |-> q[i].ev]

(* ... and the queue they leave, its first node nearer by what remains of  *)
(* the elapsed time.                                                       *)
Remaining(q, elapsed) ==
    LET k == NodesWithin(q, elapsed)
    IN  [i \in 1 .. Len(q) - k |->
            IF i = 1 THEN [q[k + 1] EXCEPT !.time = @ - (elapsed - Offsets(q)[k])]
            ELSE q[k + i]]

timer_nextTimer(q) == IF q = <<>> THEN -1 ELSE q[1].time

=============================================================================
