------------------------------- MODULE Timers -------------------------------
(***************************************************************************)
(* What a set of timers promises, with no word about how it is kept: each  *)
(* pending timer has its own number of seconds to go, timers are added     *)
(* without touching the others, and when n seconds pass exactly those with *)
(* at most n to go fire, each once.  Equal timers are counted, not told    *)
(* apart: the state is how many are due within each number of seconds.     *)
(***************************************************************************)
EXTENDS Integers

CONSTANTS
    Events,         \* what a timer stands for
    Longest,        \* the longest time a timer may have to go
    Horizon         \* the most seconds that pass at once

VARIABLES
    pending,        \* pending[e][s]: timers of event e with at most s to go
    firing          \* firing[e]: how many timers of event e are due

Seconds == 0 .. Longest

None == [e \in Events |-> 0]

TimersInit == pending = [e \in Events |-> [s \in Seconds |-> 0]] /\ firing = None

(* The timers of event e with at most s seconds to go, for every s.        *)
Within(e, s) == pending[e][IF s > Longest THEN Longest ELSE s]

(* The new timers of event e with at most s seconds to go.                 *)
New(e, s) == pending'[e][s] - pending[e][s]

(* Timers are added and none that was pending changes: the further one     *)
(* looks, the more new ones one sees.                                      *)
Added ==
    /\ \A e \in Events : /\ New(e, 0) >= 0
                         /\ \A s \in 1 .. Longest : New(e, s - 1) <= New(e, s)
    /\ pending' \in [Events -> [Seconds -> Nat]]

Set == Added /\ UNCHANGED firing

(* n seconds pass, once everything due before has been handled.            *)
Passed(n) ==
    /\ firing = None
    /\ pending' = [e \in Events |-> [s \in Seconds |-> Within(e, s + n) - Within(e, n)]]
    /\ firing' = [e \in Events |-> Within(e, n)]

(* One timer that is due is handled, and may set others.                   *)
Handled(e) ==
    /\ firing[e] > 0
    /\ firing' = [firing EXCEPT ![e] = @ - 1]
    /\ Added

(* The process that keeps them ends.                                       *)
Dropped == TimersInit'

TimersNext ==
    \/ Set \/ Dropped
    \/ \E n \in 0 .. Horizon : Passed(n)
    \/ \E e \in Events : Handled(e)

TimersSpec == TimersInit /\ [][TimersNext]_<<pending, firing>>

=============================================================================
