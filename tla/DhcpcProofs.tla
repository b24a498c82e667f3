---------------------------- MODULE DhcpcProofs ----------------------------
(* Proofs about the DHCP client: what holds however slow its handlers are, *)
(* and that a client keeps to its lease as long as no second has passed    *)
(* unseen (slips = 0).                                                     *)
EXTENDS Dhcpc, TLAPS

USE ClientAssumption

(* Every action, for the case splits below.                                *)
Step ==
    \/ Loop \/ Tick \/ TimedOut \/ Ignored \/ Detected \/ Naked
    \/ (\E a \in Addr : Offered(a))
    \/ (\E a \in Addr, l \in LeaseTimes : Acked(a, l))
    \/ Signalled \/ Exit \/ Start

LEMMA NextIsStep == Next <=> Step
BY DEF Next, Step, Packet

(* Unsigned subtraction is subtraction when nothing is borrowed.           *)
LEMMA MinusExact ==
    ASSUME NEW a \in Nat, NEW b \in Nat, b <= a, a < WordMod
    PROVE  Minus(a, b) = a - b
BY DEF Minus

(* Unsigned subtraction gives a natural number.                            *)
LEMMA MinusNat ==
    ASSUME NEW a \in Nat, NEW b \in Nat
    PROVE  Minus(a, b) \in Nat
BY DEF Minus

LEMMA SlackNat == lease \in Nat => Slack \in Nat /\ Slack >= 1
BY DEF Slack

-----------------------------------------------------------------------------

LEMMA TypeInit == Init => TypeOK
BY DEF Init, TypeOK, States

LEMMA TypeTimedOut == TypeOK /\ TimedOut => TypeOK'
<1> SUFFICES ASSUME TypeOK, TimedOut PROVE TypeOK'
    OBVIOUS
<1> USE DEF TypeOK, States, net, times, iface, SetTimeout, GoInit, change_mode, deconfig
<1>1. CASE SelectingTimeout
    <2>1. CASE SendDiscover
        <3>1. asked' \subseteq {"DISCOVER", "REQUEST"}
            BY <2>1 DEF SendDiscover, SendNew, SendAgain
        <3>2. left' \in Int /\ packet_num' \in 0 .. 3
            BY <2>1 DEF SendDiscover
        <3> QED
            BY <1>1, <2>1, <3>1, <3>2 DEF TimedOut, SendDiscover
    <2>2. CASE NoOffer
        <3>1. CASE mode \in {"abort", "check"}
            BY <2>2, <3>1 DEF TimedOut, NoOffer, ExitClient
        <3>2. CASE mode \notin {"abort", "check"}
            <4>1. /\ left' \in Int /\ packet_num' = 0 /\ timer' = "set" /\ pc' = "loop"
                  /\ UNCHANGED <<state, net, times, iface, mode, tv>>
                BY <2>2, <3>2 DEF NoOffer, TimedOut
            <4> QED
                BY <4>1
        <3> QED
            BY <3>1, <3>2
    <2> QED
        BY <1>1, <2>1, <2>2 DEF SelectingTimeout
<1>2. CASE RequestingTimeout
    <2>1. CASE SendRequest
        <3>1. asked' \subseteq {"DISCOVER", "REQUEST"}
            BY <2>1 DEF SendRequest, SendNew, SendAgain
        <3>2. left' \in Int /\ packet_num' \in 0 .. 3
            BY <2>1 DEF SendRequest
        <3> QED
            BY <1>2, <2>1, <3>1, <3>2 DEF TimedOut, RequestingTimeout, SendRequest
    <2>2. CASE NoAnswer
        BY <1>2, <2>2 DEF TimedOut, RequestingTimeout, NoAnswer
    <2> QED
        BY <1>2, <2>1, <2>2 DEF RequestingTimeout
<1>3. CASE RenewingTimeout
    <2>1. Minus(t2, t1) \in Nat
        BY MinusNat
    <2>2. t1' \in Nat /\ left' \in Int
        BY <1>3, <2>1 DEF RenewingTimeout
    <2>3. asked' \subseteq {"DISCOVER", "REQUEST"}
        BY <1>3 DEF RenewingTimeout, SendNew
    <2>4. state' \in States /\ timer' = "set"
        BY <1>3 DEF RenewingTimeout
    <2> QED
        BY <1>3, <2>2, <2>3, <2>4 DEF TimedOut, RenewingTimeout
<1>4. CASE RebindingTimeout
    <2>1. Minus(lease, t2) \in Nat
        BY MinusNat
    <2>2. t2' \in Nat /\ left' \in Int
        BY <1>4, <2>1 DEF RebindingTimeout
    <2>3. asked' \subseteq {"DISCOVER", "REQUEST"}
        BY <1>4 DEF RebindingTimeout, SendNew
    <2> QED
        <3>1. CASE Minus(lease, t2) <= Slack
            BY <1>4, <2>2, <2>3, <3>1 DEF TimedOut, RebindingTimeout
        <3>2. CASE ~(Minus(lease, t2) <= Slack)
            BY <1>4, <2>2, <2>3, <3>2 DEF TimedOut, RebindingTimeout
        <3> QED
            BY <3>1, <3>2
<1>5. CASE ReleasedTimeout
    BY <1>5 DEF TimedOut, ReleasedTimeout, Never
<1> QED
    BY <1>1, <1>2, <1>3, <1>4, <1>5 DEF TimedOut

LEMMA MarkedIsStep == [NextMarked]_<<vars, slips>> => [NextSlow]_vars
BY DEF NextMarked, NextSlow

LEMMA TypeNext == TypeOK /\ [NextSlow]_vars => TypeOK'
<1> SUFFICES ASSUME TypeOK, [NextSlow]_vars PROVE TypeOK'
    OBVIOUS
<1> USE DEF TypeOK, States, net, times, iface
<1>1. CASE Loop
    BY <1>1 DEF Loop
<1>2. CASE Tick
    BY <1>2 DEF Tick, Later, Older
<1>3. CASE TimedOut
    BY <1>3, TypeTimedOut
<1>4. CASE Ignored \/ Detected \/ Exit
    BY <1>4 DEF Ignored, Detected, Exit, ExitClient
<1>5. CASE Naked
    BY <1>5 DEF Naked, deconfig, GoInit, change_mode, SetTimeout
<1>6. ASSUME NEW a \in Addr, Offered(a) PROVE TypeOK'
    BY <1>6 DEF Offered, SetTimeout
<1>7. ASSUME NEW a \in Addr, NEW l \in LeaseTimes, Acked(a, l) PROVE TypeOK'
    <2>1. l \in Nat /\ l \div 2 \in Nat /\ ((l * 7) % WordMod) \div 8 \in Nat
        OBVIOUS
    <2> QED
        BY <1>7, <2>1 DEF Acked, SetTimeout, configure, change_mode
<1>8. CASE Signalled
    <2>1. CASE perform_renew
        <3>1. /\ state' \in States
              /\ listen_mode' \in {"NONE", "KERNEL", "RAW"}
              /\ addr' \in Addr \cup {0} /\ stray' \in Addr \cup {0}
            BY <2>1 DEF perform_renew, GoInit, change_mode, deconfig
        <3> QED
            BY <1>8, <2>1, <3>1 DEF Signalled, perform_renew, KillTimeouts
    <2>2. CASE perform_release
        BY <1>8, <2>2 DEF Signalled, perform_release, change_mode, deconfig, Never
    <2> QED
        BY <1>8, <2>1, <2>2 DEF Signalled
<1>9. CASE Start
    BY <1>9 DEF Start, GoInit, change_mode, deconfig, KillTimeouts
<1>10. CASE Slip
    BY <1>10 DEF Slip, Later, Older
<1>11. CASE UNCHANGED vars
    BY <1>11 DEF vars
<1> QED
    BY <1>1, <1>2, <1>3, <1>4, <1>5, <1>6, <1>7, <1>8, <1>9, <1>10, <1>11, NextIsStep
    DEF NextSlow, Step

(* The client's variables keep their types, however slow its handlers.     *)
THEOREM ClientTypes == Spec => []TypeOK
BY TypeInit, TypeNext, MarkedIsStep, PTL DEF Spec

-----------------------------------------------------------------------------

LEMMA ListeningNext == TypeOK /\ Listening /\ [NextSlow]_vars => Listening'
<1> SUFFICES ASSUME TypeOK, Listening, [NextSlow]_vars PROVE Listening'
    OBVIOUS
<1> USE DEF Listening, net, times, iface, GoInit, change_mode
<1>1. CASE TimedOut
    BY <1>1 DEF TimedOut, SelectingTimeout, SendDiscover, NoOffer, ExitClient,
                RequestingTimeout, SendRequest, NoAnswer, RenewingTimeout,
                RebindingTimeout, ReleasedTimeout
<1>2. CASE Signalled
    <2>1. CASE perform_renew
        BY <2>1 DEF TypeOK, States, perform_renew
    <2>2. CASE perform_release
        BY <2>2 DEF perform_release
    <2> QED
        BY <1>2, <2>1, <2>2 DEF Signalled
<1>3. ASSUME NEW a \in Addr, Offered(a) PROVE Listening'
    BY <1>3 DEF Offered
<1>4. ASSUME NEW a \in Addr, NEW l \in LeaseTimes, Acked(a, l) PROVE Listening'
    BY <1>4 DEF Acked
<1>5. CASE Naked \/ Start
    BY <1>5 DEF Naked, Start
<1>6. CASE Loop \/ Tick \/ Ignored \/ Detected \/ Exit \/ Slip \/ UNCHANGED vars
    BY <1>6 DEF Loop, Tick, Ignored, Detected, Exit, Slip, ExitClient, vars
<1> QED
    BY <1>1, <1>2, <1>3, <1>4, <1>5, <1>6, NextIsStep DEF NextSlow, Step

(* The client always has the socket its state needs.                       *)
THEOREM ClientListens == Spec => []Listening
<1>1. Init => Listening
    BY DEF Init, Listening
<1> QED
    BY <1>1, TypeInit, TypeNext, ListeningNext, MarkedIsStep, PTL DEF Spec

-----------------------------------------------------------------------------

LEMMA AddressNext ==
    TypeOK /\ AddressFitsState /\ [NextSlow]_vars => AddressFitsState'
<1> SUFFICES ASSUME TypeOK, AddressFitsState, [NextSlow]_vars
             PROVE  AddressFitsState'
    OBVIOUS
<1> USE DEF AddressFitsState, Leased, net, times, iface, GoInit, deconfig
<1>1. CASE TimedOut
    BY <1>1 DEF TypeOK, States, TimedOut, SelectingTimeout, SendDiscover, NoOffer,
                ExitClient, RequestingTimeout, SendRequest, NoAnswer,
                RenewingTimeout, RebindingTimeout, ReleasedTimeout
<1>2. CASE Signalled
    BY <1>2 DEF TypeOK, States, Signalled, perform_renew, perform_release
<1>3. ASSUME NEW a \in Addr, Offered(a) PROVE AddressFitsState'
    BY <1>3 DEF Offered, Readable
<1>4. ASSUME NEW a \in Addr, NEW l \in LeaseTimes, Acked(a, l)
      PROVE  AddressFitsState'
    BY <1>4 DEF Acked, configure, Readable
<1>5. CASE Naked
    BY <1>5 DEF Naked, Awaiting, Readable
<1>6. CASE Start
    BY <1>6 DEF Start
<1>7. CASE Loop \/ Tick \/ Ignored \/ Detected \/ Exit \/ Slip \/ UNCHANGED vars
    BY <1>7 DEF Loop, Tick, Ignored, Readable, Detected, Exit, Slip, ExitClient, vars
<1> QED
    BY <1>1, <1>2, <1>3, <1>4, <1>5, <1>6, <1>7, NextIsStep DEF NextSlow, Step

(* The interface carries the client's address exactly while it counts on a *)
(* lease, but for a release during a renewal.                              *)
THEOREM ClientAddress == Spec => []AddressFitsState
<1>1. Init => AddressFitsState
    BY DEF Init, AddressFitsState
<1> QED
    BY <1>1, TypeInit, TypeNext, AddressNext, MarkedIsStep, PTL DEF Spec

-----------------------------------------------------------------------------
(* The lease.  TimersOrdered is arithmetic and needs no clock; TimerExact  *)
(* says where the timer stands while handlers take no time; together they  *)
(* are inductive, and LeaseRespected follows.                              *)

LEMMA OrderedHolds == TypeOK /\ TimersOrdered /\ [NextSlow]_vars => TimersOrdered'
<1> SUFFICES ASSUME TypeOK, TimersOrdered, [NextSlow]_vars PROVE TimersOrdered'
    OBVIOUS
<1> USE DEF TimersOrdered, Leased, net, times, iface, GoInit
<1>1. CASE TimedOut
    <2>1. CASE SelectingTimeout \/ RequestingTimeout \/ ReleasedTimeout
        BY <2>1 DEF SelectingTimeout, SendDiscover, NoOffer, ExitClient,
                    RequestingTimeout, SendRequest, NoAnswer, ReleasedTimeout
    <2>2. CASE RenewingTimeout
        <3>1. lease \in LeaseTimes /\ t1 <= t2 /\ t2 <= lease /\ lease < WordMod
            BY <2>2, ShortLeases DEF RenewingTimeout, TypeOK
        <3>2. Minus(t2, t1) = t2 - t1
            BY <3>1, MinusExact DEF TypeOK
        <3>3. t1' <= t2
            BY <2>2, <3>1, <3>2 DEF RenewingTimeout, TypeOK
        <3> QED
            BY <2>2, <3>1, <3>3 DEF RenewingTimeout
    <2>3. CASE RebindingTimeout
        <3>1. lease \in LeaseTimes /\ t1 <= t2 /\ t2 <= lease /\ lease < WordMod
            BY <2>3, ShortLeases DEF RebindingTimeout, TypeOK
        <3>2. Minus(lease, t2) = lease - t2
            BY <3>1, MinusExact DEF TypeOK
        <3>3. state' \in Leased => t2' <= lease /\ t2 <= t2' /\ t1' = t1 /\ lease' = lease
            BY <2>3, <3>1, <3>2 DEF RebindingTimeout, TypeOK
        <3>4. t2' \in Nat
            BY <1>1, TypeTimedOut DEF TypeOK
        <3> QED
            BY <3>1, <3>3, <3>4 DEF TypeOK
    <2> QED
        BY <1>1, <2>1, <2>2, <2>3 DEF TimedOut
<1>2. ASSUME NEW a \in Addr, NEW l \in LeaseTimes, Acked(a, l) PROVE TimersOrdered'
    <2>1. l * 7 < WordMod /\ l \in Nat
        BY ShortLeases
    <2>2. (l * 7) % WordMod = l * 7
        BY <2>1
    <2>3. l \div 2 <= (l * 7) \div 8 /\ (l * 7) \div 8 <= l
        BY <2>1
    <2> QED
        BY <1>2, <2>2, <2>3 DEF Acked
<1>3. CASE Signalled
    <2>1. UNCHANGED times /\ (state' \in Leased => state \in Leased)
        BY <1>3 DEF Signalled, perform_renew, perform_release, TypeOK, States
    <2> QED
        BY <2>1
<1>4. ASSUME NEW a \in Addr, Offered(a) PROVE TimersOrdered'
    BY <1>4 DEF Offered
<1>5. CASE Naked \/ Start
    BY <1>5 DEF Naked, Start
<1>6. CASE Loop \/ Tick \/ Ignored \/ Detected \/ Exit \/ Slip \/ UNCHANGED vars
    BY <1>6 DEF Loop, Tick, Ignored, Detected, Exit, Slip, ExitClient, vars
<1> QED
    BY <1>1, <1>2, <1>3, <1>4, <1>5, <1>6, NextIsStep DEF NextSlow, Step

LEMMA ExactTimedOut ==
    TypeOK /\ TimersOrdered /\ TimerExact /\ TimedOut => TimerExact'
<1> SUFFICES ASSUME TypeOK, TimersOrdered, TimerExact, TimedOut PROVE TimerExact'
    OBVIOUS
<1> USE DEF TimerExact, Spent, net, times, iface, SetTimeout, GoInit, change_mode, deconfig
<1>1. CASE SelectingTimeout
    BY <1>1 DEF SelectingTimeout, SendDiscover, NoOffer, ExitClient
<1>2. CASE RequestingTimeout
    <2>1. CASE SendRequest
        <3>1. CASE state = "REQUESTING"
            BY <1>2, <2>1, <3>1 DEF RequestingTimeout, SendRequest
        <3>2. CASE state = "RENEW_REQUESTED"
            <4>1. age <= lease + Spent
                BY <3>2 DEF TypeOK
            <4>2. Spent' = Spent + (IF packet_num = 2 THEN LastRequest ELSE Retry)
                BY <2>1 DEF SendRequest, TypeOK
            <4>3. left' + age' <= lease' + Spent' /\ left' >= 0
                BY <2>1, <4>1, <4>2 DEF SendRequest, TypeOK
            <4> QED
                BY <1>2, <2>1, <3>2, <4>3 DEF RequestingTimeout, SendRequest
        <3> QED
            BY <1>2, <3>1, <3>2 DEF RequestingTimeout
    <2>2. CASE NoAnswer
        BY <1>2, <2>2 DEF RequestingTimeout, NoAnswer
    <2> QED
        BY <1>2, <2>1, <2>2 DEF RequestingTimeout
<1>3. CASE RenewingTimeout
    <2>1. lease \in LeaseTimes /\ t1 <= t2 /\ t2 <= lease /\ lease < WordMod
        BY <1>3, ShortLeases DEF RenewingTimeout, TypeOK, TimersOrdered, Leased
    <2>2. Minus(t2, t1) = t2 - t1
        BY <2>1, MinusExact DEF TypeOK
    <2>3. timer = "set" /\ left = 0 /\ age = t1
        BY <1>3 DEF RenewingTimeout, TimedOut, TypeOK
    <2>4. CASE Minus(t2, t1) <= Slack
        BY <1>3, <2>1, <2>2, <2>3, <2>4 DEF RenewingTimeout, TypeOK
    <2>5. CASE ~(Minus(t2, t1) <= Slack)
        <3>1. t1' >= t1 /\ t1' \in Nat /\ left' = t1' - age
            BY <1>3, <2>1, <2>2, <2>5 DEF RenewingTimeout, TypeOK
        <3> QED
            BY <1>3, <2>3, <2>5, <3>1 DEF RenewingTimeout, TypeOK
    <2> QED
        BY <2>4, <2>5
<1>4. CASE RebindingTimeout
    <2>1. lease \in LeaseTimes /\ t1 <= t2 /\ t2 <= lease /\ lease < WordMod
        BY <1>4, ShortLeases DEF RebindingTimeout, TypeOK, TimersOrdered, Leased
    <2>2. Minus(lease, t2) = lease - t2
        BY <2>1, MinusExact DEF TypeOK
    <2>3. timer = "set" /\ left = 0 /\ age = t2
        BY <1>4 DEF RebindingTimeout, TimedOut, TypeOK
    <2>4. CASE Minus(lease, t2) <= Slack
        BY <1>4, <2>4 DEF RebindingTimeout
    <2>5. CASE ~(Minus(lease, t2) <= Slack)
        <3>1. t2' >= t2 /\ t2' \in Nat /\ left' = t2' - age
            BY <1>4, <2>1, <2>2, <2>5 DEF RebindingTimeout, TypeOK
        <3> QED
            BY <1>4, <2>3, <2>5, <3>1 DEF RebindingTimeout, TypeOK
    <2> QED
        BY <2>4, <2>5
<1>5. CASE ReleasedTimeout
    BY <1>5 DEF ReleasedTimeout, Never
<1> QED
    BY <1>1, <1>2, <1>3, <1>4, <1>5 DEF TimedOut

LEMMA ExactNext ==
    TypeOK /\ TimersOrdered /\ TimerExact /\ [Next]_vars => TimerExact'
<1> SUFFICES ASSUME TypeOK, TimersOrdered, TimerExact, [Next]_vars PROVE TimerExact'
    OBVIOUS
<1> USE DEF TimerExact, Spent, net, times, iface, SetTimeout, GoInit, change_mode
<1>1. CASE Loop
    BY <1>1 DEF Loop, TypeOK
<1>2. CASE Tick
    <2>1. CASE left >= 0
        <3>1. left > 0 /\ left' = left - 1 /\ tv' = left'
            BY <1>2, <2>1 DEF Tick, Later, TypeOK
        <3>2. age' = age \/ age' = age + 1
            BY <1>2 DEF Tick, Older
        <3>3. state \in Leased => age < AgeCap
            BY <2>1, <3>1 DEF Leased, TimersOrdered, TypeOK
        <3>4. state \in Leased => age' = age + 1
            BY <1>2, <3>3 DEF Tick, Older
        <3> QED
            BY <1>2, <3>1, <3>4 DEF Tick, TypeOK, Leased
    <2>2. CASE left < 0
        BY <1>2, <2>2 DEF Tick, Later, TypeOK
    <2> QED
        BY <2>1, <2>2 DEF TypeOK
<1>3. CASE TimedOut
    BY <1>3, ExactTimedOut
<1>4. CASE Ignored \/ Detected \/ Exit
    BY <1>4 DEF Ignored, Detected, Exit, ExitClient
<1>5. CASE Naked
    BY <1>5 DEF Naked
<1>6. ASSUME NEW a \in Addr, Offered(a) PROVE TimerExact'
    BY <1>6 DEF Offered
<1>7. ASSUME NEW a \in Addr, NEW l \in LeaseTimes, Acked(a, l) PROVE TimerExact'
    BY <1>7 DEF Acked
<1>8. CASE Signalled
    <2>1. CASE perform_renew
        <3>1. /\ state' \in {"RENEW_REQUESTED", "INIT_SELECTING"}
              /\ state' = "RENEW_REQUESTED" => state \in {"BOUND", "RENEWING", "REBINDING"}
            BY <2>1 DEF perform_renew, TypeOK, States
        <3>2. state \in {"BOUND", "RENEWING", "REBINDING"} => age <= lease
            BY DEF TimersOrdered, Leased, TypeOK
        <3>3. packet_num' = 0 /\ timer' = "killed" /\ pc' = "loop" /\ UNCHANGED times
            BY <1>8, <2>1 DEF Signalled, perform_renew, KillTimeouts
        <3>4. Spent' = 0
            BY <3>3
        <3> QED
            BY <3>1, <3>2, <3>3, <3>4 DEF TypeOK
    <2>2. CASE perform_release
        BY <1>8, <2>2 DEF Signalled, perform_release, Never
    <2> QED
        BY <1>8, <2>1, <2>2 DEF Signalled
<1>9. CASE Start
    BY <1>9 DEF Start, KillTimeouts
<1>10. CASE UNCHANGED vars
    BY <1>10 DEF vars
<1> QED
    BY <1>1, <1>2, <1>3, <1>4, <1>5, <1>6, <1>7, <1>8, <1>9, <1>10, NextIsStep DEF Step

LEMMA LeaseInvInit == Init => LeaseInv
BY DEF Init, LeaseInv, TimersOrdered, TimerExact, LeaseRespected, Leased

LEMMA LeaseFollows == TypeOK /\ TimersOrdered /\ TimerExact => LeaseRespected
<1> SUFFICES ASSUME TypeOK, TimersOrdered, TimerExact, state \in Leased
             PROVE  LeaseRespected
    BY DEF LeaseRespected
<1>1. CASE state = "RENEW_REQUESTED"
    <2>1. Spent <= 2 * Retry + LastRequest /\ Spent \in Nat
        BY DEF Spent, TypeOK
    <2> QED
        BY <1>1, <2>1 DEF LeaseRespected, TimerExact, TypeOK
<1>2. CASE state # "RENEW_REQUESTED"
    BY <1>2 DEF LeaseRespected, TimersOrdered, TimerExact, Leased, TypeOK
<1> QED
    BY <1>1, <1>2

(* The inductive invariant: the timers of a lease, and their exact times   *)
(* as long as the handlers are quick.                                      *)
THEOREM ClientLeaseInvariant == Spec => [](TypeOK /\ LeaseInv)
<1>1. TypeOK /\ LeaseInv /\ [NextMarked]_<<vars, slips>> => TypeOK' /\ LeaseInv'
    <2> SUFFICES ASSUME TypeOK, LeaseInv, [NextMarked]_<<vars, slips>>
                 PROVE  TypeOK' /\ LeaseInv'
        OBVIOUS
    <2>1. TypeOK'
        BY TypeNext, MarkedIsStep
    <2>2. TimersOrdered'
        BY OrderedHolds, MarkedIsStep DEF LeaseInv
    <2>3. slips' = 0 => slips = 0 /\ [Next]_vars
        BY DEF NextMarked
    <2>4. slips' = 0 => TimerExact'
        BY <2>3, ExactNext DEF LeaseInv
    <2>5. TypeOK' /\ TimersOrdered' /\ TimerExact' => LeaseRespected'
        BY LeaseFollows, PTL
    <2> QED
        BY <2>1, <2>2, <2>4, <2>5 DEF LeaseInv
<1> QED
    BY <1>1, TypeInit, LeaseInvInit, PTL DEF Spec

(* A client with quick handlers stops using an address when its lease      *)
(* ends, whatever packets are lost, duplicated, delayed or reordered.      *)
THEOREM ClientRespectsLease == Spec => [](slips = 0 => LeaseRespected)
BY ClientLeaseInvariant, PTL DEF LeaseInv

=============================================================================
