------------------------------- MODULE Dhcpc -------------------------------
(***************************************************************************)
(* The DHCP client udhcpc (udhcp-0.9.8/dhcpc.c) on the WAN interface: one  *)
(* loop around select(), a timer, a socket, a pipe that carries signals,   *)
(* and the address it puts on the interface.                               *)
(*                                                                         *)
(* Time is kept relative to the clock: `left' is timeout - time(0) and     *)
(* `age' is time(0) - start.  Only the sign of a negative `left' matters,  *)
(* so it stops at -1; `age' stops at AgeCap.  Transaction ids are not      *)
(* numbered: `asked' holds the requests sent under the current xid, and    *)
(* every reply to an older one is a packet the loop ignores.               *)
(***************************************************************************)
EXTENDS Integers

CONSTANTS
    Addr,           \* addresses a server may offer (0: none)
    LeaseTimes,     \* lease times an ACK may carry (3600 if it has none)
    Modes,          \* "daemon", "quit" (-q), "abort" (-n), "check" (detection)
    Signals,        \* of SIGUSR1, SIGUSR2
    Retry,          \* 2 s: after the first and second packet of three
    LastDiscover,   \* 4 s: after the third DISCOVER
    LastRequest,    \* 10 s: after the third REQUEST
    Pause,          \* 20 s: before the next three DISCOVERs
    RenewUnit,      \* 14400
    WordMod,        \* unsigned long holds numbers modulo WordMod
    AgeCap          \* bound on age

ASSUME ClientAssumption ==
    /\ Addr \subseteq Nat \ {0} /\ LeaseTimes \subseteq Nat
    /\ Retry \in Nat \ {0} /\ LastDiscover \in Nat \ {0}
    /\ LastRequest \in Nat \ {0} /\ Pause \in Nat \ {0}
    /\ RenewUnit \in Nat \ {0} /\ WordMod \in Nat \ {0} /\ AgeCap \in Nat
    /\ \A l \in LeaseTimes : l + 2 * Retry + LastRequest < AgeCap

(* The leases whose 7/8 does not overflow: up to 613566756 seconds.        *)
ASSUME ShortLeases == \A l \in LeaseTimes : l * 7 < WordMod

VARIABLES
    pc,             \* "loop", "select", "timeout" (retval = 0), "exited"
    mode,           \* the command line
    state, packet_num, listen_mode, requested_ip,
    asked,          \* what was sent under the current xid
    timer, left,    \* timeout: "killed" (0), "never" (0x7fffffff) or "set"
    tv,             \* seconds select() has still to wait
    lease, t1, t2, age,
    addr,           \* the address of the interface, set by run_script
    stray,          \* history: the address a release has left behind
    slips           \* history: 1 once the clock has advanced unseen

net   == <<listen_mode, requested_ip, asked>>
times == <<lease, t1, t2, age>>
iface == <<addr, stray>>
vars  == <<pc, mode, state, packet_num, net, timer, left, tv, times, iface>>

States == {"INIT_SELECTING", "REQUESTING", "BOUND", "RENEWING", "REBINDING",
           "RENEW_REQUESTED", "RELEASED"}

(* The states in which the client counts on its lease.                     *)
Leased == {"BOUND", "RENEWING", "REBINDING", "RENEW_REQUESTED"}

-----------------------------------------------------------------------------
(* run_script, as compiled in: it sets the address of the interface.       *)

deconfig == addr' = 0 /\ stray' = 0

configure(a) == addr' = a /\ stray' = 0

SetTimeout(seconds) == timer' = "set" /\ left' = seconds

KillTimeouts == timer' = "killed" /\ left' = 0

Never == timer' = "never" /\ left' = 0

change_mode(m) == listen_mode' = m

(* Unsigned subtraction, and the step below which T1 and T2 are not        *)
(* halved any further.                                                     *)
Minus(a, b) == (a - b) % WordMod

Slack == lease \div RenewUnit + 1

(* A packet goes out under a new xid, or under the current one.            *)
SendNew(kind) == asked' = {kind}

SendAgain(kind) == asked' = asked \cup {kind}

-----------------------------------------------------------------------------
(* The loop.                                                               *)

(* tv.tv_sec = timeout - time(0), with the "time update workaround": a     *)
(* timeout that has passed waits one more second for the socket.           *)
Loop ==
    /\ pc = "loop"
    /\ IF timer = "killed" \/ (timer = "set" /\ left = 0)
       THEN pc' = "timeout" /\ tv' = 0
       ELSE pc' = "select" /\ tv' = (IF left > 0 THEN left ELSE 1)
    /\ UNCHANGED <<mode, state, packet_num, net, timer, left, times, iface>>

Later == IF left > 0 THEN left - 1 ELSE -1

Older == IF state \in Leased /\ age < AgeCap THEN age + 1 ELSE age

(* A second passes while select() waits.                                   *)
Tick ==
    /\ pc = "select" /\ timer = "set" /\ tv > 0
    /\ tv' = tv - 1
    /\ left' = Later
    /\ age' = Older
    /\ UNCHANGED <<pc, mode, state, packet_num, net, timer, lease, t1, t2, iface>>

(* The clock advances unseen by select(): a handler took a second, or the  *)
(* clock was set.                                                          *)
Slip ==
    /\ pc \in {"loop", "select"} /\ timer = "set"
    /\ left' = Later
    /\ age' = Older
    /\ UNCHANGED <<pc, mode, state, packet_num, net, timer, tv, lease, t1, t2, iface>>

(* exit_client leaves the interface as it is.                              *)
ExitClient == pc' = "exited" /\ UNCHANGED <<state, packet_num, net, timer, left, times, iface>>

GoInit ==
    /\ state' = "INIT_SELECTING"
    /\ packet_num' = 0
    /\ change_mode("RAW")

-----------------------------------------------------------------------------
(* The timer has run out.                                                  *)

(* Mutant: four DISCOVERs. *)
MutSendDiscoverFour ==
    /\ packet_num <= 3
    /\ IF packet_num = 0 THEN SendNew("DISCOVER") ELSE SendAgain("DISCOVER")
    /\ SetTimeout(IF packet_num = 2 THEN LastDiscover ELSE Retry)
    /\ packet_num' = packet_num + 1
    /\ pc' = "loop"
    /\ UNCHANGED <<state, listen_mode, requested_ip, times, iface>>

SendDiscover ==
    /\ packet_num < 3
    /\ IF packet_num = 0 THEN SendNew("DISCOVER") ELSE SendAgain("DISCOVER")
    /\ SetTimeout(IF packet_num = 2 THEN LastDiscover ELSE Retry)
    /\ packet_num' = packet_num + 1
    /\ pc' = "loop"
    /\ UNCHANGED <<state, listen_mode, requested_ip, times, iface>>

(* Mutant: the count of packets is not reset. *)
MutNoOfferStuck ==
    /\ packet_num = 3
    /\ IF mode \in {"abort", "check"}
       THEN ExitClient
       ELSE /\ SetTimeout(Pause)
            /\ pc' = "loop"
            /\ UNCHANGED <<state, packet_num, net, times, iface>>

NoOffer ==
    /\ packet_num = 3
    /\ IF mode \in {"abort", "check"}
       THEN ExitClient
       ELSE /\ packet_num' = 0
            /\ SetTimeout(Pause)
            /\ pc' = "loop"
            /\ UNCHANGED <<state, net, times, iface>>

SelectingTimeout ==
    /\ state = "INIT_SELECTING"
    /\ SendDiscover \/ NoOffer

SendRequest ==
    /\ packet_num < 3
    /\ IF state = "RENEW_REQUESTED" THEN SendNew("REQUEST") ELSE SendAgain("REQUEST")
    /\ SetTimeout(IF packet_num = 2 THEN LastRequest ELSE Retry)
    /\ packet_num' = packet_num + 1
    /\ UNCHANGED <<state, listen_mode, requested_ip, times, iface>>

(* Mutant: the address survives a renewal that nobody answered. *)
MutNoAnswerKeeps ==
    /\ packet_num = 3
    /\ GoInit
    /\ SetTimeout(0)
    /\ UNCHANGED <<requested_ip, asked, times, iface>>

NoAnswer ==
    /\ packet_num = 3
    /\ IF state = "RENEW_REQUESTED" THEN deconfig ELSE UNCHANGED iface
    /\ GoInit
    /\ SetTimeout(0)
    /\ UNCHANGED <<requested_ip, asked, times>>

RequestingTimeout ==
    /\ state \in {"REQUESTING", "RENEW_REQUESTED"}
    /\ SendRequest \/ NoAnswer
    /\ pc' = "loop"

(* T1: send a renewal and halve the time to T2, or go on to REBINDING.  In *)
(* BOUND the socket is opened first.                                       *)
RenewingTimeout ==
    /\ state \in {"BOUND", "RENEWING"}
    /\ change_mode("KERNEL")
    /\ IF Minus(t2, t1) <= Slack
       THEN /\ state' = "REBINDING"
            /\ SetTimeout(Minus(t2, t1))
            /\ UNCHANGED <<t1, asked>>
       ELSE /\ state' = "RENEWING"
            /\ SendNew("REQUEST")
            /\ t1' = Minus(t2, t1) \div 2 + t1
            /\ SetTimeout(t1' - age)
    /\ pc' = "loop"
    /\ UNCHANGED <<packet_num, requested_ip, lease, t2, age, iface>>

(* Mutant: the last halving is not cut short. *)
MutRebindForever ==
    /\ state = "REBINDING"
    /\ IF Minus(lease, t2) < Slack
       THEN /\ GoInit
            /\ deconfig
            /\ SetTimeout(0)
            /\ UNCHANGED <<requested_ip, asked, times>>
       ELSE /\ SendNew("REQUEST")
            /\ t2' = Minus(lease, t2) \div 2 + t2
            /\ SetTimeout(t2' - age)
            /\ UNCHANGED <<state, packet_num, listen_mode, requested_ip, lease, t1, age, iface>>
    /\ pc' = "loop"

(* T2: broadcast a renewal and halve the time to the end, or give up.      *)
RebindingTimeout ==
    /\ state = "REBINDING"
    /\ IF Minus(lease, t2) <= Slack
       THEN /\ GoInit
            /\ deconfig
            /\ SetTimeout(0)
            /\ UNCHANGED <<requested_ip, asked, times>>
       ELSE /\ SendNew("REQUEST")
            /\ t2' = Minus(lease, t2) \div 2 + t2
            /\ SetTimeout(t2' - age)
            /\ UNCHANGED <<state, packet_num, listen_mode, requested_ip, lease, t1, age, iface>>
    /\ pc' = "loop"

ReleasedTimeout ==
    /\ state = "RELEASED"
    /\ Never
    /\ pc' = "loop"
    /\ UNCHANGED <<state, packet_num, net, times, iface>>

(* select() returned 0.  The timeout 0x7fffffff is in the year 2038.       *)
TimedOut ==
    /\ \/ pc = "timeout"
       \/ pc = "select" /\ (tv = 0 \/ timer = "never")
    /\ \/ SelectingTimeout \/ RequestingTimeout \/ RenewingTimeout
       \/ RebindingTimeout \/ ReleasedTimeout
    /\ UNCHANGED <<mode, tv>>

-----------------------------------------------------------------------------
(* A packet is ready.  Packets are looked at before signals.               *)

Readable == pc = "select" /\ listen_mode # "NONE"

(* Another xid, a bad packet, a refused offer (no server id, or            *)
(* check_private_ip), a type the state does not expect, a read error.  Nor *)
(* does anything happen when select() is interrupted or fails, or when     *)
(* the loop reads on in the signal's number: one byte of it at a time.     *)
Ignored ==
    /\ pc = "select"
    /\ pc' = "loop"
    /\ UNCHANGED <<mode, state, packet_num, net, timer, left, tv, times, iface>>

(* dhclient_chk: any answer shows that there is a server.                  *)
Detected ==
    /\ Readable /\ mode = "check" /\ asked # {}
    /\ ExitClient
    /\ UNCHANGED <<mode, tv>>

Offered(a) ==
    /\ Readable /\ mode # "check" /\ "DISCOVER" \in asked
    /\ state = "INIT_SELECTING"
    /\ requested_ip' = a
    /\ state' = "REQUESTING"
    /\ packet_num' = 0
    /\ SetTimeout(0)
    /\ pc' = "loop"
    /\ UNCHANGED <<mode, listen_mode, asked, tv, times, iface>>

Awaiting == {"RENEW_REQUESTED", "REQUESTING", "RENEWING", "REBINDING"}

(* Mutant: the first renewal waits for T2. *)
MutAckLate(a, l) ==
    /\ Readable /\ mode # "check" /\ "REQUEST" \in asked
    /\ state \in Awaiting
    /\ lease' = l
    /\ t1' = l \div 2
    /\ t2' = ((l * 7) % WordMod) \div 8
    /\ age' = 0
    /\ SetTimeout(t2')
    /\ requested_ip' = a
    /\ configure(a)
    /\ state' = "BOUND"
    /\ change_mode("NONE")
    /\ pc' = IF mode = "quit" THEN "exited" ELSE "loop"
    /\ UNCHANGED <<mode, packet_num, asked, tv>>

(* The server's name and the address are not compared with what was asked. *)
Acked(a, l) ==
    /\ Readable /\ mode # "check" /\ "REQUEST" \in asked
    /\ state \in Awaiting
    /\ lease' = l
    /\ t1' = l \div 2
    /\ t2' = ((l * 7) % WordMod) \div 8
    /\ age' = 0
    /\ SetTimeout(t1')
    /\ requested_ip' = a
    /\ configure(a)
    /\ state' = "BOUND"
    /\ change_mode("NONE")
    /\ pc' = IF mode = "quit" THEN "exited" ELSE "loop"
    /\ UNCHANGED <<mode, packet_num, asked, tv>>

(* timeout = now, and then the client sleeps for three seconds, unless a   *)
(* signal wakes it.                                                        *)
Naked ==
    /\ Readable /\ mode # "check" /\ "REQUEST" \in asked
    /\ state \in Awaiting
    /\ IF state # "REQUESTING" THEN deconfig ELSE UNCHANGED iface
    /\ GoInit
    /\ requested_ip' = 0
    /\ SetTimeout(-1) \/ SetTimeout(0)
    /\ pc' = "loop"
    /\ UNCHANGED <<mode, asked, tv, times>>

-----------------------------------------------------------------------------
(* Signals.                                                                *)

(* Mutant: a renewal asked for in BOUND does not open the socket. *)
MutRenewDeaf ==
    /\ CASE state = "BOUND"                     -> state' = "RENEW_REQUESTED" /\ UNCHANGED <<listen_mode, iface>>
         [] state \in {"RENEWING", "REBINDING"} -> state' = "RENEW_REQUESTED" /\ UNCHANGED <<listen_mode, iface>>
         [] state = "RENEW_REQUESTED"           -> GoInit /\ deconfig
         [] state \in {"REQUESTING", "RELEASED"} -> GoInit /\ UNCHANGED iface
         [] state = "INIT_SELECTING"            -> UNCHANGED <<state, listen_mode, iface>>
    /\ packet_num' = 0
    /\ KillTimeouts

perform_renew ==
    /\ CASE state = "BOUND" ->
                state' = "RENEW_REQUESTED" /\ change_mode("KERNEL") /\ UNCHANGED iface
         [] state \in {"RENEWING", "REBINDING"} ->
                state' = "RENEW_REQUESTED" /\ UNCHANGED <<listen_mode, iface>>
         [] state = "RENEW_REQUESTED" ->
                GoInit /\ deconfig
         [] state \in {"REQUESTING", "RELEASED"} ->
                GoInit /\ UNCHANGED iface
         [] state = "INIT_SELECTING" ->
                UNCHANGED <<state, listen_mode, iface>>
    /\ packet_num' = 0
    /\ KillTimeouts

(* send_release and deconfig only in three of the four leased states.      *)
perform_release ==
    /\ IF state \in {"BOUND", "RENEWING", "REBINDING"}
       THEN deconfig
       ELSE addr' = addr /\ stray' = (IF state = "RENEW_REQUESTED" THEN addr ELSE stray)
    /\ change_mode("NONE")
    /\ state' = "RELEASED"
    /\ Never
    /\ UNCHANGED packet_num

Signalled ==
    /\ pc = "select"
    /\ \/ "SIGUSR1" \in Signals /\ perform_renew
       \/ "SIGUSR2" \in Signals /\ perform_release
    /\ pc' = "loop"
    /\ UNCHANGED <<mode, requested_ip, asked, tv, times>>

(* SIGTERM, or no socket could be opened.                                  *)
Exit ==
    /\ pc = "select" \/ (pc = "loop" /\ listen_mode # "NONE")
    /\ ExitClient
    /\ UNCHANGED <<mode, tv>>

(* The system starts the client: with -r it remembers an address.          *)
Start ==
    /\ pc = "exited"
    /\ pc' = "loop"
    /\ mode' \in Modes
    /\ requested_ip' \in Addr \cup {0}
    /\ GoInit
    /\ IF mode' = "check" THEN UNCHANGED iface ELSE deconfig
    /\ asked' = {}
    /\ KillTimeouts
    /\ UNCHANGED <<tv, times>>

Init ==
    /\ pc = "exited" /\ mode \in Modes
    /\ state = "INIT_SELECTING" /\ packet_num = 0 /\ listen_mode = "RAW"
    /\ requested_ip = 0 /\ asked = {}
    /\ timer = "killed" /\ left = 0 /\ tv = 0
    /\ lease = 0 /\ t1 = 0 /\ t2 = 0 /\ age = 0
    /\ addr = 0 /\ stray = 0 /\ slips = 0

Packet ==
    \/ Ignored \/ Detected \/ Naked
    \/ \E a \in Addr : Offered(a)
    \/ \E a \in Addr, l \in LeaseTimes : Acked(a, l)

Next == Loop \/ Tick \/ TimedOut \/ Packet \/ Signalled \/ Exit \/ Start

NextSlow == Next \/ Slip

(* The history of the clock is written beside the steps.                   *)
NextMarked == (Next /\ UNCHANGED slips) \/ (Slip /\ slips' = 1)

(* The clock runs, and the timer gets its turn when a second has passed.   *)
(* With a second of silence now and then it keeps getting one.             *)
Busy  == WF_vars(Loop) /\ SF_vars(Tick) /\ WF_vars(TimedOut)
Quiet == WF_vars(Loop) /\ SF_vars(Tick) /\ SF_vars(TimedOut)

Spec     == Init /\ [][NextMarked]_<<vars, slips>> /\ Quiet
SpecBusy == Init /\ [][Next /\ UNCHANGED slips]_<<vars, slips>> /\ Busy

-----------------------------------------------------------------------------
(* Properties.                                                             *)

(* Every variable has its type.                                            *)
TypeOK ==
    /\ pc \in {"loop", "select", "timeout", "exited"}
    /\ mode \in Modes
    /\ state \in States
    /\ packet_num \in 0 .. 3
    /\ listen_mode \in {"NONE", "KERNEL", "RAW"}
    /\ requested_ip \in Addr \cup {0}
    /\ asked \subseteq {"DISCOVER", "REQUEST"}
    /\ timer \in {"killed", "never", "set"}
    /\ left \in Int /\ tv \in Nat
    /\ lease \in Nat /\ t1 \in Nat /\ t2 \in Nat /\ age \in Nat
    /\ addr \in Addr \cup {0}
    /\ stray \in Addr \cup {0}

(* The socket fits the state: none while nothing is awaited, the kernel's  *)
(* while the interface has an address, a raw one while it has none.  A     *)
(* client with the wrong socket cannot hear the answer to what it sends.   *)
Listening ==
    listen_mode = CASE state \in {"BOUND", "RELEASED"} -> "NONE"
                    [] state \in {"RENEWING", "REBINDING", "RENEW_REQUESTED"} -> "KERNEL"
                    [] OTHER -> "RAW"

(* The interface carries the address the client renews and releases as     *)
(* long as it counts on a lease, and none when it has no lease (unless a   *)
(* release left it there, or the client only looks for a server).          *)
AddressFitsState ==
    pc # "exited" =>
        IF state \in Leased
        THEN addr # 0 /\ addr = requested_ip
        ELSE addr = 0 \/ addr = stray \/ mode = "check"

(* T1 <= T2 <= lease at every halving.                                     *)
TimersOrdered ==
    state \in Leased => lease \in LeaseTimes /\ t1 <= t2 /\ t2 <= lease

(* What a lease's time is spent on when every handler is quick: T1 or T2   *)
(* falls when the timer does, and a renewal asked for by SIGUSR1 takes at  *)
(* most its three timeouts.                                                *)
Spent == CASE packet_num = 0 -> 0
           [] packet_num = 1 -> Retry
           [] packet_num = 2 -> 2 * Retry
           [] OTHER -> 2 * Retry + LastRequest

TimerExact ==
    /\ state \in {"BOUND", "RENEWING"} => timer = "set" /\ left >= 0 /\ left + age = t1
    /\ state = "REBINDING" => timer = "set" /\ left >= 0 /\ left + age = t2
    /\ state = "RENEW_REQUESTED" =>
           \/ timer = "killed" /\ age <= lease + Spent
           \/ timer = "set" /\ left >= 0 /\ left + age <= lease + Spent
    /\ pc = "timeout" => timer = "killed" \/ (timer = "set" /\ left = 0)
    /\ pc = "select" => timer # "killed"
    /\ pc = "select" /\ timer = "set" /\ left >= 0 => tv = left

(* The client stops using an address when its lease ends, at the latest:   *)
(* only a renewal the user asked for may overrun it, by its three timeouts. *)
LeaseRespected ==
    pc # "exited" /\ state \in Leased =>
        age <= lease + (IF state = "RENEW_REQUESTED" THEN 2 * Retry + LastRequest ELSE 0)

(* The order of the timers holds whatever the clock does, the exact times  *)
(* and the end of the lease as long as no second has passed unseen.        *)
LeaseInv == TimersOrdered /\ (slips = 0 => TimerExact /\ LeaseRespected)

(* Every lease is in the end renewed, given up or left behind by an exit.  *)
LeaseSettled == (state \in Leased /\ age > 0) ~> (state \notin Leased \/ age = 0 \/ pc = "exited")

(* A client without an address goes on sending DISCOVERs.                  *)
KeepsTrying ==
    (state = "INIT_SELECTING" /\ pc # "exited")
        ~> (packet_num = 1 \/ state # "INIT_SELECTING" \/ pc = "exited")

(* "If we already timed out, fall through" (dhcpc.c:446): a timeout that   *)
(* has passed is handled.                                                  *)
FallsThrough ==
    (pc = "loop" /\ timer = "set" /\ left < 0) ~> (left >= 0 \/ pc = "exited")

(* "SIGUSR2 will force a release of the current lease" (README.udhcpc):    *)
(* a released client has no address on its interface.                      *)
ReleaseTakesAddress == state = "RELEASED" /\ mode # "check" => addr = 0

=============================================================================
