---------------------------- MODULE SessionLog ----------------------------
(***************************************************************************)
(* What a persisted session promises its callers: turns are added to a log *)
(* one at a time, a turn is acknowledged and told of elsewhere only when   *)
(* it is in the log, and no turn ever leaves the log, whatever process     *)
(* dies on the way.                                                        *)
(***************************************************************************)
EXTENDS Naturals, Sequences

CONSTANT Turns

VARIABLES
    log,
    acked,  \* turns whose caller knows of them
    told    \* turns the trace tells of

Logged == {log[i] : i \in 1..Len(log)}

Init == log = << >> /\ acked = {} /\ told = {}

Record(t) ==
    /\ t \notin Logged
    /\ log' = Append(log, t)
    /\ UNCHANGED <<acked, told>>

Settle(t) ==
    /\ t \in Logged
    /\ acked' \in {acked, acked \cup {t}}
    /\ told' \in {told, told \cup {t}}
    /\ UNCHANGED log

Next == \E t \in Turns : Record(t) \/ Settle(t)

Spec == Init /\ [][Next]_<<log, acked, told>>
=============================================================================
