----------------------------- MODULE RoundRobin -----------------------------
(***************************************************************************)
(* What a playlist promises a device, whatever goes on inside the server:  *)
(* each answer shows one screen, and the screens take turns in the order   *)
(* of the playlist.                                                        *)
(***************************************************************************)
EXTENDS Naturals

CONSTANTS
    Clients,      \* devices
    Nobody,       \* no answer under way
    Length,       \* the number of items of the playlist
    Order         \* Order[n]: the screen of item n, from 0

VARIABLES
    turn,         \* turn[d]: the item that d is shown next
    showing       \* showing[d]: the screen of the answer under way to d

rrVars == <<turn, showing>>

Init ==
    /\ turn = [d \in Clients |-> 0]
    /\ showing = [d \in Clients |-> Nobody]

Show(d) ==
    /\ showing[d] = Nobody
    /\ showing' = [showing EXCEPT ![d] = Order[turn[d]]]
    /\ turn' = [turn EXCEPT ![d] = (@ + 1) % Length]

Answered(d) ==
    /\ showing[d] # Nobody
    /\ showing' = [showing EXCEPT ![d] = Nobody]
    /\ UNCHANGED turn

Next == \E d \in Clients : Show(d) \/ Answered(d)

Spec == Init /\ [][Next]_rrVars
=============================================================================
