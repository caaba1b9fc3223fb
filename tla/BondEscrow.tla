----------------------------- MODULE BondEscrow -----------------------------
(***************************************************************************)
(* What the bond contract promises, without its schedule, epochs, disputes *)
(* and roles: collateral an agent hands over comes back to that agent in   *)
(* one piece, or goes to a consumer piece by piece; the escrow account     *)
(* moves with it, so that it always holds what it owes; a barred agent has *)
(* nothing in the contract and never will.                                 *)
(***************************************************************************)
EXTENDS Integers

CONSTANTS
    Agents, Consumers,
    Amounts     \* what one deposit may bring in

VARIABLES
    wallet,     \* token balance of every agent and consumer
    held,       \* collateral held for every agent
    pot,        \* token balance of the escrow account
    barred      \* agents that may never post again

vars == <<wallet, held, pot, barred>>

Deposit(a, n) ==
    /\ held[a] = 0
    /\ a \notin barred
    /\ n > 0
    /\ held' = [held EXCEPT ![a] = n]
    /\ wallet' = [wallet EXCEPT ![a] = @ - n]
    /\ pot' = pot + n
    /\ UNCHANGED barred

Refund(a) ==
    /\ held[a] > 0
    /\ wallet' = [wallet EXCEPT ![a] = @ + held[a]]
    /\ pot' = pot - held[a]
    /\ held' = [held EXCEPT ![a] = 0]
    /\ UNCHANGED barred

Award(a, c, n) ==
    /\ 0 < n
    /\ n <= held[a]
    /\ held' = [held EXCEPT ![a] = @ - n]
    /\ wallet' = [wallet EXCEPT ![c] = @ + n]
    /\ pot' = pot - n
    /\ UNCHANGED barred

Bar(a, c) ==
    /\ held[a] > 0
    /\ wallet' = [wallet EXCEPT ![c] = @ + held[a]]
    /\ pot' = pot - held[a]
    /\ held' = [held EXCEPT ![a] = 0]
    /\ barred' = barred \cup {a}

Init ==
    /\ wallet \in [Agents \cup Consumers -> Nat]
    /\ held = [a \in Agents |-> 0]
    /\ pot = 0
    /\ barred = {}

Next ==
    \E a \in Agents :
        \/ \E n \in Amounts : Deposit(a, n)
        \/ Refund(a)
        \/ \E c \in Consumers :
            \/ \E n \in 1..held[a] : Award(a, c, n)
            \/ Bar(a, c)

Spec == Init /\ [][Next]_vars

=============================================================================
