---------------------------- MODULE CollateralToken ----------------------------
(***************************************************************************)
(* The USDC token as the escrow contracts use it, and the block clock.      *)
(***************************************************************************)
EXTENDS Integers, FiniteSets, FiniteSetsExt

CONSTANTS
    Wallets,            \* people: owners, researchers, artists, challengers
    Escrows,            \* contracts that hold tokens
    Nobody,             \* address(0)
    InitialFunds,       \* token balance of every wallet
    MaxTime             \* bound: last value of the clock

Accounts == Wallets \cup Escrows

ASSUME TokenAssumption ==
    /\ Wallets \cap Escrows = {} /\ Nobody \notin Accounts
    /\ IsFiniteSet(Accounts)
    /\ InitialFunds \in Nat /\ MaxTime \in Nat

VARIABLES balance, now

tokenVars == <<balance, now>>

TokenInit ==
    /\ balance = [x \in Accounts |-> IF x \in Wallets THEN InitialFunds ELSE 0]
    /\ now = 0

\* transfer and transferFrom: the transaction reverts without the funds.
Move(from, to, amount) ==
    /\ amount <= balance[from]
    /\ balance' = [balance EXCEPT ![from] = @ - amount, ![to] = @ + amount]

Tick ==
    /\ now < MaxTime
    /\ now' = now + 1
    /\ UNCHANGED balance
=============================================================================
