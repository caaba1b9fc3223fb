--------------------------- MODULE SessionKeyGuard ---------------------------
(***************************************************************************)
(* ConsumerSessionKeyGuard: the contract that may hold the slasher role of  *)
(* the bond.  A session key calls through it for a limited time, and what   *)
(* it slashes always goes to the payout address fixed by the owner's grant. *)
(* Every function runs in one transaction together with the bond's.         *)
(*                                                                         *)
(* An operator that no other definition uses is a mutant of the definition  *)
(* right after it.                                                          *)
(***************************************************************************)
EXTENDS ArcIDBond

CONSTANTS
    Guard,              \* address of the guard
    Keys,               \* session keys the owner may grant
    Zero,               \* address(0)
    Payouts,            \* payout addresses the owner may grant
    Lifetimes,          \* session lifetimes the owner may grant
    AmountCaps          \* caps on the logged amount of a settlement

ASSUME GuardAssumption ==
    /\ Guard \in Slashers
    /\ Zero \notin Keys \cup Consumers
    /\ Payouts \subseteq Consumers
    /\ Lifetimes \subseteq Nat
    /\ AmountCaps \subseteq Nat

VARIABLES
    session,            \* sessionKey, payoutAddress, maxAmountPerCall, expiry
    granted             \* history: the payout addresses ever granted

guardVars == <<session, granted>>

-----------------------------------------------------------------------------

\* onlySessionKey, and the view the agent asks before it calls.
AcceptsForever(k) == session.key # Zero /\ k = session.key
Accepts(k)        == session.key # Zero /\ k = session.key /\ now <= session.expiry
HasActiveSession  == session.key # Zero /\ now <= session.expiry

GrantSessionKey(k, payout, cap, lifetime) ==
    /\ session' = [key |-> k, payout |-> payout, cap |-> cap, expiry |-> now + lifetime]
    /\ granted' = granted \cup {payout}
    /\ UNCHANGED vars

\* The payout address and the cap of the last session stay.
RevokeSessionKey ==
    /\ session' = [session EXCEPT !.key = Zero, !.expiry = 0]
    /\ UNCHANGED <<vars, granted>>

SlashToCaller(k, a, class, h) ==
    /\ Accepts(k)
    /\ \E c \in Consumers : Slash(Guard, a, c, class, h)
    /\ UNCHANGED guardVars
GuardedSlash(k, a, class, h) ==
    /\ Accepts(k)
    /\ Slash(Guard, a, session.payout, class, h)
    /\ UNCHANGED guardVars

GuardedRecordSettlement(k, a, amount, h) ==
    /\ Accepts(k)
    /\ amount <= session.cap
    /\ RecordSettlement(Guard, a, h)
    /\ UNCHANGED guardVars

GuardInit ==
    /\ session = [key |-> Zero, payout |-> Zero, cap |-> 0, expiry |-> 0]
    /\ granted = {}

GuardOwnerStep ==
    \/ \E k \in Keys, payout \in Payouts, cap \in AmountCaps, t \in Lifetimes :
          GrantSessionKey(k, payout, cap, t)
    \/ RevokeSessionKey

\* Whoever holds a key may call both functions with any arguments.
KeyHolderStep ==
    \E k \in Keys, a \in Agents, h \in Hashes :
        \/ \E class \in BreachClass : GuardedSlash(k, a, class, h)
        \/ \E amount \in AmountCaps : GuardedRecordSettlement(k, a, amount, h)

\* The bond's other callers.
BondStep ==
    /\ \/ AgentStep
       \/ OwnerStep
       \/ PublicStep
       \/ \E a \in Agents : RegisterAgent(a)
       \/ Tick
    /\ UNCHANGED guardVars
=============================================================================
