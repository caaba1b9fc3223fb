---------------------------- MODULE SlashPipeline ----------------------------
(***************************************************************************)
(* How a breach verdict reaches the bond: the consumer's cycles (runCycle,  *)
(* gateSlash, executeSlash), directly or through the session-key guard, and *)
(* the oracle server's trigger cycle, which re-bonds and slashes with the   *)
(* same consumer key.  Each awaited call is a step; the bond's other        *)
(* callers, the clock and the guard's owner act between any two of them.    *)
(*                                                                         *)
(* A verdict that the gate refuses (payee, target, tier signals, hash) and  *)
(* a simulated slash (DEV_MODE) touch nothing, so only verdicts against     *)
(* the oracle itself start a cycle here.                                    *)
(*                                                                         *)
(* An operator that no other definition uses is a mutant of the definition  *)
(* right after it.                                                          *)
(***************************************************************************)
EXTENDS SessionKeyGuard

CONSTANTS
    Loops,              \* consumer processes
    Signer,             \* the consumer's own key, which the oracle server has too
    SessionKey,         \* session key of the loops that go through the guard
    ConsumerWallet,     \* CONSUMER_WALLET_ADDRESS
    Oracle,             \* ORACLE_WALLET_ADDRESS
    Recharge            \* what a trigger cycle sends back to the oracle

ASSUME PipelineAssumption ==
    /\ Signer \in Slashers \ {Guard}
    /\ SessionKey \in Keys
    /\ ConsumerWallet \in Consumers
    /\ Oracle \in Agents
    /\ Recharge \in Nat

VARIABLES
    pc, plan,           \* per loop: where it is, what it has read
    trigger             \* the trigger cycle: where it is, the amount to re-bond

loopVars == <<pc, plan>>
allVars  == <<vars, guardVars, loopVars, trigger>>

NoPlan == [class |-> "Hard", guarded |-> FALSE, hash |-> Zero, threshold |-> 0,
           route |-> "instant"]

-----------------------------------------------------------------------------
\* One breach in a consumer's cycle.

Advance(l, from, to, changed) ==
    /\ pc[l] = from
    /\ pc' = [pc EXCEPT ![l] = to]
    /\ plan' = [plan EXCEPT ![l] = changed]
    /\ UNCHANGED trigger

Read(l, from, to, changed) == Advance(l, from, to, changed) /\ UNCHANGED <<vars, guardVars>>

\* A mechanical breach is never disputed; a semantic one needs the route.
\* A loop may have been restarted with or without SESSION_GUARD_ADDRESS.
Adjudicate(l) ==
    \E class \in BreachClass, h \in Hashes, guarded \in BOOLEAN :
        Read(l, "idle", IF class = "Hard" THEN "check" ELSE "threshold",
             [NoPlan EXCEPT !.class = class, !.hash = h, !.guarded = guarded])

\* determineRoute reads the threshold and the preview in two calls.
ReadThreshold(l) ==
    Read(l, "threshold", "preview", [plan[l] EXCEPT !.threshold = config.challengeThreshold])

RouteBySize(threshold) ==
    IF PreviewSlash(Oracle, "Semantic") > threshold THEN "dispute" ELSE "instant"
Route(threshold) ==
    IF /\ ~WouldEscalate(Oracle, "Semantic")
       /\ PreviewSlash(Oracle, "Semantic") > threshold
    THEN "dispute" ELSE "instant"

ReadPreview(l) ==
    Read(l, "preview", "check", [plan[l] EXCEPT !.route = Route(plan[l].threshold),
                                                !.threshold = 0])

\* No active bond: the slash is skipped.
CheckActive(l) ==
    Read(l, "check", IF IsActiveBondedAgent(Oracle) THEN "bond" ELSE "idle", plan[l])

\* The bond read here is a figure of the later feedback entry and is left out.
\* The guard has no call for an indictment: that route ends here under it.
ReadBond(l) ==
    LET next == IF plan[l].route = "dispute"
                THEN IF plan[l].guarded THEN "idle" ELSE "file"
                ELSE IF plan[l].guarded THEN "session" ELSE "send"
    IN  Read(l, "bond", next, plan[l])

CheckSession(l) ==
    Read(l, "session", IF HasActiveSession THEN "send" ELSE "idle", plan[l])

\* The receipt may be lost, and the cycle with it.
SendSlash(l) ==
    /\ pc[l] = "send"
    /\ IF plan[l].guarded
       THEN GuardedSlash(SessionKey, Oracle, plan[l].class, plan[l].hash)
       ELSE /\ Slash(Signer, Oracle, ConsumerWallet, plan[l].class, plan[l].hash)
            /\ UNCHANGED guardVars
    /\ Advance(l, "send", "report", plan[l]) \/ Advance(l, "send", "idle", NoPlan)

FileDispute(l) ==
    /\ FileIndictment(Signer, Oracle, ConsumerWallet, plan[l].hash)
    /\ Advance(l, "file", "idle", NoPlan)
    /\ UNCHANGED guardVars

\* The feedback write (ConsumerCycle) and the cycle's log.
Report(l) == Read(l, "report", "idle", NoPlan)

\* A reverted transaction, a failed RPC call, a crash.
Fail(l) ==
    /\ pc[l] # "idle"
    /\ Read(l, pc[l], "idle", NoPlan)

-----------------------------------------------------------------------------
\* The oracle server's trigger cycle; its cooldown keeps cycles apart.

TriggerGoto(from, to, amount) ==
    /\ trigger.at = from
    /\ trigger' = [at |-> to, amount |-> amount]
    /\ UNCHANGED loopVars

TriggerCheck ==
    /\ TriggerGoto("idle", IF IsActiveBondedAgent(Oracle) THEN "slash" ELSE "balance", 0)
    /\ UNCHANGED <<vars, guardVars>>

\* Everything but the gas reserve goes into the bond; the reserve is not
\* part of the model's balance.
TriggerBalance ==
    /\ TriggerGoto("balance", IF balance[Oracle] = 0 THEN "idle" ELSE "post", balance[Oracle])
    /\ UNCHANGED <<vars, guardVars>>

TriggerPost ==
    /\ PostBond(Oracle, trigger.amount)
    /\ TriggerGoto("post", "slash", 0)
    /\ UNCHANGED guardVars

TriggerSlash ==
    /\ \E h \in Hashes : Slash(Signer, Oracle, ConsumerWallet, "Hard", h)
    /\ TriggerGoto("slash", "recharge", 0)
    /\ UNCHANGED guardVars

TriggerRecharge ==
    /\ IF balance[ConsumerWallet] >= Recharge
       THEN Transfer(ConsumerWallet, Oracle, Recharge)
       ELSE UNCHANGED balance
    /\ TriggerGoto("recharge", "idle", 0)
    /\ UNCHANGED <<now, registered, bonds, breachEpochs, blacklisted, settledVerdicts,
                   disputes, nextDisputeId, adminVars, feedback, guardVars>>

TriggerFail ==
    /\ trigger.at # "idle"
    /\ TriggerGoto(trigger.at, "idle", 0)
    /\ UNCHANGED <<vars, guardVars>>

-----------------------------------------------------------------------------
LoopsAtRest ==
    /\ pc = [l \in Loops |-> "idle"]
    /\ plan = [l \in Loops |-> NoPlan]
    /\ trigger = [at |-> "idle", amount |-> 0]

PipelineInit == Init /\ GuardInit /\ LoopsAtRest

LoopStep(l) ==
    \/ Adjudicate(l)
    \/ ReadThreshold(l)
    \/ ReadPreview(l)
    \/ CheckActive(l)
    \/ ReadBond(l)
    \/ CheckSession(l)
    \/ SendSlash(l)
    \/ FileDispute(l)
    \/ Report(l)
    \/ Fail(l)

TriggerStep ==
    \/ TriggerCheck
    \/ TriggerBalance
    \/ TriggerPost
    \/ TriggerSlash
    \/ TriggerRecharge
    \/ TriggerFail

PipelineNext ==
    \/ \E l \in Loops : LoopStep(l)
    \/ TriggerStep
    \/ /\ BondStep \/ GuardOwnerStep \/ KeyHolderStep
       /\ UNCHANGED <<loopVars, trigger>>

PipelineSpec == PipelineInit /\ [][PipelineNext]_allVars

-----------------------------------------------------------------------------
\* Properties.

\* Loops and the trigger stay in their states, and a session has an expiry
\* exactly while it has a key: a revoked one leaves none behind.
PipelineTypeOK ==
    /\ pc \in [Loops -> {"idle", "threshold", "preview", "check", "bond", "session",
                          "send", "file", "report"}]
    /\ \A l \in Loops : plan[l].class \in BreachClass /\ plan[l].route \in {"instant", "dispute"}
    /\ trigger.at \in {"idle", "balance", "post", "slash", "recharge"} /\ trigger.amount \in Nat
    /\ session.key \in Keys \cup {Zero} /\ session.payout \in granted \cup {Zero}
    /\ session.key = Zero <=> session.expiry = 0

\* The gate decides the route by the contract's own rule: whatever schedule,
\* epoch and earlier breaches the bond has, the route it picks is the one
\* the contract admits in the state the gate has read.
RouteMirrorsContract ==
    [][\A l \in Loops :
        (/\ pc[l] = "preview" /\ pc'[l] = "check"
         /\ plan[l].threshold = config.challengeThreshold
         /\ IsActiveBondedAgent(Oracle))
        => IF plan'[l].route = "instant" THEN SlashAdmits(Oracle, "Semantic")
                                         ELSE IndictmentAdmits(Oracle)]_allVars

\* Whoever holds a session key, and whatever the loops, the trigger and the
\* disputes do meanwhile, slashed collateral only ever reaches the consumer's
\* wallet or a payout address that the guard's owner granted.
ProceedsReachGrantedPayouts ==
    \A c \in Consumers : balance[c] > 0 => c \in granted \cup {ConsumerWallet}

\* While the guard holds the slasher role and no session is live, only a
\* dispute filed before can still count a breach: neither an old key nor a
\* loop or trigger with the consumer's own key gets a slash through.
NoSlashOutsideSession ==
    [][(authorizedSlasher = Guard /\ ~HasActiveSession /\ breachEpochs' # breachEpochs)
        => disputes' # disputes]_allVars
=============================================================================
