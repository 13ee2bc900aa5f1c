----------------------------- MODULE FraudStream -----------------------------
(***************************************************************************)
(* Coinflip fraud detection (admin-api/src/coinflip-fraud): settled games  *)
(* arrive on a Redis stream with a consumer group; a timer drains it every *)
(* 1.5 seconds without waiting for the drain before, and each payout is    *)
(* claimed, counted part by part, scored and acknowledged.  Staff limit,   *)
(* flag and clear the players meanwhile.                                   *)
(*                                                                         *)
(* The game server, which publishes, is external.  Scores are abstracted   *)
(* to what depends on them: whether a payout earns its player a limit.     *)
(***************************************************************************)
EXTENDS Naturals, Sequences

CONSTANTS
    Payouts, Players,
    Humans,        \* Humans[e]: the human players of payout e, two at most
    Drains,        \* invocations of drainStream that may overlap
    Staff,
    Suspects,      \* the players staff deal with
    MaxFailures,   \* bound: failed commands and crashes
    Regimes        \* what may happen together, see Alone, Turns and Free

\* Commands fail but no staff acts; staff and scoring take turns and nothing
\* fails; anything with anything.
Alone == "alone"
Turns == "turns"
Free == "free"

ASSUME FraudAssumptions ==
    /\ Humans \in [Payouts -> Seq(Players)]
    /\ \A e \in Payouts : Len(Humans[e]) \in 0..2
    /\ Suspects \subseteq Players
    /\ MaxFailures \in Nat
    /\ Regimes \subseteq {Alone, Turns, Free}

VARIABLES
    stream,     \* stream[e]: where the entry is between XADD and XACK
    claimed,    \* payouts with a processed-game key
    applied,    \* applied[e][i]: how often part i of payout e took effect
    risk,       \* players with a risk hash
    mitigation, \* the mitigation hashes
    job,        \* job[d]: what drain d is in the middle of
    task,       \* task[s]: what staff member s is in the middle of
    regime,     \* what may happen together; fixed
    failures

streamVars == <<stream, claimed, applied>>
userVars == <<risk, mitigation>>
vars == <<streamVars, userVars, job, task, regime, failures>>

\* What a payout changes, part after part: the Lua script for a player's
\* statistics and the pipeline of lists after it (which counts the pair, for
\* one of the two), the flow of money within the "pair" and from the loser to the
\* winner, and for each player the risk hash and the automatic limit.
For(kind, u) == [kind |-> kind, user |-> u]
First(e) == Humans[e][1]
Second(e) == Humans[e][2]

\* Mutant: the second player is not counted.
CountsFirstOnly ==
    [e \in Payouts |->
        <<For("stats", First(e)), For("lists", First(e)),
          For("risk", First(e)), For("limit", First(e))>>]
Program ==
    [e \in Payouts |->
        IF Len(Humans[e]) = 0 THEN <<>>
        ELSE IF Len(Humans[e]) = 1
        THEN <<For("stats", First(e)), For("lists", First(e)),
               For("risk", First(e)), For("limit", First(e))>>
        ELSE <<For("stats", First(e)), For("lists", First(e)),
               For("stats", Second(e)), For("lists", Second(e)),
               For("pair", First(e)), For("flow", First(e)),
               For("risk", First(e)), For("limit", First(e)),
               For("risk", Second(e)), For("limit", Second(e))>>]

MaxParts == 10
Counters == {"stats", "lists", "pair", "flow"}
Kinds == Counters \cup {"risk", "limit"}
Parts == [kind : Kinds, user : Players]

NoEntry == "no entry"
Resting == [stage |-> "reclaim", batch |-> {}, at |-> "none",
            entry |-> NoEntry, part |-> 1]
Jobs == [stage : {"reclaim", "read"}, batch : SUBSET Payouts,
         at : {"none", "apply", "set", "ack"},
         entry : Payouts \cup {NoEntry}, part : 1..(MaxParts + 1)]

FreeStaff == [kind |-> "none", user |-> NoEntry]
Tasks == {FreeStaff} \cup [kind : {"flag", "clear"}, user : Suspects]

NoMitigation == [manual |-> FALSE, scale |-> "full"]
Mitigations == [manual : BOOLEAN, scale : {"full", "auto", "staff"}]

TypeOK ==
    /\ stream \in [Payouts -> {"unsent", "new", "pending", "idle", "acked"}]
    /\ claimed \in SUBSET Payouts
    /\ applied \in [Payouts -> [1..MaxParts -> Nat]]
    /\ risk \in SUBSET Players
    /\ mitigation \in [Players -> Mitigations]
    /\ job \in [Drains -> Jobs]
    /\ task \in [Staff -> Tasks]
    /\ regime \in {Alone, Turns, Free}
    /\ failures \in 0..MaxFailures

Init ==
    /\ stream = [e \in Payouts |-> "unsent"]
    /\ claimed = {}
    /\ applied = [e \in Payouts |-> [i \in 1..MaxParts |-> 0]]
    /\ risk = {}
    /\ mitigation = [u \in Players |-> NoMitigation]
    /\ job = [d \in Drains |-> Resting]
    /\ task = [s \in Staff |-> FreeStaff]
    /\ regime \in Regimes
    /\ failures = 0

-----------------------------------------------------------------------------
(* The stream and its pending entries.                                     *)

Publish(e) ==
    /\ stream[e] = "unsent"
    /\ stream' = [stream EXCEPT ![e] = "new"]
    /\ UNCHANGED <<claimed, applied, userVars, job, task, regime, failures>>

\* A pending entry's idle time reaches XAUTOCLAIM's minimum.
GrowIdle(e) ==
    /\ stream[e] = "pending"
    /\ stream' = [stream EXCEPT ![e] = "idle"]
    /\ UNCHANGED <<claimed, applied, userVars, job, task, regime, failures>>

In(status) == {e \in Payouts : stream[e] = status}
Deliver(entries) ==
    stream' = [e \in Payouts |-> IF e \in entries THEN "pending" ELSE stream[e]]

Between(d) == job[d].at = "none" /\ job[d].batch = {}

\* XAUTOCLAIM again and again, until it returns nothing ...
Reclaim(d) ==
    /\ Between(d) /\ job[d].stage = "reclaim"
    /\ Deliver(In("idle"))
    /\ job' = [job EXCEPT ![d] = [Resting EXCEPT
          !.stage = IF In("idle") = {} THEN "read" ELSE "reclaim",
          !.batch = In("idle")]]
    /\ UNCHANGED <<claimed, applied, userVars, task, regime, failures>>

\* ... then XREADGROUP once; the next invocation begins where this one did.
ReadNew(d) ==
    /\ Between(d) /\ job[d].stage = "read"
    /\ Deliver(In("new"))
    /\ job' = [job EXCEPT ![d] = [Resting EXCEPT !.batch = In("new")]]
    /\ UNCHANGED <<claimed, applied, userVars, task, regime, failures>>

-----------------------------------------------------------------------------
(* One entry.                                                              *)

Scoring(d) == job[d].at \in {"apply", "set"}
AtWork(s) == task[s].kind # "none"

\* Goes to step "at" with part "part" of the entry.
Goto(d, at, part) ==
    job' = [job EXCEPT ![d] = [@ EXCEPT !.at = at, !.part = part]]

\* Mutant: SET without NX.
AlwaysNew(e) == TRUE
NewlyClaimed(e) == e \notin claimed

\* Mutant: what was claimed before is left pending.
LeavesClaimed(e) == "none"
AfterLostClaim(e) == "ack"

\* A match of two bots is claimed and left at that.
AfterClaim(e) == IF Program[e] = <<>> THEN "ack" ELSE "apply"

Claim(d, e) ==
    /\ job[d].at = "none" /\ e \in job[d].batch
    /\ regime = Turns => \A s \in Staff : ~AtWork(s)
    /\ claimed' = claimed \cup {e}
    /\ job' = [job EXCEPT ![d] = [@ EXCEPT
          !.batch = job[d].batch \ {e},
          !.at = IF NewlyClaimed(e) THEN AfterClaim(e) ELSE AfterLostClaim(e),
          !.entry = e, !.part = 1]]
    /\ UNCHANGED <<stream, applied, userVars, task, regime, failures>>

\* The part the entry has come to.
Part(d) == Program[job[d].entry][job[d].part]

Advance(d) ==
    LET e == job[d].entry
        i == job[d].part
    IN /\ applied' = [applied EXCEPT ![e][i] = @ + 1]
       /\ Goto(d, IF i = Len(Program[e]) THEN "ack" ELSE "apply", i + 1)

Count(d) ==
    /\ job[d].at = "apply" /\ Part(d).kind \in Counters
    /\ Advance(d)
    /\ UNCHANGED <<stream, claimed, userVars, task, regime, failures>>

WriteUserRiskState(d) ==
    /\ job[d].at = "apply" /\ Part(d).kind = "risk"
    /\ risk' = risk \cup {Part(d).user}
    /\ Advance(d)
    /\ UNCHANGED <<stream, claimed, mitigation, task, regime, failures>>

\* Mutant: an automatic limit looks for no manual one.
LimitsAnyone(u) == FALSE
HasManual(u) == mitigation[u].manual

\* maybeAutoLimit: not earned, or the mitigation is a manual one ...
SkipLimit(d) ==
    /\ job[d].at = "apply" /\ Part(d).kind = "limit"
    /\ Advance(d)
    /\ UNCHANGED <<stream, claimed, userVars, task, regime, failures>>

\* ... or it was not when it was read, and is written.
EarnLimit(d) ==
    /\ job[d].at = "apply" /\ Part(d).kind = "limit"
    /\ ~HasManual(Part(d).user)
    /\ Goto(d, "set", job[d].part)
    /\ UNCHANGED <<streamVars, userVars, task, regime, failures>>

AutoScale == "auto"

SetLimit(d) ==
    /\ job[d].at = "set"
    /\ mitigation' = [mitigation EXCEPT ![Part(d).user].scale = AutoScale]
    /\ Advance(d)
    /\ UNCHANGED <<stream, claimed, risk, task, regime, failures>>

NextEntry(d) ==
    job' = [job EXCEPT ![d] = [Resting EXCEPT !.stage = job[d].stage,
                                              !.batch = job[d].batch]]

Ack(d) ==
    /\ job[d].at = "ack"
    /\ stream' = [stream EXCEPT ![job[d].entry] = "acked"]
    /\ NextEntry(d)
    /\ UNCHANGED <<claimed, applied, userVars, task, regime, failures>>

MayFail == regime # Turns /\ failures < MaxFailures

\* A command throws, the claim or a later one: "Do not ACK - leave pending".
Fail(d) ==
    /\ MayFail
    /\ failures' = failures + 1
    /\ \/ job[d].at # "none" /\ NextEntry(d)
       \/ /\ job[d].at = "none"
          /\ \E e \in job[d].batch :
                job' = [job EXCEPT ![d].batch = @ \ {e}]
    /\ UNCHANGED <<streamVars, userVars, task, regime>>

\* XAUTOCLAIM or XREADGROUP throws, its entries delivered or not: the drain goes
\* on to the one, or ends with the other.
FetchFails(d) ==
    /\ MayFail
    /\ failures' = failures + 1
    /\ Between(d)
    /\ \E delivered \in {{}, In(IF job[d].stage = "reclaim" THEN "idle" ELSE "new")} :
          Deliver(delivered)
    /\ job' = [job EXCEPT ![d] = [Resting EXCEPT
          !.stage = IF job[d].stage = "reclaim" THEN "read" ELSE "reclaim",
          !.batch = {}]]
    /\ UNCHANGED <<claimed, applied, userVars, task, regime>>

\* The process dies with all that it had in hand, and starts again.
Crash ==
    /\ MayFail
    /\ failures' = failures + 1
    /\ job' = [d \in Drains |-> Resting]
    /\ task' = [s \in Staff |-> FreeStaff]
    /\ UNCHANGED <<streamVars, userVars, regime>>

-----------------------------------------------------------------------------
(* Staff.                                                                  *)

MayAct(s) ==
    /\ ~AtWork(s)
    /\ regime # Alone
    /\ regime = Turns => \A d \in Drains : ~Scoring(d)

\* The bet scale is optional in a limit request.
LimitUser(s, u) ==
    /\ MayAct(s)
    /\ \E scale \in {"staff", mitigation[u].scale} :
          mitigation' = [mitigation EXCEPT ![u] = [manual |-> TRUE,
                                                   scale |-> scale]]
    /\ UNCHANGED <<streamVars, risk, job, task, regime, failures>>

\* flagUser marks the mitigation, then writes the risk it read before.
FlagUser(s, u) ==
    /\ MayAct(s)
    /\ mitigation' = [mitigation EXCEPT ![u].manual = TRUE]
    /\ task' = [task EXCEPT ![s] = [kind |-> "flag", user |-> u]]
    /\ UNCHANGED <<streamVars, risk, job, regime, failures>>

FlagRisk(s) ==
    /\ task[s].kind = "flag"
    /\ risk' = risk \cup {task[s].user}
    /\ task' = [task EXCEPT ![s] = FreeStaff]
    /\ UNCHANGED <<streamVars, mitigation, job, regime, failures>>

\* clearUser deletes the risk data, then the mitigation.
ClearRisk(s, u) ==
    /\ MayAct(s)
    /\ risk' = risk \ {u}
    /\ task' = [task EXCEPT ![s] = [kind |-> "clear", user |-> u]]
    /\ UNCHANGED <<streamVars, mitigation, job, regime, failures>>

ClearMitigation(s) ==
    /\ task[s].kind = "clear"
    /\ mitigation' = [mitigation EXCEPT ![task[s].user] = NoMitigation]
    /\ task' = [task EXCEPT ![s] = FreeStaff]
    /\ UNCHANGED <<streamVars, risk, job, regime, failures>>

-----------------------------------------------------------------------------

ProcessOneEntry(d) ==
    \/ \E e \in Payouts : Claim(d, e)
    \/ Count(d)
    \/ WriteUserRiskState(d)
    \/ SkipLimit(d)
    \/ EarnLimit(d)
    \/ SetLimit(d)
    \/ Ack(d)

DrainStep(d) ==
    Reclaim(d) \/ ReadNew(d) \/ ProcessOneEntry(d)

StaffStep(s) ==
    \/ \E u \in Suspects : LimitUser(s, u) \/ FlagUser(s, u) \/ ClearRisk(s, u)
    \/ FlagRisk(s)
    \/ ClearMitigation(s)

Next ==
    \/ \E e \in Payouts : Publish(e) \/ GrowIdle(e)
    \/ \E d \in Drains : DrainStep(d) \/ Fail(d) \/ FetchFails(d)
    \/ \E s \in Staff : StaffStep(s)
    \/ Crash

Spec == Init /\ [][Next]_vars

\* The timer keeps firing, what runs goes on, and time passes.
FairSpec ==
    /\ Spec
    /\ \A d \in Drains : WF_vars(DrainStep(d))
    /\ \A e \in Payouts : WF_vars(GrowIdle(e))
-----------------------------------------------------------------------------

(***************************************************************************)
(* "Idempotent payout processing guard" (tryClaimPayoutProcessed): no part *)
(* of a payout takes effect twice, although entries are delivered again,   *)
(* to drains that overlap, while the first delivery is still at work.      *)
(***************************************************************************)
AppliedOnce ==
    \A e \in Payouts, i \in 1..MaxParts : applied[e][i] <= 1

\* The parts of a payout that are for a player.
Applied(e, kind, u) ==
    \E i \in 1..Len(Program[e]) :
        Program[e][i] = For(kind, u) /\ applied[e][i] > 0

Counted(e) ==
    \A h \in 1..Len(Humans[e]), kind \in {"stats", "lists", "risk"} :
        Applied(e, kind, Humans[e][h])

(***************************************************************************)
(* An entry that is acknowledged was counted for all its players or is     *)
(* being counted: as long as nothing fails, an acknowledgement by a drain  *)
(* that lost the claim loses nothing.                                      *)
(***************************************************************************)
AckedIsCounted ==
    \A e \in Payouts :
        failures = 0 /\ stream[e] = "acked"
            => Counted(e) \/ \E d \in Drains : job[d].entry = e /\ Scoring(d)

(***************************************************************************)
(* "Reclaim idle messages so restarts and failures do not strand data"     *)
(* (reclaimStalePending's comment): the same whatever fails.               *)
(***************************************************************************)
AckedIsCountedAlways ==
    \A e \in Payouts :
        stream[e] = "acked"
            => Counted(e) \/ \E d \in Drains : job[d].entry = e /\ Scoring(d)

(***************************************************************************)
(* A limit that staff set is theirs: while staff and scoring take turns,   *)
(* no payout replaces it (maybeAutoLimit's look at "manual").              *)
(***************************************************************************)
ManualStands ==
    [][regime = Turns => \A d \in Drains, u \in Players :
          SetLimit(d) /\ mitigation[u].manual => mitigation'[u] = mitigation[u]]_vars

(***************************************************************************)
(* Every published payout is acknowledged in the end, whatever of the      *)
(* bounded failures happen ("XAUTOCLAIM will retry after min-idle").       *)
(***************************************************************************)
EveryPayoutAcked ==
    \A e \in Payouts : regime # Turns /\ stream[e] = "new" ~> stream[e] = "acked"

=============================================================================
