-------------------------- MODULE FraudStreamProofs --------------------------
(***************************************************************************)
(* Proofs about FraudStream for any payouts, players, drains, staff and    *)
(* failures, in every regime: type correctness, that no part of a payout   *)
(* takes effect twice, that an acknowledgement loses nothing while nothing *)
(* fails, and that a limit of staff stands.                                *)
(***************************************************************************)
EXTENDS FraudStream, SequenceTheorems, TLAPS

USE DEF streamVars, userVars

-----------------------------------------------------------------------------
(* The program of a payout.                                                *)

\* What it means to be in the range of the numbers of parts.
LEMMA InRange ==
    ASSUME NEW n \in 0..MaxParts
    PROVE  n \in Nat /\ n <= MaxParts
BY DEF MaxParts

\* The parts of a payout of one player.
LEMMA ProgramOfOne ==
    ASSUME NEW e \in Payouts, Len(Humans[e]) = 1
    PROVE  Program[e] = <<For("stats", First(e)), For("lists", First(e)),
                          For("risk", First(e)), For("limit", First(e))>>
<1> DEFINE one == <<For("stats", First(e)), For("lists", First(e)),
                    For("risk", First(e)), For("limit", First(e))>>
           two == <<For("stats", First(e)), For("lists", First(e)),
                    For("stats", Second(e)), For("lists", Second(e)),
                    For("pair", First(e)), For("flow", First(e)),
                    For("risk", First(e)), For("limit", First(e)),
                    For("risk", Second(e)), For("limit", Second(e))>>
<1>1. Program[e] = IF Len(Humans[e]) = 0 THEN <<>>
                   ELSE IF Len(Humans[e]) = 1 THEN one ELSE two
  BY Zenon DEF Program
<1> HIDE DEF one, two
<1>2. Program[e] = one BY <1>1
<1> QED BY <1>2 DEF one

\* A payout has MaxParts parts at most, each for a player.
LEMMA ProgramParts ==
    ASSUME NEW e \in Payouts
    PROVE  /\ Program[e] \in Seq(Parts)
           /\ Len(Program[e]) \in 0..MaxParts
<1>1. /\ Humans[e] \in Seq(Players)
      /\ Len(Humans[e]) \in 0..2
      BY FraudAssumptions
<1>2. Len(Humans[e]) # 0 => First(e) \in Players BY <1>1 DEF First
<1>3. ASSUME NEW u \in Players, NEW kind \in Kinds
      PROVE  For(kind, u) \in Parts
      BY DEF For, Parts
<1>4. CASE Len(Humans[e]) = 0
  <2>1. Program[e] = <<>> BY <1>4 DEF Program
  <2> QED BY <2>1 DEF MaxParts
<1>5. CASE Len(Humans[e]) = 1
  <2>1. Program[e] = <<For("stats", First(e)), For("lists", First(e)),
                       For("risk", First(e)), For("limit", First(e))>>
        BY <1>5, ProgramOfOne
  <2> QED BY <1>2, <1>3, <1>5, <2>1 DEF MaxParts, Kinds, Counters
<1>6. CASE Len(Humans[e]) = 2
  <2>1. Program[e] = <<For("stats", First(e)), For("lists", First(e)),
                       For("stats", Second(e)), For("lists", Second(e)),
                       For("pair", First(e)), For("flow", First(e)),
                       For("risk", First(e)), For("limit", First(e)),
                       For("risk", Second(e)), For("limit", Second(e))>>
    <3>1. ~(Len(Humans[e]) = 0) /\ ~(Len(Humans[e]) = 1) BY <1>6
    <3> QED BY <3>1 DEF Program
  <2>2. Second(e) \in Players BY <1>1, <1>6 DEF Second
  <2> QED BY <1>2, <1>3, <1>6, <2>1, <2>2 DEF MaxParts, Kinds, Counters
<1> QED BY <1>1, <1>4, <1>5, <1>6

-----------------------------------------------------------------------------
(* The inductive invariant: who may still apply what.                      *)

\* A drain that scores has claimed its payout, nobody else scores it, and the
\* part it has come to, and all after, have had no effect yet.
OneScorer ==
    /\ \A e \in Payouts \ claimed, i \in 1..MaxParts : applied[e][i] = 0
    /\ \A d \in Drains : Scoring(d) =>
          /\ job[d].entry \in claimed
          /\ job[d].part <= Len(Program[job[d].entry])
          /\ \A i \in 1..MaxParts :
                i >= job[d].part => applied[job[d].entry][i] = 0
    /\ \A c, d \in Drains :
          Scoring(c) /\ Scoring(d) /\ job[c].entry = job[d].entry => c = d

IInv == TypeOK /\ OneScorer /\ AppliedOnce

\* The job of one drain, replaced by a well-typed one.
LEMMA JobUpdate ==
    ASSUME job \in [Drains -> Jobs], NEW d \in Drains, NEW x \in Jobs
    PROVE  [job EXCEPT ![d] = x] \in [Drains -> Jobs]
OBVIOUS

\* A drain that rests, with whatever stage and batch, has a well-typed job.
LEMMA RestingType ==
    ASSUME NEW stage \in {"reclaim", "read"}, NEW batch \in SUBSET Payouts
    PROVE  [Resting EXCEPT !.stage = stage, !.batch = batch] \in Jobs
<1>1. Resting \in Jobs BY DEF Resting, Jobs, MaxParts
<1> QED BY <1>1 DEF Jobs

\* When one drain stops scoring, or scores nothing, the rest is as before.
LEMMA StopsScoring ==
    ASSUME IInv, NEW d \in Drains, NEW x \in Jobs, x.at \in {"none", "ack"},
           job' = [job EXCEPT ![d] = x],
           claimed' = claimed, applied' = applied
    PROVE  OneScorer'
<1>1. job'[d] = x /\ \A c \in Drains \ {d} : job'[c] = job[c]
      BY DEF IInv, TypeOK
<1>2. ~Scoring(d)' BY <1>1 DEF Scoring
<1>3. \A c \in Drains : Scoring(c)' => c # d /\ Scoring(c) /\ job'[c] = job[c]
      BY <1>1, <1>2 DEF Scoring
<1> QED BY <1>3 DEF IInv, OneScorer

\* The part a scoring drain has come to is one of its payout's, for a player.
LEMMA PartType ==
    ASSUME IInv, NEW d \in Drains, Scoring(d)
    PROVE  /\ job[d].entry \in Payouts
           /\ job[d].part \in 1..MaxParts
           /\ job[d].part \in 1..Len(Program[job[d].entry])
           /\ Part(d) \in Parts
<1>1. job[d] \in Jobs BY DEF IInv, TypeOK
<1>2. job[d].entry \in Payouts /\ job[d].entry \in claimed
      BY DEF IInv, OneScorer, TypeOK
<1> DEFINE e == job[d].entry
<1>3. Program[e] \in Seq(Parts) /\ Len(Program[e]) \in 0..MaxParts
      BY <1>2, ProgramParts
<1>4. job[d].part \in Nat /\ job[d].part >= 1 BY <1>1 DEF Jobs, MaxParts
<1>5. job[d].part <= Len(Program[e]) BY DEF IInv, OneScorer
<1>6. Len(Program[e]) \in Nat /\ Len(Program[e]) <= MaxParts
  <2>1. Len(Program[e]) \in 0..MaxParts BY <1>3
  <2> QED BY <2>1, InRange
<1>7. job[d].part \in 1..Len(Program[e]) /\ job[d].part \in 1..MaxParts
  <2> HIDE DEF e
  <2> QED BY <1>4, <1>5, <1>6 DEF MaxParts
<1>8. Part(d) \in Parts
  <2> DEFINE q == Program[e]
  <2>1. q \in Seq(Parts) /\ job[d].part \in 1..Len(q) BY <1>3, <1>7
  <2> HIDE DEF q
  <2>2. q[job[d].part] \in Parts BY <2>1
  <2> QED BY <2>2 DEF Part, q
<1> QED BY <1>2, <1>7, <1>8

\* A part takes effect and the drain moves on: only once, and no other drain
\* is at this payout.
LEMMA AdvanceStep ==
    ASSUME IInv, NEW d \in Drains, Scoring(d), Advance(d), claimed' = claimed
    PROVE  /\ job' \in [Drains -> Jobs]
           /\ applied' \in [Payouts -> [1..MaxParts -> Nat]]
           /\ OneScorer'
           /\ AppliedOnce'
<1> DEFINE e == job[d].entry
           i == job[d].part
           x == [job[d] EXCEPT
                   !.at = IF i = Len(Program[e]) THEN "ack" ELSE "apply",
                   !.part = i + 1]
<1>0. job[d] \in Jobs BY DEF IInv, TypeOK
<1>1. e \in Payouts /\ i \in 1..MaxParts /\ i \in 1..Len(Program[e])
      BY PartType
<1>2. e \in claimed BY DEF IInv, OneScorer
<1>3. \A k \in 1..MaxParts : k >= i => applied[e][k] = 0
      BY DEF IInv, OneScorer
<1>4. i + 1 \in 1..(MaxParts + 1) BY <1>1 DEF MaxParts
<1>5. x \in Jobs BY <1>0, <1>4 DEF Jobs
<1>6. /\ x.entry = e /\ x.part = i + 1
      /\ x.at = IF i = Len(Program[e]) THEN "ack" ELSE "apply"
      BY <1>0 DEF Jobs
<1>7. job' = [job EXCEPT ![d] = x] BY DEF Advance, Goto
<1>8. job' \in [Drains -> Jobs] BY <1>5, <1>7, JobUpdate DEF IInv, TypeOK
<1>9. job'[d] = x /\ \A c \in Drains \ {d} : job'[c] = job[c]
      BY <1>7 DEF IInv, TypeOK
<1>10. applied' = [applied EXCEPT ![e][i] = applied[e][i] + 1]
       BY DEF Advance
<1>11. applied[e][i] = 0
  <2>1. i >= i BY <1>1
  <2> QED BY <1>1, <1>3, <2>1
<1>12. applied \in [Payouts -> [1..MaxParts -> Nat]] BY DEF IInv, TypeOK
<1> HIDE DEF e, i, x
<1>13. applied' = [applied EXCEPT ![e][i] = 1] BY <1>10, <1>11
<1>14. applied' \in [Payouts -> [1..MaxParts -> Nat]] BY <1>1, <1>12, <1>13
<1>15. \A f \in Payouts, k \in 1..MaxParts :
          applied'[f][k] = IF f = e /\ k = i THEN 1 ELSE applied[f][k]
       BY <1>1, <1>12, <1>13
<1>16. AppliedOnce' BY <1>15 DEF IInv, AppliedOnce
<1>17. \A f \in Payouts \ claimed', k \in 1..MaxParts : applied'[f][k] = 0
       BY <1>2, <1>15 DEF IInv, OneScorer
<1>18. \A c \in Drains : Scoring(c)' => Scoring(c) /\ job'[c].entry = job[c].entry
  <2>1. job[d].entry = e BY DEF e
  <2> QED BY <1>6, <1>9, <2>1 DEF Scoring
<1>19. ASSUME NEW c \in Drains, Scoring(c)'
       PROVE  /\ job'[c].entry \in claimed'
              /\ job'[c].part <= Len(Program[job'[c].entry])
              /\ \A k \in 1..MaxParts :
                    k >= job'[c].part => applied'[job'[c].entry][k] = 0
  <2>1. CASE c = d
    <3>1. x.at = "apply" BY <1>6, <1>9, <1>19, <2>1 DEF Scoring
    <3>2. i # Len(Program[e]) BY <1>6, <3>1
    <3>3. Len(Program[e]) \in Nat BY <1>1, ProgramParts DEF MaxParts
    <3>4. i + 1 <= Len(Program[e]) BY <1>1, <3>2, <3>3
    <3>5. \A k \in 1..MaxParts : k >= i + 1 => k # i /\ k >= i
          BY <1>1
    <3> QED BY <1>1, <1>2, <1>3, <1>6, <1>9, <1>15, <2>1, <3>4, <3>5
  <2>2. CASE c # d
    <3>1. Scoring(c) /\ job'[c] = job[c] BY <1>9, <1>18, <1>19, <2>2
    <3>2. job[c].entry # e BY <2>2, <3>1 DEF IInv, OneScorer, e
    <3>3. job[c].entry \in Payouts BY <3>1, PartType
    <3> QED BY <1>15, <3>1, <3>2, <3>3 DEF IInv, OneScorer
  <2> QED BY <2>1, <2>2
<1>20. \A b, c \in Drains :
          Scoring(b)' /\ Scoring(c)' /\ job'[b].entry = job'[c].entry => b = c
       BY <1>18 DEF IInv, OneScorer
<1>21. OneScorer' BY <1>17, <1>19, <1>20 DEF OneScorer
<1> QED BY <1>8, <1>14, <1>16, <1>21

-----------------------------------------------------------------------------
(* The steps.                                                              *)

\* What holds of a step that leaves OneScorer's variables alone.
LEMMA Elsewhere ==
    ASSUME IInv, UNCHANGED <<claimed, applied, job>>
    PROVE  OneScorer' /\ AppliedOnce'
BY DEF IInv, OneScorer, AppliedOnce, Scoring

\* A drain takes entries of the stream into its empty hands.
LEMMA TakeBatch ==
    ASSUME IInv, NEW d \in Drains, Reclaim(d) \/ ReadNew(d)
    PROVE  IInv'
<1>1. PICK x \in Jobs : x.at = "none" /\ job' = [job EXCEPT ![d] = x]
  <2>1. CASE Reclaim(d)
    <3> DEFINE stage == IF In("idle") = {} THEN "read" ELSE "reclaim"
               x == [Resting EXCEPT !.stage = stage, !.batch = In("idle")]
    <3>1. stage \in {"reclaim", "read"} /\ In("idle") \in SUBSET Payouts
          BY DEF In
    <3>2. x \in Jobs BY <3>1, RestingType
    <3>3. x.at = "none" BY DEF Resting
    <3>4. job' = [job EXCEPT ![d] = x] BY <2>1 DEF Reclaim
    <3> QED BY <3>2, <3>3, <3>4
  <2>2. CASE ReadNew(d)
    <3> DEFINE x == [Resting EXCEPT !.batch = In("new")]
    <3>1. Resting \in Jobs BY DEF Resting, Jobs, MaxParts
    <3>2. In("new") \in SUBSET Payouts BY DEF In
    <3>3. x \in Jobs BY <3>1, <3>2 DEF Jobs
    <3>4. x.at = "none" BY DEF Resting
    <3>5. job' = [job EXCEPT ![d] = x] BY <2>2 DEF ReadNew
    <3> QED BY <3>3, <3>4, <3>5
  <2> QED BY <2>1, <2>2
<1>2. job' \in [Drains -> Jobs] BY <1>1, JobUpdate DEF IInv, TypeOK
<1>3. UNCHANGED <<claimed, applied, userVars, task, regime, failures>>
      BY DEF Reclaim, ReadNew
<1>4. stream' \in [Payouts -> {"unsent", "new", "pending", "idle", "acked"}]
      BY DEF Reclaim, ReadNew, Deliver, IInv, TypeOK
<1>5. TypeOK' BY <1>2, <1>3, <1>4 DEF IInv, TypeOK
<1>6. OneScorer' BY <1>1, <1>3, StopsScoring
<1>7. AppliedOnce' BY <1>3 DEF IInv, AppliedOnce
<1> QED BY <1>5, <1>6, <1>7 DEF IInv

\* A claim that succeeds finds a payout of which nothing has had effect yet and
\* that nobody scores; one that fails scores nothing.
LEMMA ClaimStep ==
    ASSUME IInv, NEW d \in Drains, NEW e \in Payouts, Claim(d, e)
    PROVE  IInv'
<1> DEFINE x == [job[d] EXCEPT
                   !.batch = job[d].batch \ {e},
                   !.at = IF NewlyClaimed(e) THEN AfterClaim(e) ELSE AfterLostClaim(e),
                   !.entry = e, !.part = 1]
<1>1. job[d] \in Jobs BY DEF IInv, TypeOK
<1>2. x \in Jobs
  <2>1. job[d].batch \ {e} \in SUBSET Payouts BY <1>1 DEF Jobs
  <2>2. (IF NewlyClaimed(e) THEN AfterClaim(e) ELSE AfterLostClaim(e))
           \in {"none", "apply", "set", "ack"}
        BY DEF AfterLostClaim, AfterClaim
  <2>3. 1 \in 1..(MaxParts + 1) BY DEF MaxParts
  <2> QED BY <1>1, <2>1, <2>2, <2>3 DEF Jobs
<1>3. /\ x.entry = e /\ x.part = 1
      /\ x.at = IF e \notin claimed THEN AfterClaim(e) ELSE "ack"
      BY <1>1 DEF Jobs, NewlyClaimed, AfterLostClaim
<1>4. /\ job' = [job EXCEPT ![d] = x]
      /\ claimed' = claimed \cup {e}
      /\ UNCHANGED <<stream, applied, userVars, task, regime, failures>>
      BY DEF Claim
<1> HIDE DEF x
<1>5. TypeOK' BY <1>2, <1>4, JobUpdate DEF IInv, TypeOK
<1>6. job'[d] = x /\ \A c \in Drains \ {d} : job'[c] = job[c]
      BY <1>4 DEF IInv, TypeOK
<1>7. AppliedOnce' BY <1>4 DEF IInv, AppliedOnce
<1>8. \A f \in Payouts \ claimed', i \in 1..MaxParts : applied'[f][i] = 0
      BY <1>4 DEF IInv, OneScorer
<1>9. \A c \in Drains : c # d /\ Scoring(c)' => Scoring(c) /\ job'[c] = job[c]
      BY <1>6 DEF Scoring
<1>10. Scoring(d)' => e \notin claimed /\ Program[e] # <<>>
       BY <1>3, <1>6 DEF Scoring, AfterClaim
<1>11. ASSUME NEW c \in Drains, Scoring(c)'
       PROVE  /\ job'[c].entry \in claimed'
              /\ job'[c].part <= Len(Program[job'[c].entry])
              /\ \A i \in 1..MaxParts :
                    i >= job'[c].part => applied'[job'[c].entry][i] = 0
  <2>1. CASE c = d
    <3>1. Program[e] \in Seq(Parts) /\ Len(Program[e]) \in 0..MaxParts
          BY ProgramParts
    <3>2. 1 <= Len(Program[e])
      <4>1. Program[e] # <<>> BY <1>10, <1>11, <2>1
      <4>2. Len(Program[e]) # 0 BY <3>1, <4>1, EmptySeq
      <4> QED BY <3>1, <4>2, InRange
    <3>3. \A i \in 1..MaxParts : applied'[e][i] = 0
          BY <1>4, <1>10, <1>11, <2>1 DEF IInv, OneScorer
    <3> QED BY <1>3, <1>4, <1>6, <2>1, <3>2, <3>3
  <2>2. CASE c # d
    <3>1. Scoring(c) /\ job'[c] = job[c] BY <1>9, <1>11, <2>2
    <3> QED BY <1>4, <3>1 DEF IInv, OneScorer
  <2> QED BY <2>1, <2>2
<1>12. ASSUME NEW b \in Drains, NEW c \in Drains, Scoring(b)', Scoring(c)',
              job'[b].entry = job'[c].entry
       PROVE  b = c
  <2>1. CASE b # d /\ c # d
        BY <1>9, <1>12, <2>1 DEF IInv, OneScorer
  <2>2. CASE b = d /\ c # d
    <3>1. Scoring(c) /\ job'[c] = job[c] BY <1>9, <1>12, <2>2
    <3>2. job[c].entry \in claimed BY <3>1 DEF IInv, OneScorer
    <3> QED BY <1>3, <1>6, <1>10, <1>12, <2>2, <3>1, <3>2
  <2>3. CASE b # d /\ c = d
    <3>1. Scoring(b) /\ job'[b] = job[b] BY <1>9, <1>12, <2>3
    <3>2. job[b].entry \in claimed BY <3>1 DEF IInv, OneScorer
    <3> QED BY <1>3, <1>6, <1>10, <1>12, <2>3, <3>1, <3>2
  <2> QED BY <2>1, <2>2, <2>3
<1>13. OneScorer' BY <1>8, <1>11, <1>12 DEF OneScorer
<1> QED BY <1>5, <1>7, <1>13 DEF IInv

\* The steps that make a part take effect.
LEMMA PartStep ==
    ASSUME IInv, NEW d \in Drains,
           Count(d) \/ WriteUserRiskState(d) \/ SkipLimit(d) \/ SetLimit(d)
    PROVE  IInv'
<1>1. Scoring(d) /\ Advance(d)
      BY DEF Count, WriteUserRiskState, SkipLimit, SetLimit, Scoring
<1>2. UNCHANGED <<stream, claimed, task, regime, failures>>
      BY DEF Count, WriteUserRiskState, SkipLimit, SetLimit
<1>3. /\ job' \in [Drains -> Jobs]
      /\ applied' \in [Payouts -> [1..MaxParts -> Nat]]
      /\ OneScorer'
      /\ AppliedOnce'
      BY <1>1, <1>2, AdvanceStep
<1>4. Part(d).user \in Players BY <1>1, PartType DEF Parts
<1>5. risk' \in SUBSET Players
      BY <1>4 DEF Count, WriteUserRiskState, SkipLimit, SetLimit, IInv, TypeOK
<1>6. mitigation' \in [Players -> Mitigations]
  <2>1. CASE SetLimit(d)
    <3> DEFINE u == Part(d).user
               m == [mitigation[u] EXCEPT !.scale = AutoScale]
    <3>1. mitigation[u] \in Mitigations BY <1>4 DEF IInv, TypeOK
    <3>2. m \in Mitigations BY <3>1 DEF Mitigations, AutoScale
    <3>3. mitigation' = [mitigation EXCEPT ![u] = m] BY <2>1 DEF SetLimit
    <3> HIDE DEF u, m
    <3> QED BY <3>2, <3>3 DEF IInv, TypeOK
  <2>2. CASE ~SetLimit(d)
        BY <2>2 DEF Count, WriteUserRiskState, SkipLimit, IInv, TypeOK
  <2> QED BY <2>1, <2>2
<1> QED BY <1>2, <1>3, <1>5, <1>6 DEF IInv, TypeOK

\* Before it writes a limit the drain stays at the part it is at.
LEMMA EarnLimitStep ==
    ASSUME IInv, NEW d \in Drains, EarnLimit(d)
    PROVE  IInv'
<1> DEFINE x == [job[d] EXCEPT !.at = "set", !.part = job[d].part]
<1>1. job[d] \in Jobs BY DEF IInv, TypeOK
<1>2. x \in Jobs /\ x.at = "set" /\ x.part = job[d].part
      /\ x.entry = job[d].entry
      BY <1>1 DEF Jobs
<1>3. job' = [job EXCEPT ![d] = x] BY DEF EarnLimit, Goto
<1>4. UNCHANGED <<streamVars, userVars, task, regime, failures>>
      BY DEF EarnLimit
<1>5. Scoring(d) BY DEF EarnLimit, Scoring
<1> HIDE DEF x
<1>6. TypeOK' BY <1>2, <1>3, <1>4, JobUpdate DEF IInv, TypeOK
<1>7. job'[d] = x /\ \A c \in Drains \ {d} : job'[c] = job[c]
      BY <1>3 DEF IInv, TypeOK
<1>8. \A c \in Drains : /\ Scoring(c)' => Scoring(c)
                        /\ job'[c].entry = job[c].entry
                        /\ job'[c].part = job[c].part
      BY <1>2, <1>5, <1>7 DEF Scoring
<1>9. OneScorer' BY <1>4, <1>8 DEF IInv, OneScorer
<1>10. AppliedOnce' BY <1>4 DEF IInv, AppliedOnce
<1> QED BY <1>6, <1>9, <1>10 DEF IInv

\* A drain that is done with its entry, or gives it up, scores nothing.
LEMMA NextEntryStep ==
    ASSUME IInv, NEW d \in Drains, NextEntry(d),
           claimed' = claimed, applied' = applied
    PROVE  job' \in [Drains -> Jobs] /\ OneScorer'
<1> DEFINE x == [Resting EXCEPT !.stage = job[d].stage, !.batch = job[d].batch]
<1>1. job[d] \in Jobs BY DEF IInv, TypeOK
<1>2. job[d].stage \in {"reclaim", "read"} /\ job[d].batch \in SUBSET Payouts
      BY <1>1 DEF Jobs
<1>3. x \in Jobs BY <1>2, RestingType
<1>4. x.at = "none" BY DEF Resting
<1>5. job' = [job EXCEPT ![d] = x] BY DEF NextEntry
<1> HIDE DEF x
<1> QED BY <1>3, <1>4, <1>5, JobUpdate, StopsScoring DEF IInv, TypeOK

\* An acknowledgement takes the drain to its next entry.
LEMMA AckStep ==
    ASSUME IInv, NEW d \in Drains, Ack(d)
    PROVE  IInv'
<1>1. UNCHANGED <<claimed, applied, userVars, task, regime, failures>>
      BY DEF Ack
<1>2. job' \in [Drains -> Jobs] /\ OneScorer'
      BY <1>1, NextEntryStep DEF Ack
<1>3. stream' \in [Payouts -> {"unsent", "new", "pending", "idle", "acked"}]
      BY DEF Ack, IInv, TypeOK
<1>4. AppliedOnce' BY <1>1 DEF IInv, AppliedOnce
<1> QED BY <1>1, <1>2, <1>3, <1>4 DEF IInv, TypeOK

\* A fetch that throws leaves the drain with empty hands.
LEMMA FetchFailsStep ==
    ASSUME IInv, NEW d \in Drains, FetchFails(d)
    PROVE  IInv'
<1> DEFINE stage == IF job[d].stage = "reclaim" THEN "read" ELSE "reclaim"
           x == [Resting EXCEPT !.stage = stage, !.batch = {}]
<1>1. UNCHANGED <<claimed, applied, userVars, task, regime>> BY DEF FetchFails
<1>2. failures' \in 0..MaxFailures
      BY FraudAssumptions DEF FetchFails, MayFail, IInv, TypeOK
<1>3. stream' \in [Payouts -> {"unsent", "new", "pending", "idle", "acked"}]
      BY DEF FetchFails, Deliver, IInv, TypeOK
<1>4. x \in Jobs BY RestingType
<1>5. x.at = "none" BY DEF Resting
<1>6. job' = [job EXCEPT ![d] = x] BY DEF FetchFails
<1> HIDE DEF x
<1>7. job' \in [Drains -> Jobs] BY <1>4, <1>6, JobUpdate DEF IInv, TypeOK
<1>8. OneScorer' BY <1>1, <1>4, <1>5, <1>6, StopsScoring
<1>9. AppliedOnce' BY <1>1 DEF IInv, AppliedOnce
<1> QED BY <1>1, <1>2, <1>3, <1>7, <1>8, <1>9 DEF IInv, TypeOK

\* A failure drops an entry: what had effect stays, and stays claimed.
LEMMA FailStep ==
    ASSUME IInv, NEW d \in Drains, Fail(d)
    PROVE  IInv'
<1>1. UNCHANGED <<streamVars, userVars, regime, task>> BY DEF Fail
<1>2. failures' \in 0..MaxFailures
      BY FraudAssumptions DEF Fail, MayFail, IInv, TypeOK
<1>3. job' \in [Drains -> Jobs] /\ OneScorer'
  <2>1. CASE NextEntry(d) BY <1>1, <2>1, NextEntryStep
  <2>2. ASSUME NEW e \in job[d].batch, job[d].at = "none",
               job' = [job EXCEPT ![d].batch = @ \ {e}]
        PROVE  job' \in [Drains -> Jobs] /\ OneScorer'
    <3> DEFINE x == [job[d] EXCEPT !.batch = job[d].batch \ {e}]
    <3>1. job[d] \in Jobs BY DEF IInv, TypeOK
    <3>2. x \in Jobs /\ x.at = "none" BY <2>2, <3>1 DEF Jobs
    <3>3. job' = [job EXCEPT ![d] = x] BY <2>2
    <3> HIDE DEF x
    <3> QED BY <1>1, <3>2, <3>3, JobUpdate, StopsScoring DEF IInv, TypeOK
  <2> QED BY <2>1, <2>2 DEF Fail
<1>4. AppliedOnce' BY <1>1 DEF IInv, AppliedOnce
<1> QED BY <1>1, <1>2, <1>3, <1>4 DEF IInv, TypeOK

\* A crash drops everything in hand.
LEMMA CrashStep ==
    ASSUME IInv, Crash
    PROVE  IInv'
<1>1. UNCHANGED <<streamVars, userVars, regime>> BY DEF Crash
<1>2. failures' \in 0..MaxFailures
      BY FraudAssumptions DEF Crash, MayFail, IInv, TypeOK
<1>3. Resting \in Jobs /\ Resting.at = "none"
      BY DEF Resting, Jobs, MaxParts
<1>4. job' = [d \in Drains |-> Resting] BY DEF Crash
<1>5. job' \in [Drains -> Jobs] BY <1>3, <1>4
<1>6. \A d \in Drains : ~Scoring(d)' BY <1>3, <1>4 DEF Scoring
<1>7. OneScorer' BY <1>1, <1>6 DEF IInv, OneScorer
<1>8. FreeStaff \in Tasks BY DEF FreeStaff, Tasks
<1>9. task' \in [Staff -> Tasks] BY <1>8 DEF Crash
<1>10. AppliedOnce' BY <1>1 DEF IInv, AppliedOnce
<1> QED BY <1>1, <1>2, <1>5, <1>7, <1>9, <1>10 DEF IInv, TypeOK

\* Staff touch neither the stream nor the drains.
LEMMA StaffStepKeeps ==
    ASSUME IInv, NEW s \in Staff, StaffStep(s)
    PROVE  IInv'
<1>1. UNCHANGED <<streamVars, job, regime, failures>>
      BY DEF StaffStep, LimitUser, FlagUser, ClearRisk, FlagRisk, ClearMitigation
<1>2. OneScorer' /\ AppliedOnce' BY <1>1, Elsewhere
<1>3. Suspects \subseteq Players BY FraudAssumptions
<1>4. FreeStaff \in Tasks BY DEF FreeStaff, Tasks
<1>5. ASSUME NEW u \in Suspects, LimitUser(s, u)
      PROVE  TypeOK'
  <2>1. PICK scale \in {"staff", mitigation[u].scale} :
           mitigation' = [mitigation EXCEPT ![u] = [manual |-> TRUE,
                                                    scale |-> scale]]
        BY <1>5 DEF LimitUser
  <2>2. u \in Players /\ mitigation[u] \in Mitigations
        BY <1>3 DEF IInv, TypeOK
  <2>3. [manual |-> TRUE, scale |-> scale] \in Mitigations
        BY <2>2 DEF Mitigations
  <2>4. mitigation' \in [Players -> Mitigations]
        BY <2>1, <2>2, <2>3 DEF IInv, TypeOK
  <2> QED BY <1>1, <1>5, <2>4 DEF LimitUser, IInv, TypeOK
<1>6. ASSUME NEW u \in Suspects, FlagUser(s, u)
      PROVE  TypeOK'
  <2> DEFINE m == [mitigation[u] EXCEPT !.manual = TRUE]
  <2>1. u \in Players /\ mitigation[u] \in Mitigations
        BY <1>3 DEF IInv, TypeOK
  <2>2. m \in Mitigations BY <2>1 DEF Mitigations
  <2>3. mitigation' = [mitigation EXCEPT ![u] = m] BY <1>6 DEF FlagUser
  <2> HIDE DEF m
  <2>4. mitigation' \in [Players -> Mitigations]
        BY <2>1, <2>2, <2>3 DEF IInv, TypeOK
  <2>5. [kind |-> "flag", user |-> u] \in Tasks BY DEF Tasks
  <2>6. task' \in [Staff -> Tasks]
        BY <1>6, <2>5 DEF FlagUser, IInv, TypeOK
  <2> QED BY <1>1, <1>6, <2>4, <2>6 DEF FlagUser, IInv, TypeOK
<1>7. ASSUME NEW u \in Suspects, ClearRisk(s, u)
      PROVE  TypeOK'
  <2>1. [kind |-> "clear", user |-> u] \in Tasks BY DEF Tasks
  <2>2. task' \in [Staff -> Tasks]
        BY <1>7, <2>1 DEF ClearRisk, IInv, TypeOK
  <2> QED BY <1>1, <1>7, <2>2 DEF ClearRisk, IInv, TypeOK
<1>8. ASSUME FlagRisk(s) \/ ClearMitigation(s)
      PROVE  TypeOK'
  <2>1. task' \in [Staff -> Tasks]
        BY <1>4, <1>8 DEF FlagRisk, ClearMitigation, IInv, TypeOK
  <2>2. CASE ClearMitigation(s)
    <3>1. NoMitigation \in Mitigations BY DEF NoMitigation, Mitigations
    <3>2. mitigation' \in [Players -> Mitigations]
          BY <2>2, <3>1 DEF ClearMitigation, IInv, TypeOK
    <3> QED BY <1>1, <2>1, <2>2, <3>2 DEF ClearMitigation, IInv, TypeOK
  <2>3. CASE FlagRisk(s)
    <3>1. task[s] \in Tasks /\ task[s].kind = "flag"
          BY <2>3 DEF FlagRisk, IInv, TypeOK
    <3>2. task[s].user \in Players
          BY <1>3, <3>1 DEF Tasks, FreeStaff
    <3>3. risk' \in SUBSET Players
          BY <2>3, <3>2 DEF FlagRisk, IInv, TypeOK
    <3> QED BY <1>1, <2>1, <2>3, <3>3 DEF FlagRisk, IInv, TypeOK
  <2> QED BY <1>8, <2>2, <2>3
<1>9. TypeOK' BY <1>5, <1>6, <1>7, <1>8 DEF StaffStep
<1> QED BY <1>2, <1>9 DEF IInv

\* The game server publishes, and time passes.
LEMMA StreamStep ==
    ASSUME IInv, NEW e \in Payouts, Publish(e) \/ GrowIdle(e)
    PROVE  IInv'
<1>1. UNCHANGED <<claimed, applied, userVars, job, task, regime, failures>>
      BY DEF Publish, GrowIdle
<1>2. OneScorer' /\ AppliedOnce' BY <1>1, Elsewhere
<1>3. stream' \in [Payouts -> {"unsent", "new", "pending", "idle", "acked"}]
      BY DEF Publish, GrowIdle, IInv, TypeOK
<1> QED BY <1>1, <1>2, <1>3 DEF IInv, TypeOK

-----------------------------------------------------------------------------
(* The theorems.                                                           *)

\* At first no drain has anything and no part has taken effect.
LEMMA InitInv == Init => IInv
<1> SUFFICES ASSUME Init PROVE IInv OBVIOUS
<1>1. Resting \in Jobs /\ Resting.at = "none"
      BY DEF Resting, Jobs, MaxParts
<1>2. FreeStaff \in Tasks BY DEF FreeStaff, Tasks
<1>3. NoMitigation \in Mitigations BY DEF NoMitigation, Mitigations
<1>4. regime \in {Alone, Turns, Free} BY FraudAssumptions DEF Init
<1>5. failures \in 0..MaxFailures BY FraudAssumptions DEF Init
<1>6. TypeOK BY <1>1, <1>2, <1>3, <1>4, <1>5 DEF Init, TypeOK
<1>7. \A d \in Drains : ~Scoring(d) BY <1>1 DEF Init, Scoring
<1>8. \A e \in Payouts, i \in 1..MaxParts : applied[e][i] = 0 BY DEF Init
<1>9. OneScorer BY <1>7, <1>8 DEF OneScorer
<1>10. AppliedOnce BY <1>8 DEF AppliedOnce
<1> QED BY <1>6, <1>9, <1>10 DEF IInv

\* Every step keeps the invariant: one lemma per action, above.
LEMMA NextInv == IInv /\ [Next]_vars => IInv'
<1> SUFFICES ASSUME IInv, [Next]_vars PROVE IInv' OBVIOUS
<1>1. ASSUME NEW e \in Payouts, Publish(e) \/ GrowIdle(e)
      PROVE  IInv'
      BY <1>1, StreamStep
<1>2. ASSUME NEW d \in Drains, DrainStep(d)
      PROVE  IInv'
      BY <1>2, TakeBatch, ClaimStep, PartStep, EarnLimitStep, AckStep
         DEF DrainStep, ProcessOneEntry
<1>3. ASSUME NEW d \in Drains, Fail(d) \/ FetchFails(d)
      PROVE  IInv'
      BY <1>3, FailStep, FetchFailsStep
<1>4. ASSUME NEW s \in Staff, StaffStep(s)
      PROVE  IInv'
      BY <1>4, StaffStepKeeps
<1>5. CASE Crash BY <1>5, CrashStep
<1>6. CASE UNCHANGED vars
  <2>1. TypeOK' BY <1>6 DEF vars, IInv, TypeOK
  <2>2. OneScorer' /\ AppliedOnce' BY <1>6, Elsewhere DEF vars
  <2> QED BY <2>1, <2>2 DEF IInv
<1> QED BY <1>1, <1>2, <1>3, <1>4, <1>5, <1>6 DEF Next

\* The stream, the players' records and all jobs stay well formed, whatever
\* fails and whatever staff do.
THEOREM FraudTypeCorrect == Spec => []TypeOK
<1>1. IInv => TypeOK BY DEF IInv
<1> QED BY <1>1, InitInv, NextInv, PTL DEF Spec

\* No part of a payout takes effect twice (tryClaimPayoutProcessed), however
\* many drains overlap, fail and restart.
THEOREM PayoutAppliedOnce == Spec => []AppliedOnce
<1>1. IInv => AppliedOnce BY DEF IInv
<1> QED BY <1>1, InitInv, NextInv, PTL DEF Spec

-----------------------------------------------------------------------------
(* What is acknowledged, and what is limited.                              *)

\* All parts of a payout took effect.
PartsDone(e) == \A i \in 1..MaxParts : i <= Len(Program[e]) => applied[e][i] > 0

\* A drain that scores has been through the parts before the one it has come to.
InOrder ==
    \A d \in Drains : Scoring(d) =>
        \A i \in 1..MaxParts : i < job[d].part => applied[job[d].entry][i] > 0

\* As long as nothing fails, what is claimed is scored or being scored.
ClaimedIsScored ==
    failures = 0 =>
        \A e \in claimed :
            PartsDone(e) \/ \E d \in Drains : job[d].entry = e /\ Scoring(d)

\* Only what somebody claimed is acknowledged.
AckedIsClaimed ==
    /\ In("acked") \subseteq claimed
    /\ \A d \in Drains : job[d].at = "ack" => job[d].entry \in claimed

\* While staff and scoring take turns, the limit that is about to be written is
\* for a player without a manual one.
LimitIsDue ==
    regime = Turns =>
        \A d \in Drains : job[d].at = "set" => ~HasManual(Part(d).user)

Whole == InOrder /\ ClaimedIsScored /\ AckedIsClaimed /\ LimitIsDue

\* What scored goes on as it was: nothing in the way of the payouts has changed.
SameScoring ==
    \A d \in Drains : /\ Scoring(d)' <=> Scoring(d)
                      /\ Scoring(d) => /\ job'[d].entry = job[d].entry
                                       /\ job'[d].part = job[d].part

\* Only a part that takes effect, a claim and a failure do more than that.
LEMMA SameScoringStep ==
    ASSUME SameScoring, UNCHANGED <<claimed, applied, failures>>,
           InOrder, ClaimedIsScored
    PROVE  InOrder' /\ ClaimedIsScored'
<1>1. InOrder' BY DEF SameScoring, InOrder
<1>2. ClaimedIsScored' BY DEF SameScoring, ClaimedIsScored, PartsDone
<1> QED BY <1>1, <1>2

\* A job replaced by another.
LEMMA OneJob ==
    ASSUME IInv, NEW d \in Drains, NEW x, job' = [job EXCEPT ![d] = x]
    PROVE  job'[d] = x /\ \A c \in Drains : c # d => job'[c] = job[c]
BY DEF IInv, TypeOK

\* The stream fetched by a drain.
LEMMA WholeFetch ==
    ASSUME IInv, Whole, NEW d \in Drains, Reclaim(d) \/ ReadNew(d)
    PROVE  Whole'
<1>1. /\ UNCHANGED <<claimed, applied, userVars, regime, failures>>
      /\ job[d].at = "none"
      /\ \E batch \in {In("idle"), In("new")} : Deliver(batch)
      BY DEF Reclaim, ReadNew, Between
<1>2. PICK x : job' = [job EXCEPT ![d] = x] /\ x.at = "none"
  <2>1. CASE Reclaim(d)
    <3> DEFINE y == [Resting EXCEPT
                       !.stage = IF In("idle") = {} THEN "read" ELSE "reclaim",
                       !.batch = In("idle")]
    <3>1. job' = [job EXCEPT ![d] = y] BY <2>1 DEF Reclaim
    <3>2. y.at = "none" BY DEF Resting
    <3> HIDE DEF y
    <3> QED BY <3>1, <3>2
  <2>2. CASE ReadNew(d)
    <3> DEFINE y == [Resting EXCEPT !.batch = In("new")]
    <3>1. job' = [job EXCEPT ![d] = y] BY <2>2 DEF ReadNew
    <3>2. y.at = "none" BY DEF Resting
    <3> HIDE DEF y
    <3> QED BY <3>1, <3>2
  <2> QED BY <2>1, <2>2
<1>3. job'[d] = x /\ \A c \in Drains : c # d => job'[c] = job[c]
      BY <1>2, OneJob
<1>4. SameScoring BY <1>1, <1>2, <1>3 DEF SameScoring, Scoring
<1>5. InOrder' /\ ClaimedIsScored'
      BY <1>1, <1>4, SameScoringStep DEF Whole
<1>6. AckedIsClaimed'
  <2>1. In("acked")' \subseteq In("acked") BY <1>1 DEF In, Deliver
  <2> QED BY <1>1, <1>2, <1>3, <2>1 DEF Whole, AckedIsClaimed
<1>7. LimitIsDue'
      BY <1>1, <1>2, <1>3 DEF Whole, LimitIsDue, HasManual, Part
<1> QED BY <1>5, <1>6, <1>7 DEF Whole

\* A claim, of a payout that is new or not.
LEMMA WholeClaim ==
    ASSUME IInv, Whole, NEW d \in Drains, NEW e \in Payouts, Claim(d, e)
    PROVE  Whole'
<1> DEFINE x == [job[d] EXCEPT
                   !.batch = job[d].batch \ {e},
                   !.at = IF NewlyClaimed(e) THEN AfterClaim(e) ELSE AfterLostClaim(e),
                   !.entry = e, !.part = 1]
<1>1. job[d] \in Jobs BY DEF IInv, TypeOK
<1>2. /\ x.entry = e /\ x.part = 1
      /\ x.at = IF e \notin claimed THEN AfterClaim(e) ELSE "ack"
      BY <1>1 DEF Jobs, NewlyClaimed, AfterLostClaim
<1>3. /\ job' = [job EXCEPT ![d] = x]
      /\ claimed' = claimed \cup {e} /\ job[d].at = "none"
      /\ UNCHANGED <<stream, applied, userVars, regime, failures>>
      BY DEF Claim
<1> HIDE DEF x
<1>4. job'[d] = x /\ \A c \in Drains : c # d => job'[c] = job[c]
      BY <1>3, OneJob
<1>5. InOrder'
  <2>1. \A i \in 1..MaxParts : ~(i < 1) BY DEF MaxParts
  <2> QED BY <1>2, <1>3, <1>4, <2>1 DEF Whole, InOrder, Scoring
<1>6. ClaimedIsScored'
  <2> SUFFICES ASSUME failures = 0, NEW f \in claimed'
               PROVE  PartsDone(f)' \/ \E c \in Drains : (job[c].entry = f /\ Scoring(c))'
      BY <1>3 DEF ClaimedIsScored
  <2>1. PartsDone(f)' <=> PartsDone(f) BY <1>3 DEF PartsDone
  <2>2. CASE f \in claimed
    <3>1. CASE PartsDone(f) BY <2>1, <3>1
    <3>2. ASSUME NEW c \in Drains, job[c].entry = f, Scoring(c)
          PROVE  (job[c].entry = f /\ Scoring(c))'
          BY <1>3, <1>4, <3>2 DEF Scoring
    <3> QED BY <2>2, <3>1, <3>2 DEF Whole, ClaimedIsScored
  <2>3. CASE f = e /\ e \notin claimed
    <3>1. CASE Program[e] = <<>>
      <4>1. Len(Program[e]) = 0 BY <3>1
      <4>2. PartsDone(f) BY <2>3, <4>1 DEF PartsDone, MaxParts
      <4> QED BY <2>1, <4>2
    <3>2. CASE Program[e] # <<>>
      <4>1. (job[d].entry = f /\ Scoring(d))'
            BY <1>2, <1>4, <2>3, <3>2 DEF Scoring, AfterClaim
      <4> QED BY <4>1
    <3> QED BY <3>1, <3>2
  <2> QED BY <1>3, <2>2, <2>3
<1>7. AckedIsClaimed'
      BY <1>2, <1>3, <1>4 DEF Whole, AckedIsClaimed, In
<1>8. LimitIsDue'
  <2>1. x.at # "set" BY <1>2 DEF AfterClaim
  <2> QED BY <1>3, <1>4, <2>1 DEF Whole, LimitIsDue, HasManual, Part
<1> QED BY <1>5, <1>6, <1>7, <1>8 DEF Whole

\* A part that takes effect.
LEMMA WholePart ==
    ASSUME IInv, Whole, NEW d \in Drains,
           Count(d) \/ WriteUserRiskState(d) \/ SkipLimit(d) \/ SetLimit(d)
    PROVE  Whole'
<1> DEFINE e == job[d].entry
           i == job[d].part
           x == [job[d] EXCEPT
                   !.at = IF i = Len(Program[e]) THEN "ack" ELSE "apply",
                   !.part = i + 1]
<1>1. Scoring(d) /\ Advance(d)
      BY DEF Count, WriteUserRiskState, SkipLimit, SetLimit, Scoring
<1>2. UNCHANGED <<stream, claimed, task, regime, failures>>
      BY DEF Count, WriteUserRiskState, SkipLimit, SetLimit
<1>3. job[d] \in Jobs BY DEF IInv, TypeOK
<1>4. e \in Payouts /\ i \in 1..MaxParts /\ i \in 1..Len(Program[e])
      BY <1>1, PartType
<1>5. /\ x.entry = e /\ x.part = i + 1
      /\ x.at = IF i = Len(Program[e]) THEN "ack" ELSE "apply"
      BY <1>3 DEF Jobs
<1>6. job' = [job EXCEPT ![d] = x] BY <1>1 DEF Advance, Goto
<1>7. applied' = [applied EXCEPT ![e][i] = applied[e][i] + 1]
      BY <1>1 DEF Advance
<1>8. e \in claimed BY <1>1 DEF IInv, OneScorer
<1>9. \A k \in 1..MaxParts : k < i => applied[e][k] > 0
      BY <1>1 DEF Whole, InOrder
<1> HIDE DEF e, i, x
<1>10. job'[d] = x /\ \A c \in Drains : c # d => job'[c] = job[c]
       BY <1>6, OneJob
<1>11. \A f \in Payouts, k \in 1..MaxParts :
          applied[f][k] > 0 => applied'[f][k] > 0
  <2>1. applied \in [Payouts -> [1..MaxParts -> Nat]] BY DEF IInv, TypeOK
  <2> QED BY <1>4, <1>7, <2>1
<1>12. applied'[e][i] > 0
  <2>1. applied \in [Payouts -> [1..MaxParts -> Nat]] BY DEF IInv, TypeOK
  <2>2. applied[e] \in [1..MaxParts -> Nat] /\ applied[e][i] \in Nat
        BY <1>4, <2>1
  <2>3. applied'[e] = [applied[e] EXCEPT ![i] = applied[e][i] + 1]
        BY <1>4, <1>7, <2>1
  <2>4. applied'[e][i] = applied[e][i] + 1 BY <1>4, <2>2, <2>3
  <2> QED BY <2>2, <2>4
<1>13. Len(Program[e]) \in Nat BY <1>4, ProgramParts DEF MaxParts
<1>14. \A k \in 1..MaxParts : k < i + 1 => applied'[e][k] > 0
  <2> SUFFICES ASSUME NEW k \in 1..MaxParts, k < i + 1 PROVE applied'[e][k] > 0
      OBVIOUS
  <2>1. k = i \/ k < i BY <1>4 DEF MaxParts
  <2> QED BY <1>4, <1>9, <1>11, <1>12, <2>1
<1>15. InOrder'
  <2> SUFFICES ASSUME NEW c \in Drains, Scoring(c)', NEW k \in 1..MaxParts,
                      k < job'[c].part
               PROVE  applied'[job'[c].entry][k] > 0
      BY DEF InOrder
  <2>1. CASE c = d BY <1>5, <1>10, <1>14, <2>1
  <2>2. CASE c # d
    <3>1. Scoring(c) /\ job'[c] = job[c] BY <1>10, <2>2 DEF Scoring
    <3>2. job[c].entry \in Payouts BY <3>1, PartType
    <3> QED BY <1>11, <3>1, <3>2 DEF Whole, InOrder
  <2> QED BY <2>1, <2>2
<1>16. ClaimedIsScored'
  <2> SUFFICES ASSUME failures = 0, NEW f \in claimed
               PROVE  PartsDone(f)' \/ \E c \in Drains : (job[c].entry = f /\ Scoring(c))'
      BY <1>2 DEF ClaimedIsScored
  <2>0. f \in Payouts BY DEF IInv, TypeOK
  <2>1. CASE PartsDone(f)
        BY <1>11, <2>0, <2>1 DEF PartsDone
  <2>2. ASSUME NEW c \in Drains, job[c].entry = f, Scoring(c)
        PROVE  PartsDone(f)' \/ \E b \in Drains : (job[b].entry = f /\ Scoring(b))'
    <3>1. CASE c # d
      <4>1. (job[c].entry = f /\ Scoring(c))' BY <1>10, <2>2, <3>1 DEF Scoring
      <4> QED BY <4>1
    <3>2. CASE c = d
      <4>1. f = e BY <2>2, <3>2 DEF e
      <4>2. CASE i = Len(Program[e])
        <5>1. \A k \in 1..MaxParts : k <= i => k < i + 1 BY <1>4 DEF MaxParts
        <5> QED BY <1>14, <4>1, <4>2, <5>1 DEF PartsDone
      <4>3. CASE i # Len(Program[e])
        <5>1. (job[d].entry = f /\ Scoring(d))'
              BY <1>5, <1>10, <4>1, <4>3 DEF Scoring
        <5> QED BY <5>1
      <4> QED BY <4>2, <4>3
    <3> QED BY <3>1, <3>2
  <2> QED BY <2>1, <2>2 DEF Whole, ClaimedIsScored
<1>17. AckedIsClaimed'
       BY <1>2, <1>5, <1>8, <1>10 DEF Whole, AckedIsClaimed, In
<1>18. LimitIsDue'
  <2>1. \A u \in Players : HasManual(u)' <=> HasManual(u)
    <3>1. CASE SetLimit(d)
      <4>1. \A u \in Players : mitigation'[u].manual = mitigation[u].manual
        <5> SUFFICES ASSUME NEW u \in Players
                     PROVE  mitigation'[u].manual = mitigation[u].manual
            OBVIOUS
        <5> DEFINE v == Part(d).user
                   m == [mitigation[v] EXCEPT !.scale = AutoScale]
        <5>1. v \in Players BY <1>1, PartType DEF Parts
        <5>2. mitigation[v] \in Mitigations BY <5>1 DEF IInv, TypeOK
        <5>3. m.manual = mitigation[v].manual BY <5>2 DEF Mitigations
        <5>4. mitigation' = [mitigation EXCEPT ![v] = m] BY <3>1 DEF SetLimit
        <5> HIDE DEF v, m
        <5> QED BY <5>1, <5>3, <5>4 DEF IInv, TypeOK
      <4> QED BY <4>1 DEF HasManual
    <3>2. CASE ~SetLimit(d)
          BY <3>2 DEF Count, WriteUserRiskState, SkipLimit, HasManual
    <3> QED BY <3>1, <3>2
  <2>2. ASSUME NEW c \in Drains, regime = Turns, job'[c].at = "set"
        PROVE  ~HasManual(Part(c).user)'
    <3>1. c # d /\ job'[c] = job[c] BY <1>5, <1>10, <2>2
    <3>2. Scoring(c) BY <2>2, <3>1 DEF Scoring
    <3>3. Part(c).user \in Players BY <3>2, PartType DEF Parts
    <3>4. ~HasManual(Part(c).user) BY <2>2, <3>1 DEF Whole, LimitIsDue
    <3>5. Part(c)' = Part(c) BY <3>1 DEF Part
    <3> QED BY <2>1, <3>3, <3>4, <3>5 DEF HasManual
  <2> QED BY <1>2, <2>2 DEF LimitIsDue
<1> QED BY <1>15, <1>16, <1>17, <1>18 DEF Whole

\* A limit that is earned is due.
LEMMA WholeEarn ==
    ASSUME IInv, Whole, NEW d \in Drains, EarnLimit(d)
    PROVE  Whole'
<1> DEFINE x == [job[d] EXCEPT !.at = "set", !.part = job[d].part]
<1>1. job[d] \in Jobs BY DEF IInv, TypeOK
<1>2. x.at = "set" /\ x.part = job[d].part /\ x.entry = job[d].entry
      BY <1>1 DEF Jobs
<1>3. job' = [job EXCEPT ![d] = x] BY DEF EarnLimit, Goto
<1>4. UNCHANGED <<streamVars, userVars, task, regime, failures>>
      BY DEF EarnLimit
<1>5. Scoring(d) /\ ~HasManual(Part(d).user) BY DEF EarnLimit, Scoring
<1> HIDE DEF x
<1>6. job'[d] = x /\ \A c \in Drains : c # d => job'[c] = job[c]
      BY <1>3, OneJob
<1>7. SameScoring BY <1>2, <1>5, <1>6 DEF SameScoring, Scoring
<1>8. InOrder' /\ ClaimedIsScored'
      BY <1>4, <1>7, SameScoringStep DEF Whole
<1>9. AckedIsClaimed' BY <1>2, <1>4, <1>6 DEF Whole, AckedIsClaimed, In
<1>10. LimitIsDue'
  <2> SUFFICES ASSUME regime = Turns, NEW c \in Drains, job'[c].at = "set"
               PROVE  ~HasManual(Part(c).user)'
      BY <1>4 DEF LimitIsDue
  <2>1. Part(c)' = Part(c) BY <1>2, <1>6 DEF Part
  <2>2. ~HasManual(Part(c).user)
        BY <1>5, <1>6 DEF Whole, LimitIsDue
  <2> QED BY <1>4, <2>1, <2>2 DEF HasManual
<1> QED BY <1>8, <1>9, <1>10 DEF Whole

\* A drain that leaves its entry has an empty hand.
LEMMA LeftEntry ==
    ASSUME IInv, NEW d \in Drains, NextEntry(d)
    PROVE  job'[d].at = "none" /\ \A c \in Drains : c # d => job'[c] = job[c]
<1> DEFINE x == [Resting EXCEPT !.stage = job[d].stage, !.batch = job[d].batch]
<1>1. x.at = "none" BY DEF Resting
<1>2. job' = [job EXCEPT ![d] = x] BY DEF NextEntry
<1> HIDE DEF x
<1> QED BY <1>1, <1>2, OneJob

\* An acknowledgement is of what was claimed.
LEMMA WholeAck ==
    ASSUME IInv, Whole, NEW d \in Drains, Ack(d)
    PROVE  Whole'
<1>1. /\ UNCHANGED <<claimed, applied, userVars, regime, failures>>
      /\ job[d].at = "ack"
      BY DEF Ack
<1>2. job'[d].at = "none" /\ \A c \in Drains : c # d => job'[c] = job[c]
      BY LeftEntry DEF Ack
<1>3. SameScoring BY <1>1, <1>2 DEF SameScoring, Scoring
<1>4. InOrder' /\ ClaimedIsScored'
      BY <1>1, <1>3, SameScoringStep DEF Whole
<1>5. AckedIsClaimed'
  <2>1. job[d].entry \in claimed BY <1>1 DEF Whole, AckedIsClaimed
  <2>2. In("acked")' \subseteq In("acked") \cup {job[d].entry}
        BY DEF Ack, In, IInv, TypeOK
  <2> QED BY <1>1, <1>2, <2>1, <2>2 DEF Whole, AckedIsClaimed
<1>6. LimitIsDue'
      BY <1>1, <1>2 DEF Whole, LimitIsDue, HasManual, Part
<1> QED BY <1>4, <1>5, <1>6 DEF Whole

\* A failure: nothing is said of what is claimed any more, and the rest stays.
LEMMA WholeFailure ==
    ASSUME IInv, Whole, (\E d \in Drains : Fail(d) \/ FetchFails(d)) \/ Crash
    PROVE  Whole'
<1>1. /\ UNCHANGED <<claimed, applied, userVars, regime>>
      /\ failures' = failures + 1
      BY DEF Fail, FetchFails, Crash
<1>2. failures' # 0 BY <1>1, FraudAssumptions DEF IInv, TypeOK
<1>3. \A d \in Drains : job'[d].at # "none" => job'[d] = job[d]
  <2>1. CASE Crash BY <2>1 DEF Crash, Resting
  <2>2. ASSUME NEW c \in Drains, Fail(c)
        PROVE  \A d \in Drains : job'[d].at # "none" => job'[d] = job[d]
    <3>1. CASE NextEntry(c) BY <3>1, LeftEntry
    <3>2. ASSUME NEW e \in job[c].batch, job[c].at = "none",
                 job' = [job EXCEPT ![c].batch = @ \ {e}]
          PROVE  \A d \in Drains : job'[d].at # "none" => job'[d] = job[d]
      <4> DEFINE x == [job[c] EXCEPT !.batch = job[c].batch \ {e}]
      <4>1. job[c] \in Jobs BY DEF IInv, TypeOK
      <4>2. x.at = "none" BY <3>2, <4>1 DEF Jobs
      <4>3. job' = [job EXCEPT ![c] = x] BY <3>2
      <4> HIDE DEF x
      <4> QED BY <4>2, <4>3, OneJob
    <3> QED BY <2>2, <3>1, <3>2 DEF Fail
  <2>3. ASSUME NEW c \in Drains, FetchFails(c)
        PROVE  \A d \in Drains : job'[d].at # "none" => job'[d] = job[d]
    <3> DEFINE stage == IF job[c].stage = "reclaim" THEN "read" ELSE "reclaim"
               x == [Resting EXCEPT !.stage = stage, !.batch = {}]
    <3>1. x.at = "none" BY DEF Resting
    <3>2. job' = [job EXCEPT ![c] = x] BY <2>3 DEF FetchFails
    <3> HIDE DEF x
    <3> QED BY <3>1, <3>2, OneJob
  <2> QED BY <2>1, <2>2, <2>3
<1>4. InOrder' BY <1>1, <1>3 DEF Whole, InOrder, Scoring
<1>5. ClaimedIsScored' BY <1>2 DEF ClaimedIsScored
<1>6. AckedIsClaimed'
  <2>1. In("acked")' \subseteq In("acked")
        BY DEF In, Fail, FetchFails, Deliver, Crash
  <2> QED BY <1>1, <1>3, <2>1 DEF Whole, AckedIsClaimed
<1>7. LimitIsDue'
      BY <1>1, <1>3 DEF Whole, LimitIsDue, HasManual, Part
<1> QED BY <1>4, <1>5, <1>6, <1>7 DEF Whole

\* Staff touch no payout, and set no limit while one is being scored.
LEMMA WholeStaff ==
    ASSUME IInv, Whole, NEW s \in Staff, StaffStep(s)
    PROVE  Whole'
<1>1. UNCHANGED <<streamVars, job, regime, failures>>
      BY DEF StaffStep, LimitUser, FlagUser, ClearRisk, FlagRisk, ClearMitigation
<1>2. SameScoring BY <1>1 DEF SameScoring, Scoring
<1>3. InOrder' /\ ClaimedIsScored'
      BY <1>1, <1>2, SameScoringStep DEF Whole
<1>4. AckedIsClaimed' BY <1>1 DEF Whole, AckedIsClaimed, In
<1>5. LimitIsDue'
  <2> SUFFICES ASSUME regime = Turns, NEW d \in Drains, job[d].at = "set"
               PROVE  ~HasManual(Part(d).user)'
      BY <1>1 DEF LimitIsDue
  <2>1. ~MayAct(s) BY DEF MayAct, Scoring
  <2>2. Part(d)' = Part(d) /\ ~HasManual(Part(d).user)
        BY <1>1 DEF Part, Whole, LimitIsDue
  <2>3. CASE FlagRisk(s) BY <2>2, <2>3 DEF FlagRisk, HasManual
  <2>4. CASE ClearMitigation(s)
    <3>1. NoMitigation.manual = FALSE BY DEF NoMitigation
    <3>2. Part(d).user \in Players
          BY PartType DEF Scoring, Parts
    <3>3. mitigation' = [mitigation EXCEPT ![task[s].user] = NoMitigation]
          BY <2>4 DEF ClearMitigation
    <3> QED BY <2>2, <3>1, <3>2, <3>3 DEF HasManual, IInv, TypeOK
  <2> QED BY <2>1, <2>3, <2>4 DEF StaffStep, LimitUser, FlagUser, ClearRisk
<1> QED BY <1>3, <1>4, <1>5 DEF Whole

\* The game server publishes, and time passes.
LEMMA WholeStream ==
    ASSUME IInv, Whole, NEW e \in Payouts, Publish(e) \/ GrowIdle(e)
    PROVE  Whole'
<1>1. UNCHANGED <<claimed, applied, userVars, job, task, regime, failures>>
      BY DEF Publish, GrowIdle
<1>2. SameScoring BY <1>1 DEF SameScoring, Scoring
<1>3. InOrder' /\ ClaimedIsScored'
      BY <1>1, <1>2, SameScoringStep DEF Whole
<1>4. In("acked")' \subseteq In("acked")
      BY DEF Publish, GrowIdle, In, IInv, TypeOK
<1>5. AckedIsClaimed' BY <1>1, <1>4 DEF Whole, AckedIsClaimed
<1>6. LimitIsDue' BY <1>1 DEF Whole, LimitIsDue, HasManual, Part
<1> QED BY <1>3, <1>5, <1>6 DEF Whole

\* Nothing is claimed, scored or acknowledged in the beginning.
LEMMA WholeInit == Init => Whole
<1> SUFFICES ASSUME Init PROVE Whole OBVIOUS
<1>1. \A d \in Drains : job[d].at = "none" BY DEF Init, Resting
<1>2. claimed = {} /\ In("acked") = {} BY DEF Init, In
<1> QED BY <1>1, <1>2
        DEF Whole, InOrder, ClaimedIsScored, AckedIsClaimed, LimitIsDue, Scoring

\* Every step keeps it, next to the invariant above.
LEMMA WholeNext == IInv /\ Whole /\ [Next]_vars => Whole'
<1> SUFFICES ASSUME IInv, Whole, [Next]_vars PROVE Whole' OBVIOUS
<1>1. ASSUME NEW e \in Payouts, Publish(e) \/ GrowIdle(e)
      PROVE  Whole'
      BY <1>1, WholeStream
<1>2. ASSUME NEW d \in Drains, DrainStep(d)
      PROVE  Whole'
      BY <1>2, WholeFetch, WholeClaim, WholePart, WholeEarn, WholeAck
         DEF DrainStep, ProcessOneEntry
<1>3. CASE (\E d \in Drains : Fail(d) \/ FetchFails(d)) \/ Crash
      BY <1>3, WholeFailure
<1>4. ASSUME NEW s \in Staff, StaffStep(s)
      PROVE  Whole'
      BY <1>4, WholeStaff
<1>5. CASE UNCHANGED vars
  <2>1. SameScoring BY <1>5 DEF vars, SameScoring, Scoring
  <2>2. InOrder' /\ ClaimedIsScored'
        BY <1>5, <2>1, SameScoringStep DEF vars, Whole
  <2>3. AckedIsClaimed' /\ LimitIsDue'
        BY <1>5
        DEF vars, Whole, AckedIsClaimed, LimitIsDue, In, HasManual, Part
  <2> QED BY <2>2, <2>3 DEF Whole
<1> QED BY <1>1, <1>2, <1>3, <1>4, <1>5 DEF Next

\* A payout whose parts all took effect was counted for every player.
LEMMA PartsCount ==
    ASSUME NEW e \in Payouts, PartsDone(e)
    PROVE  Counted(e)
<1>1. Len(Humans[e]) \in 0..2 BY FraudAssumptions
<1> SUFFICES ASSUME NEW h \in 1..Len(Humans[e]),
                    NEW kind \in {"stats", "lists", "risk"}
             PROVE  Applied(e, kind, Humans[e][h])
    BY DEF Counted
<1>2. ASSUME NEW i \in 1..MaxParts, i <= Len(Program[e]), Len(Program[e]) \in Nat,
             Program[e][i] = For(kind, Humans[e][h])
      PROVE  Applied(e, kind, Humans[e][h])
  <2>1. i \in 1..Len(Program[e]) BY <1>2 DEF MaxParts
  <2>2. applied[e][i] > 0 BY <1>2 DEF PartsDone
  <2> QED BY <1>2, <2>1, <2>2 DEF Applied
<1>3. CASE Len(Humans[e]) = 1
  <2>1. Program[e] = <<For("stats", First(e)), For("lists", First(e)),
                       For("risk", First(e)), For("limit", First(e))>>
        BY <1>3, ProgramOfOne
  <2>2. Len(Program[e]) = 4 /\ Humans[e][h] = First(e)
        BY <1>3, <2>1 DEF First
  <2>3. CASE kind = "stats"
    <3>1. Program[e][1] = For(kind, Humans[e][h]) BY <2>1, <2>2, <2>3
    <3> QED BY <1>2, <2>2, <3>1 DEF MaxParts
  <2>4. CASE kind = "lists"
    <3>1. Program[e][2] = For(kind, Humans[e][h]) BY <2>1, <2>2, <2>4
    <3> QED BY <1>2, <2>2, <3>1 DEF MaxParts
  <2>5. CASE kind = "risk"
    <3>1. Program[e][3] = For(kind, Humans[e][h]) BY <2>1, <2>2, <2>5
    <3> QED BY <1>2, <2>2, <3>1 DEF MaxParts
  <2> QED BY <2>3, <2>4, <2>5
<1>4. CASE Len(Humans[e]) = 2
  <2>0. Len(Humans[e]) # 0 /\ Len(Humans[e]) # 1 BY <1>4
  <2>1. Program[e] = <<For("stats", First(e)), For("lists", First(e)),
                       For("stats", Second(e)), For("lists", Second(e)),
                       For("pair", First(e)), For("flow", First(e)),
                       For("risk", First(e)), For("limit", First(e)),
                       For("risk", Second(e)), For("limit", Second(e))>>
        BY <2>0 DEF Program
  <2>2. Len(Program[e]) = 10 BY <2>1
  <2>3. \/ h = 1 /\ Humans[e][h] = First(e)
        \/ h = 2 /\ Humans[e][h] = Second(e)
        BY <1>4 DEF First, Second
  <2>4. /\ Program[e][1] = For("stats", First(e))
        /\ Program[e][2] = For("lists", First(e))
        /\ Program[e][7] = For("risk", First(e))
        /\ Program[e][3] = For("stats", Second(e))
        /\ Program[e][4] = For("lists", Second(e))
        /\ Program[e][9] = For("risk", Second(e))
        BY <2>1
  <2>5. \E i \in {1, 2, 3, 4, 7, 9} : Program[e][i] = For(kind, Humans[e][h])
        BY <2>3, <2>4
  <2> QED BY <1>2, <2>2, <2>5 DEF MaxParts
<1>5. Len(Humans[e]) # 0 BY <1>1
<1> QED BY <1>1, <1>3, <1>4, <1>5

(***************************************************************************)
(* As long as no command fails and nothing crashes, what is acknowledged   *)
(* was counted for each of its players, or the drain that won the claim is *)
(* still counting it: for any number of drains that overlap.               *)
(***************************************************************************)
THEOREM AcksLoseNothing == Spec => []AckedIsCounted
<1>1. ASSUME IInv, Whole, NEW e \in Payouts, failures = 0, stream[e] = "acked"
      PROVE  Counted(e) \/ \E d \in Drains : job[d].entry = e /\ Scoring(d)
  <2>1. e \in claimed BY <1>1 DEF Whole, AckedIsClaimed, In
  <2> QED BY <1>1, <2>1, PartsCount DEF Whole, ClaimedIsScored
<1>2. IInv /\ Whole => AckedIsCounted BY <1>1 DEF AckedIsCounted
<1> QED BY <1>2, InitInv, NextInv, WholeInit, WholeNext, PTL DEF Spec

(***************************************************************************)
(* While staff and scoring take turns, no payout replaces a limit that     *)
(* staff set, although the mitigation is read in one command and written   *)
(* in another.                                                             *)
(***************************************************************************)
THEOREM StaffLimitsStand == Spec => ManualStands
<1>1. ASSUME IInv, Whole, regime = Turns, NEW d \in Drains, NEW u \in Players,
             SetLimit(d), mitigation[u].manual
      PROVE  mitigation'[u] = mitigation[u]
  <2>1. u # Part(d).user
        BY <1>1 DEF SetLimit, Whole, LimitIsDue, HasManual
  <2>2. \A v \in Players : v # Part(d).user => mitigation'[v] = mitigation[v]
        BY <1>1 DEF SetLimit, IInv, TypeOK
  <2> QED BY <2>1, <2>2
<1>2. IInv /\ Whole =>
        [regime = Turns => \A d \in Drains, u \in Players :
           SetLimit(d) /\ mitigation[u].manual => mitigation'[u] = mitigation[u]]_vars
      BY <1>1
<1> QED BY <1>2, InitInv, NextInv, WholeInit, WholeNext, PTL
        DEF Spec, ManualStands

=============================================================================
