----------------------------- MODULE AdminProofs ----------------------------
(***************************************************************************)
(* The theorems about six components of the administration: the Mines      *)
(* switch, the copies of the crash restrictions, the overview page, the    *)
(* ledger of keys, the coinflip bots and the chains of crash.              *)
(***************************************************************************)
EXTENDS MinesMode, CrashEligibility, OverviewPage, KeyLedger, CoinflipBots,
        CrashChain, TLAPS

(* The Mines switch *)

\* Requests and the mode keep their types.
LEMMA ModeTypeStep == ModeTypeOK /\ [ModeNext]_modeVars => ModeTypeOK'
<1> SUFFICES ASSUME ModeTypeOK, [ModeNext]_modeVars PROVE ModeTypeOK'
  OBVIOUS
<1>1. NoRequest \in Requests
  BY DEF NoRequest, Requests, Modes
<1>2. ASSUME NEW a \in Admins, NEW kind \in {"disable", "toggle"}, ReadMode(a, kind)
      PROVE ModeTypeOK'
  <2>1. PICK read \in ReadOutcomes :
           request' = [request EXCEPT
              ![a] = [kind |-> kind, seen |-> Remembered(kind, read.mode),
                      answered |-> read.answered]]
    BY <1>2 DEF ReadMode
  <2>2. read.mode \in Modes /\ read.answered \in BOOLEAN
    <3>1. CurrentMode \in Modes
      BY DEF ModeTypeOK, CurrentMode, Modes
    <3>2. \/ read.mode = CurrentMode /\ read.answered = TRUE
          \/ read.mode = "ACTIVE" /\ read.answered = FALSE
      BY DEF ReadOutcomes
    <3> QED BY <3>1, <3>2 DEF Modes
  <2>3. [kind |-> kind, seen |-> Remembered(kind, read.mode),
         answered |-> read.answered] \in Requests
    BY <2>2 DEF Remembered, Requests, Modes
  <2> QED BY <1>2, <2>1, <2>3 DEF ReadMode, ModeTypeOK
<1>3. ASSUME NEW a \in Admins, Pause(a) \/ Resume(a) PROVE ModeTypeOK'
  BY <1>3 DEF Pause, Resume, ModeTypeOK, Modes
<1>4. ASSUME NEW a \in Admins, DisableWrite(a) \/ ToggleWrite(a) \/ WriteFails(a)
      PROVE ModeTypeOK'
  BY <1>1, <1>4 DEF DisableWrite, ToggleWrite, WriteFails, ModeTypeOK, Modes
<1>5. CASE UNCHANGED modeVars
  BY <1>5 DEF modeVars, ModeTypeOK
<1> QED BY <1>2, <1>3, <1>4, <1>5 DEF ModeNext, ModeStep

\* Who is in flight, and who informed, after a step that replaces the request
\* of a.
LEMMA InFlightAfter ==
    ASSUME request \in [Admins -> Requests], NEW a \in Admins, NEW q,
           request' = [request EXCEPT ![a] = q]
    PROVE  /\ q.kind = "none" => InFlight' = InFlight \ {a}
           /\ q.kind = "none" \/ ~q.answered => Informed' \subseteq Informed
<1>1. \A b \in Admins : request'[b] = IF b = a THEN q ELSE request[b]
  OBVIOUS
<1>2. q.kind = "none" => InFlight' = InFlight \ {a}
  BY <1>1 DEF InFlight, Idle
<1>3. ASSUME q.kind = "none" \/ ~q.answered, NEW b \in Informed'
      PROVE  b \in Informed
  <2>1. b \in Admins /\ request'[b].kind # "none" /\ request'[b].answered
    BY <1>3 DEF Informed, InFlight, Idle
  <2>2. b # a
    BY <1>1, <1>3, <2>1
  <2> QED BY <1>1, <2>1, <2>2 DEF Informed, InFlight, Idle
<1> QED BY <1>2, <1>3

(***************************************************************************)
(* While the key is PAUSED, the requests that have read it only become     *)
(* fewer: a disable or toggle that begins then was not answered by Redis.  *)
(* And the pause ends by a resume, or by one request in flight that is     *)
(* done with that; for any number of admins, whether reads fail or not.    *)
(***************************************************************************)
THEOREM PauseCanOnlyDrain == ModeSpec => PauseDrains
<1>1. ModeTypeOK /\ [ModeNext]_modeVars =>
         [stored = "PAUSED" =>
            /\ Informed' \subseteq Informed
            /\ \/ stored' = "PAUSED"
               \/ \E a \in Admins : Resume(a)
               \/ \E a \in InFlight : a \notin InFlight']_modeVars
  <2> SUFFICES ASSUME ModeTypeOK, NEW a \in Admins, ModeStep(a), stored = "PAUSED"
               PROVE  /\ Informed' \subseteq Informed
                      /\ \/ stored' = "PAUSED" \/ Resume(a)
                         \/ a \in InFlight /\ a \notin InFlight'
    BY DEF ModeNext
  <2>0. request \in [Admins -> Requests]
    BY DEF ModeTypeOK
  <2>1. CASE Pause(a) \/ Resume(a)
    <3>1. request' = request
      BY <2>1 DEF Pause, Resume
    <3>2. Informed' = Informed
      BY <3>1 DEF Informed, InFlight, Idle
    <3> QED BY <2>1, <3>2 DEF Pause
  <2>2. ASSUME NEW kind \in {"disable", "toggle"}, ReadMode(a, kind)
        PROVE  stored' = "PAUSED" /\ Informed' \subseteq Informed
    <3>1. PICK read \in ReadOutcomes :
             /\ MayProceed(kind, read.mode)
             /\ request' = [request EXCEPT
                   ![a] = [kind |-> kind, seen |-> Remembered(kind, read.mode),
                           answered |-> read.answered]]
      BY <2>2 DEF ReadMode
    <3>2. ~read.answered
      BY <3>1 DEF ReadOutcomes, CurrentMode, MayProceed, Absent
    <3> DEFINE q == [kind |-> kind, seen |-> Remembered(kind, read.mode),
                     answered |-> read.answered]
    <3>3. ~q.answered /\ request' = [request EXCEPT ![a] = q]
      BY <3>1, <3>2
    <3>4. Informed' \subseteq Informed
      BY <2>0, <3>3, InFlightAfter
    <3> QED BY <2>2, <3>4 DEF ReadMode
  <2>3. CASE DisableWrite(a) \/ ToggleWrite(a) \/ WriteFails(a)
    <3>1. request' = [request EXCEPT ![a] = NoRequest] /\ a \in InFlight
      BY <2>3 DEF DisableWrite, ToggleWrite, WriteFails, InFlight, Idle
    <3>2. NoRequest.kind = "none"
      BY DEF NoRequest
    <3>3. InFlight' = InFlight \ {a} /\ Informed' \subseteq Informed
      BY <2>0, <3>1, <3>2, InFlightAfter
    <3> QED BY <3>1, <3>3
  <2> QED BY <2>1, <2>2, <2>3 DEF ModeStep
<1>2. ModeInit => ModeTypeOK
  BY DEF ModeInit, ModeTypeOK, NoRequest, Requests, Modes
<1> QED BY <1>1, <1>2, ModeTypeStep, PTL DEF ModeSpec, PauseDrains

-----------------------------------------------------------------------------
(* The copies of the crash restrictions *)

\* The copies agree unless a race has been, or a change is not invalidated yet.
CopiesInv ==
    (\A e \in EligAdmins : eligEdit[e].at # "invalidate") /\ ~raced
        => \A s \in Stores : copy[s] \in {"none", control}

EligInv == EligTypeOK /\ CopiesInv

\* The row, its copies and who is at work keep their types.
LEMMA EligTypeStep == EligTypeOK /\ [EligNext]_eligVars => EligTypeOK'
<1> SUFFICES ASSUME EligTypeOK, [EligNext]_eligVars PROVE EligTypeOK'
  OBVIOUS
<1> USE DEF EligTypeOK
<1>1. ASSUME NEW b \in Checks, ReadControl(b) PROVE EligTypeOK'
  BY <1>1 DEF ReadControl, Copies
<1>2. ASSUME NEW b \in Checks, NEW s \in Stores, FillCopy(b, s) PROVE EligTypeOK'
  BY <1>2 DEF FillCopy, Copies
<1>3. ASSUME NEW s \in Stores, ExpireCopy(s) PROVE EligTypeOK'
  BY <1>3 DEF ExpireCopy, StillRaced, Copies
<1>4. ASSUME NEW e \in EligAdmins, NEW op \in EligOps, FindControl(e, op) PROVE EligTypeOK'
  <2>1. StatusOf(op) \in EligStatuses
    BY DEF StatusOf, EligStatuses
  <2> QED BY <1>4, <2>1 DEF FindControl
<1>5. ASSUME NEW e \in EligAdmins, WriteControl(e) PROVE EligTypeOK'
  BY <1>5 DEF WriteControl, NextAfterWrite
<1>6. ASSUME NEW e \in EligAdmins, InvalidateCopies(e) PROVE EligTypeOK'
  <2>1. copy' \in [Stores -> Copies] /\ raced' \in BOOLEAN
    BY <1>6 DEF InvalidateCopies, StillRaced, Copies
  <2>2. NoEligEdit \in [at : {"idle", "write", "invalidate"}, status : EligStatuses]
    BY DEF NoEligEdit, EligStatuses
  <2> QED BY <1>6, <2>1, <2>2 DEF InvalidateCopies
<1>7. CASE UNCHANGED eligVars
  BY <1>7 DEF eligVars
<1> QED BY <1>1, <1>2, <1>3, <1>4, <1>5, <1>6, <1>7 DEF EligNext

\* A write of the row leaves a deletion to do; a copy that comes after it is raced.
LEMMA CopiesStep == EligInv /\ [EligNext]_eligVars => CopiesInv'
<1> SUFFICES ASSUME EligInv, [EligNext]_eligVars PROVE CopiesInv'
  OBVIOUS
<1> USE DEF EligInv, EligTypeOK
<1>1. ASSUME NEW b \in Checks, ReadControl(b) PROVE CopiesInv'
  BY <1>1 DEF ReadControl, CopiesInv
<1>2. ASSUME NEW b \in Checks, NEW s \in Stores, FillCopy(b, s) PROVE CopiesInv'
  BY <1>2 DEF FillCopy, CopiesInv
<1>3. ASSUME NEW s \in Stores, ExpireCopy(s) PROVE CopiesInv'
  BY <1>3 DEF ExpireCopy, StillRaced, CopiesInv
<1>4. ASSUME NEW e \in EligAdmins, NEW op \in EligOps, FindControl(e, op) PROVE CopiesInv'
  BY <1>4 DEF FindControl, CopiesInv
<1>5. ASSUME NEW e \in EligAdmins, WriteControl(e) PROVE CopiesInv'
  <2>1. eligEdit'[e].at = "invalidate"
    BY <1>5 DEF WriteControl, NextAfterWrite
  <2> QED BY <2>1 DEF CopiesInv
<1>6. ASSUME NEW e \in EligAdmins, InvalidateCopies(e) PROVE CopiesInv'
  BY <1>6 DEF InvalidateCopies, CopiesInv
<1>7. CASE UNCHANGED eligVars
  BY <1>7 DEF eligVars, CopiesInv
<1> QED BY <1>1, <1>2, <1>3, <1>4, <1>5, <1>6, <1>7 DEF EligNext

(***************************************************************************)
(* Between admin requests a copy differs from its row only after a lost    *)
(* DEL or a lookup that raced with a change; for any number of either.     *)
(***************************************************************************)
THEOREM CopiesAgree == EligSpec => []StaleOnlyByRace
<1>1. EligInit => EligInv
  <2> SUFFICES ASSUME EligInit PROVE EligInv
    OBVIOUS
  <2>1. NoEligEdit \in [at : {"idle", "write", "invalidate"}, status : EligStatuses]
    BY DEF NoEligEdit, EligStatuses
  <2>2. EligTypeOK
    BY <2>1 DEF EligInit, EligTypeOK, Copies
  <2>3. CopiesInv
    BY DEF EligInit, CopiesInv
  <2> QED BY <2>2, <2>3 DEF EligInv
<1>2. EligInv => StaleOnlyByRace
  BY DEF EligInv, CopiesInv, StaleOnlyByRace, Settled
<1> QED BY <1>1, <1>2, EligTypeStep, CopiesStep, PTL DEF EligSpec, EligInv

-----------------------------------------------------------------------------
(* The overview page *)

\* The latest fetch is of the selected range; without it the page is settled.
LatestInv ==
    ~effectDue =>
        /\ fetchSeq \in 1..MaxSeq
        /\ sent[fetchSeq].state \in {"none", "pending"}
        /\ sent[fetchSeq].state = "pending" => sent[fetchSeq].range = range
        /\ sent[fetchSeq].state = "none" => ~loading /\ stats \in {range, "none"}

OverviewInv ==
    /\ fetchSeq \in 0..MaxSeq
    /\ sent \in [1..MaxSeq -> Fetch]
    /\ range \in Ranges
    /\ LatestInv

\* An answer that is not the latest, or is aborted, changes nothing.
LEMMA OverviewStep == OverviewInv /\ [OverviewNext]_overviewVars => OverviewInv'
<1> SUFFICES ASSUME OverviewInv, [OverviewNext]_overviewVars PROVE OverviewInv'
  OBVIOUS
<1>0. NotSent \in Fetch /\ NotSent.state = "none"
  BY DEF NotSent, Fetch
<1>1. ASSUME NEW r \in Ranges, SelectRange(r) PROVE OverviewInv'
  <2>1. \A n \in 1..MaxSeq : Aborted(sent[n]) \in Fetch
    BY DEF Aborted, OverviewInv, Fetch
  <2>2. sent' \in [1..MaxSeq -> Fetch]
    BY <1>1, <2>1 DEF SelectRange
  <2> QED BY <1>1, <2>2 DEF SelectRange, OverviewInv, LatestInv
<1>2. ASSUME NEW by \in {"effect", "reload"}, Send(by), range' = range PROVE OverviewInv'
  <2> DEFINE n == fetchSeq + 1
             f == [state |-> "pending", range |-> range, by |-> by]
  <2>1. n \in 1..MaxSeq /\ fetchSeq' = n
    BY <1>2, MaxSeqAssumption DEF Send, OverviewInv
  <2>2. f \in Fetch /\ f.state = "pending" /\ f.range = range
    BY DEF Fetch, OverviewInv
  <2>3. sent' = [sent EXCEPT ![n] = f]
    BY <1>2 DEF Send
  <2> HIDE DEF n, f
  <2>4. sent' \in [1..MaxSeq -> Fetch] /\ sent'[n] = f
    BY <2>1, <2>2, <2>3 DEF OverviewInv
  <2>5. LatestInv'
    BY <1>2, <2>1, <2>2, <2>4 DEF LatestInv
  <2>6. fetchSeq' \in 0..MaxSeq
    BY <2>1
  <2> QED BY <1>2, <2>4, <2>5, <2>6 DEF OverviewInv
<1>3. CASE RangeEffect
  BY <1>2, <1>3 DEF RangeEffect
<1>4. CASE Reload
  BY <1>2, <1>4 DEF Reload
<1>5. ASSUME NEW n \in 1..MaxSeq, Settle(n), UNCHANGED <<range, effectDue, fetchSeq>>,
             IF Latest(n) THEN ~loading' /\ stats' \in {"none", sent[n].range}
                               /\ sent[n].state = "pending"
             ELSE UNCHANGED <<stats, loading>>
      PROVE OverviewInv'
  <2>1. sent' = [sent EXCEPT ![n] = NotSent]
    BY <1>5 DEF Settle
  <2>2. sent' \in [1..MaxSeq -> Fetch]
    BY <1>0, <2>1 DEF OverviewInv
  <2>3. CASE n = fetchSeq
    <3>1. sent'[fetchSeq].state = "none"
      BY <1>0, <2>1, <2>3 DEF OverviewInv
    <3>2. LatestInv'
      BY <1>5, <2>3, <3>1 DEF Latest, OverviewInv, LatestInv
    <3> QED BY <1>5, <2>2, <3>2 DEF OverviewInv
  <2>4. CASE n # fetchSeq
    <3>1. fetchSeq \in 1..MaxSeq => sent'[fetchSeq] = sent[fetchSeq]
      BY <2>1, <2>4 DEF OverviewInv
    <3>2. LatestInv'
      BY <1>5, <2>4, <3>1 DEF Latest, OverviewInv, LatestInv
    <3> QED BY <1>5, <2>2, <3>2 DEF OverviewInv
  <2> QED BY <2>3, <2>4
<1>6. ASSUME NEW n \in 1..MaxSeq, FetchAnswered(n) \/ FetchFails(n) PROVE OverviewInv'
  BY <1>5, <1>6 DEF FetchAnswered, FetchFails, Apply, Ignore
<1>7. ASSUME NEW n \in 1..MaxSeq, FetchAborted(n) PROVE OverviewInv'
  <2>1. sent' = [sent EXCEPT ![n] = NotSent] /\ sent[n].state = "aborted"
        /\ UNCHANGED <<range, effectDue, fetchSeq, stats, loading>>
    BY <1>7 DEF FetchAborted, Settle
  <2>2. sent' \in [1..MaxSeq -> Fetch]
    BY <1>0, <2>1 DEF OverviewInv
  <2>3. ~effectDue => n # fetchSeq /\ sent'[fetchSeq] = sent[fetchSeq]
    BY <2>1 DEF OverviewInv, LatestInv
  <2>4. LatestInv'
    BY <2>1, <2>3 DEF OverviewInv, LatestInv
  <2> QED BY <2>1, <2>2, <2>4 DEF OverviewInv
<1>8. CASE UNCHANGED overviewVars
  BY <1>8 DEF overviewVars, OverviewInv, LatestInv
<1> QED BY <1>1, <1>3, <1>4, <1>6, <1>7, <1>8 DEF OverviewNext

(***************************************************************************)
(* When its latest fetch has ended the overview shows the selected range   *)
(* or nothing and does not load; for any ranges and any number of fetches. *)
(***************************************************************************)
THEOREM OverviewIsSettled == OverviewSpec => []OverviewSettles
<1>1. OverviewInit => OverviewInv
  BY MaxSeqAssumption DEF OverviewInit, OverviewInv, LatestInv, NotSent, Fetch
<1>2. OverviewInv => OverviewSettles
  BY DEF OverviewInv, LatestInv, OverviewSettles
<1> QED BY <1>1, <1>2, OverviewStep, PTL DEF OverviewSpec

(* The ledger of keys *)

\* No change is one that has its type.
LEMMA NoChangeType == NoChange \in Changes /\ NoChange.kind = "none"
BY KeyAssumptions DEF NoChange, Changes, Amounts

\* What is inserted is an integer.
LEMMA AppliedDeltaType ==
    ASSUME NEW sum \in Int, NEW amount \in Int, NEW kind
    PROVE  AppliedDelta(sum, kind, amount) \in Int
BY DEF AppliedDelta

\* A change by an admin to the balance that was summed does not end below 0.
LEMMA AppliedDeltaClamps ==
    ASSUME NEW sum \in Int, NEW amount \in Int, NEW kind \in {"set", "delta"},
           kind = "set" => amount >= 0
    PROVE  sum + AppliedDelta(sum, kind, amount) >= 0
<1>1. CASE kind = "set"
  BY <1>1 DEF AppliedDelta
<1>2. CASE kind = "delta"
  <2>1. AppliedDelta(sum, kind, amount) = IF amount < -sum THEN -sum ELSE amount
    BY <1>2 DEF AppliedDelta
  <2> QED BY <2>1
<1> QED BY <1>1, <1>2

\* A request that nobody interfered with has the balance as its sum, and what
\* an admin's request is about to add does not take that sum below 0.
Summed(q) ==
    /\ change[q].kind # "none" /\ spare[q] => change[q].sum = keys
    /\ change[q].kind \in {"set", "delta"} => change[q].sum + change[q].add >= 0

LedgerInv == KeyTypeOK /\ \A q \in KeyRequests : Summed(q)

\* The ledger and the requests keep their types.
LEMMA KeyTypeStep == KeyTypeOK /\ [KeyNext]_keyVars => KeyTypeOK'
<1> SUFFICES ASSUME KeyTypeOK, [KeyNext]_keyVars PROVE KeyTypeOK'
  OBVIOUS
<1>0. keys \in Int /\ change \in [KeyRequests -> Changes]
      /\ spare \in [KeyRequests -> BOOLEAN]
  BY DEF KeyTypeOK
<1>1. ASSUME NEW q \in KeyRequests, NEW kind \in {"set", "delta", "spend"},
             NEW amount \in Amounts, SumKeys(q, kind, amount)
      PROVE KeyTypeOK'
  <2> DEFINE add == AppliedDelta(keys, kind, amount)
             new == [kind |-> kind, amount |-> amount, sum |-> keys, add |-> add]
  <2>1. amount \in Int
    BY KeyAssumptions DEF Amounts
  <2>2. add \in Int
    BY <1>0, <2>1, AppliedDeltaType
  <2>3. new \in Changes
    BY <1>0, <2>2 DEF Changes
  <2>4. keyCalls' \in 0..MaxKeyCalls
    BY <1>1, KeyAssumptions DEF SumKeys, KeyTypeOK
  <2>5. change' \in [KeyRequests -> Changes] /\ spare' \in [KeyRequests -> BOOLEAN]
    <3> HIDE DEF new
    <3>1. change' = change \/ change' = [change EXCEPT ![q] = new]
      BY <1>1 DEF SumKeys, new
    <3>2. spare' = spare \/ spare' = [spare EXCEPT ![q] = TRUE]
      BY <1>1 DEF SumKeys
    <3> QED BY <1>0, <2>3, <3>1, <3>2
  <2>6. answer' \in [before : Int, after : Int, previous : Int, reported : Int]
    BY <1>0, <1>1 DEF SumKeys, KeyTypeOK
  <2>7. keys' \in Int
    BY <1>0, <1>1 DEF SumKeys
  <2> QED BY <2>4, <2>5, <2>6, <2>7 DEF KeyTypeOK
<1>2. ASSUME NEW q \in KeyRequests, InsertKeys(q) PROVE KeyTypeOK'
  <2>1. change[q].sum \in Int /\ change[q].add \in Int
    BY <1>0 DEF Changes
  <2>2. keys' \in Int
    BY <1>0, <1>2, <2>1 DEF InsertKeys, Insert
  <2>3. spare' \in [KeyRequests -> BOOLEAN]
    BY <1>2 DEF InsertKeys, Insert
  <2>4. change' \in [KeyRequests -> Changes]
    BY <1>0, <1>2, NoChangeType DEF InsertKeys
  <2>5. answer' \in [before : Int, after : Int, previous : Int, reported : Int]
    BY <1>2, <2>1 DEF InsertKeys, KeyTypeOK
  <2> QED BY <1>2, <2>2, <2>3, <2>4, <2>5 DEF InsertKeys, KeyTypeOK
<1>3. ASSUME NEW q \in KeyRequests, KeysRollBack(q) PROVE KeyTypeOK'
  BY <1>3, NoChangeType DEF KeysRollBack, KeyTypeOK
<1>4. CASE GrantKey
  <2>1. keys' \in Int /\ spare' \in [KeyRequests -> BOOLEAN]
    BY <1>0, <1>4 DEF GrantKey, Insert
  <2>2. keyCalls' \in 0..MaxKeyCalls
    BY <1>4, KeyAssumptions DEF GrantKey, KeyTypeOK
  <2> QED BY <1>4, <2>1, <2>2 DEF GrantKey, KeyTypeOK
<1>5. CASE UNCHANGED keyVars
  BY <1>5 DEF keyVars, KeyTypeOK
<1> QED BY <1>1, <1>2, <1>3, <1>4, <1>5 DEF KeyNext

\* What a request has summed stays the balance until somebody inserts a row.
LEMMA SummedStep == LedgerInv /\ [KeyNext]_keyVars => \A q \in KeyRequests : Summed(q)'
<1> SUFFICES ASSUME LedgerInv, [KeyNext]_keyVars, NEW p \in KeyRequests
             PROVE  Summed(p)'
  OBVIOUS
<1>0. keys \in Int /\ change \in [KeyRequests -> Changes]
      /\ spare \in [KeyRequests -> BOOLEAN] /\ Summed(p)
  BY DEF LedgerInv, KeyTypeOK
<1>1. ASSUME NEW q \in KeyRequests, NEW kind \in {"set", "delta", "spend"},
             NEW amount \in Amounts, SumKeys(q, kind, amount)
      PROVE Summed(p)'
  <2> DEFINE add == AppliedDelta(keys, kind, amount)
             new == [kind |-> kind, amount |-> amount, sum |-> keys, add |-> add]
  <2>1. keys' = keys
    BY <1>1 DEF SumKeys
  <2>2. CASE change' = change /\ spare' = spare
    BY <1>0, <2>1, <2>2 DEF Summed
  <2>3. CASE change' = [change EXCEPT ![q] = new] /\ spare' = [spare EXCEPT ![q] = TRUE]
    <3>1. CASE p # q
      BY <1>0, <2>1, <2>3, <3>1 DEF Summed
    <3>2. CASE p = q
      <4>1. change'[p] = new
        BY <1>0, <2>3, <3>2
      <4>2. amount \in Int
        BY KeyAssumptions DEF Amounts
      <4>3. kind \in {"set", "delta"} => keys + add >= 0
        BY <1>0, <1>1, <4>2, AppliedDeltaClamps DEF SumKeys, Asked
      <4> HIDE DEF add
      <4> QED BY <2>1, <4>1, <4>3 DEF Summed
    <3> QED BY <3>1, <3>2
  <2> QED BY <1>1, <2>2, <2>3 DEF SumKeys
<1>2. ASSUME NEW q \in KeyRequests, InsertKeys(q) PROVE Summed(p)'
  <2>1. ~spare'[p]
    BY <1>2 DEF InsertKeys, Insert
  <2>2. change'[p] = change[p] \/ change'[p] = NoChange
    BY <1>0, <1>2 DEF InsertKeys
  <2> QED BY <1>0, <2>1, <2>2, NoChangeType DEF Summed
<1>3. ASSUME NEW q \in KeyRequests, KeysRollBack(q) PROVE Summed(p)'
  <2>1. change'[p] = change[p] \/ change'[p] = NoChange
    BY <1>0, <1>3 DEF KeysRollBack
  <2> QED BY <1>0, <1>3, <2>1, NoChangeType DEF KeysRollBack, Summed
<1>4. CASE GrantKey
  BY <1>0, <1>4 DEF GrantKey, Insert, Summed
<1>5. CASE UNCHANGED keyVars
  BY <1>0, <1>5 DEF keyVars, Summed
<1> QED BY <1>1, <1>2, <1>3, <1>4, <1>5 DEF KeyNext

\* At first nobody has summed anything.
LEMMA LedgerInit == KeyInit => LedgerInv
<1>1. KeyInit => KeyTypeOK
  BY NoChangeType, KeyAssumptions DEF KeyInit, KeyTypeOK, NoAnswer
<1>2. KeyInit => \A q \in KeyRequests : Summed(q)
  BY NoChangeType DEF KeyInit, Summed
<1> QED BY <1>1, <1>2 DEF LedgerInv

\* The ledger, the changes under way and the last answer are of their types,
\* and a change that nobody interfered with starts from the balance.
THEOREM LedgerInvariant == KeySpec => []LedgerInv
<1>1. LedgerInv /\ [KeyNext]_keyVars => LedgerInv'
  BY KeyTypeStep, SummedStep DEF LedgerInv
<1> QED BY <1>1, LedgerInit, PTL DEF KeySpec

(***************************************************************************)
(* A change by an admin that nobody interferes with does not leave the     *)
(* balance of keys negative.                                               *)
(***************************************************************************)
THEOREM ChangesClamp == KeySpec => LoneChangeClamps
<1>1. LedgerInv /\ [KeyNext]_keyVars =>
         [\A q \in KeyRequests :
             change[q].kind \in {"set", "delta"} /\ spare[q] /\ InsertKeys(q)
                 => keys' >= 0]_keyVars
  <2> SUFFICES ASSUME LedgerInv, NEW q \in KeyRequests, spare[q],
                      change[q].kind \in {"set", "delta"}, InsertKeys(q)
               PROVE  keys' >= 0
    OBVIOUS
  <2>1. Summed(q)
    BY DEF LedgerInv
  <2>2. keys' = keys + change[q].add
    BY DEF InsertKeys, Insert
  <2> QED BY <2>1, <2>2 DEF Summed
<1> QED BY <1>1, LedgerInvariant, PTL DEF KeySpec, LoneChangeClamps

(* The coinflip bots, for any number of bots and requests and any bounds of bets *)

\* The defaults are a configuration.
LEMMA DefaultsType == Defaults \in Configs
BY BotAssumptions DEF Defaults, Configs, BotFields

\* No request is one that has its type.
LEMMA NoEditType == NoEdit \in Edits /\ NoEdit.at = "idle" /\ NoEdit.list = {}
<1>1. (CHOOSE n \in BotNames : TRUE) \in BotNames
  BY BotAssumptions
<1> QED BY <1>1, DefaultsType DEF NoEdit, Edit, Edits, EditSteps, EditKinds

\* The fields of a request that are there.
LEMMA RawField ==
    ASSUME NEW raw \in Raws, NEW f \in DOMAIN raw
    PROVE  raw[f] \in {Junk} \cup 0..MaxAmount
BY DEF Raws

\* A configuration together with what a request has of it.
Loose == [BotFields -> {Junk} \cup 0..MaxAmount]

\* A patch over a configuration has its fields, which may be junk.
LEMMA SpreadType ==
    ASSUME NEW config \in Configs, NEW raw \in Raws
    PROVE  Spread(config, raw) \in Loose
<1>1. \A f \in DOMAIN raw : raw[f] \in {Junk} \cup 0..MaxAmount
  BY RawField
<1> QED BY <1>1 DEF Spread, Loose, Configs

\* What a configuration must be for the game.
Sane(config) == 1 <= config["minBet"] /\ config["minBet"] <= config["maxBet"]

\* Normalising gives numbers, in bounds, with a smallest bet of at least 1,
\* and the order of the two where the largest is not the default.
LEMMA NormalizeType ==
    ASSUME NEW raw \in Loose
    PROVE  Normalize(raw) \in Configs
<1> DEFINE minBet == IF raw["minBet"] = Junk THEN Defaults["minBet"]
                     ELSE AtLeast(raw["minBet"], 1)
           maxBet == IF raw["maxBet"] = Junk THEN Defaults["maxBet"]
                     ELSE AtLeast(raw["maxBet"], minBet)
<1>1. raw["minBet"] \in {Junk} \cup 0..MaxAmount /\ raw["maxBet"] \in {Junk} \cup 0..MaxAmount
  BY DEF Loose, BotFields
<1>2. Defaults["minBet"] = 1 /\ Defaults["maxBet"] = DefaultMaxBet
  BY DEF Defaults, BotFields
<1>3. minBet \in 1..MaxAmount
  BY <1>1, <1>2, BotAssumptions DEF AtLeast, Junk
<1>4. maxBet \in 1..MaxAmount
  <2> HIDE DEF minBet
  <2> QED BY <1>1, <1>2, <1>3, BotAssumptions DEF AtLeast, Junk
<1>5. Normalize(raw) = [f \in BotFields |-> IF f = "minBet" THEN minBet ELSE maxBet]
  BY DEF Normalize
<1> HIDE DEF minBet, maxBet
<1> QED BY <1>3, <1>4, <1>5 DEF Configs

\* A configuration that is stored is normalised to one that is in order.
LEMMA CacheEntrySane ==
    ASSUME NEW config \in Configs
    PROVE  CacheEntry(config) \in Configs /\ Sane(CacheEntry(config))
<1> DEFINE minBet == AtLeast(config["minBet"], 1)
           maxBet == AtLeast(config["maxBet"], minBet)
<1>1. config["minBet"] \in 0..MaxAmount /\ config["maxBet"] \in 0..MaxAmount
  BY DEF Configs, BotFields
<1>2. config["minBet"] # Junk /\ config["maxBet"] # Junk
  BY <1>1, BotAssumptions DEF Junk
<1>3. CacheEntry(config) = [f \in BotFields |-> IF f = "minBet" THEN minBet ELSE maxBet]
  BY <1>2 DEF CacheEntry, Normalize
<1>4. minBet \in 1..MaxAmount
  BY <1>1, BotAssumptions DEF AtLeast
<1>5. maxBet \in 1..MaxAmount /\ minBet <= maxBet
  <2> HIDE DEF minBet
  <2> QED BY <1>1, <1>4, BotAssumptions DEF AtLeast
<1> HIDE DEF minBet, maxBet
<1>6. CacheEntry(config) \in Configs
  BY <1>3, <1>4, <1>5 DEF Configs
<1>7. CacheEntry(config)["minBet"] = minBet /\ CacheEntry(config)["maxBet"] = maxBet
  BY <1>3 DEF BotFields
<1> QED BY <1>4, <1>5, <1>6, <1>7 DEF Sane

\* The list made from any rows consists of entries in order.
LEMMA ListOfType ==
    ASSUME bots \in [BotNames -> Rows]
    PROVE  ListOf(bots) \in SUBSET BotEntries /\ \A e \in ListOf(bots) : Sane(e.config)
<1> SUFFICES ASSUME NEW e \in ListOf(bots) PROVE e \in BotEntries /\ Sane(e.config)
  OBVIOUS
<1>1. PICK n \in BotNames : e = [name |-> n, config |-> CacheEntry(bots[n].config)]
  BY DEF ListOf
<1>2. bots[n].config \in Configs
  BY DEF Rows
<1> QED BY <1>1, <1>2, CacheEntrySane DEF BotEntries

-----------------------------------------------------------------------------

\* The kinds of requests that write; what is published or about to be is sane.
BotInv ==
    /\ BotTypeOK
    /\ \A a \in BotAdmins : edit[a].at = "write" => edit[a].kind \in {"create", "update", "delete"}
    /\ \A e \in published : Sane(e.config)
    /\ \A a \in BotAdmins : \A e \in edit[a].list : Sane(e.config)

\* What Edit builds is a request, with the parts it was given.
LEMMA EditType ==
    ASSUME NEW at \in EditSteps, NEW kind \in EditKinds, NEW n \in BotNames,
           NEW config \in Configs, NEW list \in SUBSET BotEntries
    PROVE  /\ Edit(at, kind, n, config, list) \in Edits
           /\ Edit(at, kind, n, config, list).at = at
           /\ Edit(at, kind, n, config, list).kind = kind
           /\ Edit(at, kind, n, config, list).list = list
BY DEF Edit, Edits

\* At first there is no bot, no request and nothing is published.
LEMMA BotInitInv == BotInit => BotInv
<1> SUFFICES ASSUME BotInit PROVE BotInv
  OBVIOUS
<1>1. bots \in [BotNames -> Rows]
  BY DefaultsType DEF BotInit, NoRow, Rows
<1>2. edit \in [BotAdmins -> Edits] /\ \A a \in BotAdmins : edit[a] = NoEdit
  BY NoEditType DEF BotInit
<1>3. BotTypeOK
  <2>1. botCalls \in 0..MaxBotCalls
    BY BotAssumptions DEF BotInit
  <2>2. published \in SUBSET BotEntries /\ missed \in BOOLEAN /\ editsOverlap \in BOOLEAN
    BY DEF BotInit
  <2> QED BY <1>1, <1>2, <2>1, <2>2 DEF BotTypeOK
<1>4. published = {} /\ \A a \in BotAdmins : edit[a].list = {} /\ edit[a].at = "idle"
  BY <1>2, NoEditType DEF BotInit
<1> QED BY <1>3, <1>4 DEF BotInv

\* A step that replaces the progress of one request.
LEMMA EditStep ==
    ASSUME BotInv, NEW a \in BotAdmins, NEW p \in Edits, edit' = [edit EXCEPT ![a] = p],
           p.at = "write" => p.kind \in {"create", "update", "delete"},
           \A e \in p.list : Sane(e.config),
           bots' \in [BotNames -> Rows], published' \in SUBSET BotEntries,
           \A e \in published' : Sane(e.config),
           missed' \in BOOLEAN, botCalls' \in 0..MaxBotCalls,
           editsOverlap' = editsOverlap
    PROVE  BotInv'
<1>1. \A b \in BotAdmins : edit'[b] = IF b = a THEN p ELSE edit[b]
  BY DEF BotInv, BotTypeOK
<1> QED BY <1>1 DEF BotInv, BotTypeOK

\* Rows are stored, and lists published, normalised.
LEMMA BotStep == BotInv /\ [BotNext]_botVars => BotInv'
<1> SUFFICES ASSUME BotInv, [BotNext]_botVars PROVE BotInv'
  OBVIOUS
<1>0. /\ bots \in [BotNames -> Rows] /\ edit \in [BotAdmins -> Edits]
      /\ published \in SUBSET BotEntries /\ botCalls \in 0..MaxBotCalls
      /\ missed \in BOOLEAN /\ \A e \in published : Sane(e.config)
  BY DEF BotInv, BotTypeOK
<1>1. ASSUME NEW a \in BotAdmins, NEW n \in BotNames, NEW config \in Configs,
             NEW kind \in EditKinds, NEW at \in {"write", "find"},
             at = "write" => kind \in {"create", "update", "delete"},
             BeginEdit(a, kind, n, config, at)
      PROVE BotInv'
  <2> DEFINE p == Edit(at, kind, n, config, {})
  <2>1. p \in Edits /\ p.at = at /\ p.kind = kind /\ p.list = {}
    BY EditType DEF EditSteps
  <2>2. edit' = [edit EXCEPT ![a] = p]
        /\ UNCHANGED <<bots, published, missed, editsOverlap>>
    BY <1>1 DEF BeginEdit
  <2>3. botCalls' \in 0..MaxBotCalls
    BY <1>0, <1>1, BotAssumptions DEF BeginEdit
  <2> HIDE DEF p
  <2> QED BY <1>0, <1>1, <2>1, <2>2, <2>3, EditStep
<1>2. ASSUME NEW a \in BotAdmins, NEW n \in BotNames, NEW raw \in Raws,
             BeginCreateBot(a, n, raw) \/ BeginUpdateBot(a, n, raw)
      PROVE BotInv'
  <2>1. CASE BeginCreateBot(a, n, raw)
    <3>1. Normalize(Spread(Defaults, raw)) \in Configs
      BY DefaultsType, SpreadType, NormalizeType
    <3> QED BY <1>1, <2>1, <3>1 DEF BeginCreateBot, EditKinds
  <2>2. CASE BeginUpdateBot(a, n, raw)
    <3>1. bots[n].config \in Loose
      BY <1>0 DEF Rows, Configs, Loose
    <3>2. Normalize(Spread(Normalize(bots[n].config), raw)) \in Configs
      BY <3>1, SpreadType, NormalizeType
    <3> QED BY <1>1, <2>2, <3>2 DEF BeginUpdateBot, EditKinds
  <2> QED BY <1>2, <2>1, <2>2
<1>3. ASSUME NEW a \in BotAdmins, NEW n \in BotNames,
             BeginDeleteBot(a, n) \/ BeginResync(a, n)
      PROVE BotInv'
  BY <1>1, <1>3, DefaultsType DEF BeginDeleteBot, BeginResync, EditKinds
<1>4. ASSUME NEW a \in BotAdmins, WriteBot(a) PROVE BotInv'
  <2>0. edit[a] \in Edits /\ edit[a].kind \in {"create", "update", "delete"}
    BY <1>0, <1>4 DEF WriteBot, BotInv
  <2>1. edit[a].name \in BotNames /\ edit[a].config \in Configs /\ edit[a].kind \in EditKinds
    BY <2>0 DEF Edits
  <2> DEFINE p == Edit("find", edit[a].kind, edit[a].name, edit[a].config, {})
  <2>2. p \in Edits /\ p.at = "find" /\ p.list = {}
    BY <2>1, EditType DEF EditSteps
  <2>3. edit' = [edit EXCEPT ![a] = p]
        /\ UNCHANGED <<published, missed, botCalls, editsOverlap>>
    BY <1>4 DEF WriteBot, AfterWrite
  <2>4. \E row \in {"none", "bot", "former"} :
           bots' = [bots EXCEPT ![edit[a].name] = [row |-> row, config |-> edit[a].config]]
    <3>1. bots[edit[a].name].row \in {"none", "bot", "former"}
      BY <1>0, <2>1 DEF Rows
    <3> QED BY <1>4, <2>0, <3>1 DEF WriteBot
  <2>5. bots' \in [BotNames -> Rows]
    BY <1>0, <2>1, <2>4 DEF Rows
  <2> HIDE DEF p
  <2> QED BY <1>0, <2>2, <2>3, <2>5, EditStep
<1>5. ASSUME NEW a \in BotAdmins, edit' = [edit EXCEPT ![a] = NoEdit],
             UNCHANGED <<bots, botCalls, editsOverlap>>,
             published' = published \/ published' = edit[a].list,
             missed' \in BOOLEAN
      PROVE BotInv'
  <2>1. published' \in SUBSET BotEntries /\ \A e \in published' : Sane(e.config)
    BY <1>0, <1>5 DEF BotInv, Edits
  <2> QED BY <1>0, <1>5, <2>1, NoEditType, EditStep
<1>6. ASSUME NEW a \in BotAdmins, WriteBotFails(a) \/ SetBots(a) \/ PublishFails(a)
      PROVE BotInv'
  BY <1>0, <1>5, <1>6 DEF WriteBotFails, SetBots, PublishFails
<1>7. ASSUME NEW a \in BotAdmins, FindBots(a) PROVE BotInv'
  <2> DEFINE p == Edit("set", edit[a].kind, edit[a].name, edit[a].config, ListOf(bots))
  <2>1. edit[a].name \in BotNames /\ edit[a].config \in Configs /\ edit[a].kind \in EditKinds
    BY <1>0 DEF Edits
  <2>2. ListOf(bots) \in SUBSET BotEntries /\ \A e \in ListOf(bots) : Sane(e.config)
    BY <1>0, ListOfType
  <2>3. p \in Edits /\ p.at = "set" /\ p.list = ListOf(bots)
    BY <2>1, <2>2, EditType DEF EditSteps
  <2>4. edit' = [edit EXCEPT ![a] = p]
        /\ UNCHANGED <<bots, published, missed, botCalls, editsOverlap>>
    BY <1>7 DEF FindBots
  <2> HIDE DEF p
  <2> QED BY <1>0, <2>2, <2>3, <2>4, EditStep
<1>8. CASE UNCHANGED botVars
  BY <1>8 DEF botVars, BotInv, BotTypeOK
<1> QED BY <1>2, <1>3, <1>4, <1>6, <1>7, <1>8 DEF BotNext

(***************************************************************************)
(* Whatever admins send, no published bot has a smallest bet above its     *)
(* largest or of nothing.                                                  *)
(***************************************************************************)
THEOREM PublishedAreSane == BotSpec => []PublishedBotsSane
<1>1. BotInv => PublishedBotsSane
  BY DEF BotInv, PublishedBotsSane, Sane
<1> QED BY <1>1, BotInitInv, BotStep, PTL DEF BotSpec

-----------------------------------------------------------------------------
(* The published list, when requests do not overlap *)

OneEdit == \A a, b \in BotAdmins : a # b => edit[a].at = "idle" \/ edit[b].at = "idle"

\* A request that has found the rows still has them as they are; until one
\* has written, the last publication stands.
ListInv ==
    ~editsOverlap =>
        /\ OneEdit
        /\ \A a \in BotAdmins : edit[a].at = "set" => edit[a].list = ListOf(bots)
        /\ (\A a \in BotAdmins : edit[a].at \in {"idle", "write"}) /\ ~missed
              => published = ListOf(bots)

\* At first there is no bot and nothing is published, so the two agree.
LEMMA ListInit == BotInit => ListInv
<1> SUFFICES ASSUME BotInit PROVE ListInv
  OBVIOUS
<1>1. \A a \in BotAdmins : edit[a].at = "idle"
  BY NoEditType DEF BotInit
<1>2. ListOf(bots) = {}
  BY DEF BotInit, NoRow, ListOf
<1> QED BY <1>1, <1>2 DEF BotInit, ListInv, OneEdit

\* Without overlap, what a request is to publish is the rows.
LEMMA ListStep == BotInv /\ ListInv /\ [BotNext]_botVars => ListInv'
<1>a. [BotNext]_botVars => editsOverlap' = editsOverlap
  BY DEF BotNext, botVars, BeginCreateBot, BeginUpdateBot, BeginDeleteBot, BeginResync,
         BeginEdit, WriteBot, WriteBotFails, FindBots, SetBots, PublishFails
<1> SUFFICES ASSUME BotInv, ListInv, ~editsOverlap, [BotNext]_botVars
             PROVE  ListInv'
  BY <1>a DEF ListInv
<1>0. edit \in [BotAdmins -> Edits] /\ OneEdit
  BY DEF BotInv, BotTypeOK, ListInv
<1>b. bots' = bots => ListOf(bots)' = ListOf(bots)
  BY DEF ListOf, CacheEntry
<1>1. ASSUME NEW a \in BotAdmins, NEW kind, NEW n, NEW config, NEW at \in {"write", "find"},
             BeginEdit(a, kind, n, config, at)
      PROVE ListInv'
  <2>1. edit'[a].at = at /\ \A b \in BotAdmins \ {a} : edit'[b] = edit[b]
    BY <1>0, <1>1 DEF BeginEdit, Edit
  <2>2. \A b \in BotAdmins : edit[b].at = "idle"
    BY <1>1 DEF BeginEdit
  <2>3. UNCHANGED <<bots, published, missed>>
    BY <1>1 DEF BeginEdit
  <2>4. OneEdit'
    BY <2>1, <2>2 DEF OneEdit
  <2> QED BY <1>b, <2>1, <2>2, <2>3, <2>4 DEF ListInv
<1>2. ASSUME NEW a \in BotAdmins, NEW p, edit[a].at # "idle",
             edit' = [edit EXCEPT ![a] = p],
             p.at = "set" => p.list = ListOf(bots)',
             p.at \in {"idle", "write"} /\ ~missed' => published' = ListOf(bots)'
      PROVE ListInv'
  <2>1. edit'[a] = p /\ \A b \in BotAdmins \ {a} : edit'[b] = edit[b]
    BY <1>0, <1>2
  <2>2. \A b \in BotAdmins \ {a} : edit'[b].at = "idle"
    BY <1>0, <1>2, <2>1 DEF OneEdit
  <2>3. OneEdit'
    BY <2>2 DEF OneEdit
  <2> QED BY <1>2, <2>1, <2>2, <2>3 DEF ListInv
<1>3. ASSUME NEW a \in BotAdmins, WriteBot(a) PROVE ListInv'
  <2> DEFINE p == Edit("find", edit[a].kind, edit[a].name, edit[a].config, {})
  <2>1. p.at = "find" /\ edit[a].at = "write" /\ edit' = [edit EXCEPT ![a] = p]
    BY <1>3 DEF WriteBot, AfterWrite, Edit
  <2> HIDE DEF p
  <2> QED BY <1>2, <2>1
<1>4. ASSUME NEW a \in BotAdmins, WriteBotFails(a) PROVE ListInv'
  <2>1. \A b \in BotAdmins : edit[b].at \in {"idle", "write"}
    BY <1>0, <1>4 DEF WriteBotFails, OneEdit
  <2>2. ~missed => published = ListOf(bots)
    BY <2>1 DEF ListInv
  <2>3. edit' = [edit EXCEPT ![a] = NoEdit] /\ UNCHANGED <<bots, published, missed>>
        /\ edit[a].at # "idle"
    BY <1>4 DEF WriteBotFails
  <2> QED BY <1>b, <1>2, <2>2, <2>3, NoEditType
<1>5. ASSUME NEW a \in BotAdmins, FindBots(a) PROVE ListInv'
  <2> DEFINE p == Edit("set", edit[a].kind, edit[a].name, edit[a].config, ListOf(bots))
  <2>1. p.at = "set" /\ p.list = ListOf(bots)
    BY DEF Edit
  <2>2. edit[a].at # "idle" /\ edit' = [edit EXCEPT ![a] = p] /\ bots' = bots
    BY <1>5 DEF FindBots
  <2> HIDE DEF p
  <2> QED BY <1>b, <1>2, <2>1, <2>2
<1>6. ASSUME NEW a \in BotAdmins, SetBots(a) PROVE ListInv'
  <2>1. edit[a].at = "set" /\ published' = edit[a].list /\ bots' = bots
        /\ edit' = [edit EXCEPT ![a] = NoEdit]
    BY <1>6 DEF SetBots
  <2>2. published' = ListOf(bots)'
    BY <1>b, <2>1 DEF ListInv
  <2> QED BY <1>2, <2>1, <2>2, NoEditType
<1>7. ASSUME NEW a \in BotAdmins, PublishFails(a) PROVE ListInv'
  <2>1. edit[a].at # "idle" /\ missed' /\ edit' = [edit EXCEPT ![a] = NoEdit]
    BY <1>7 DEF PublishFails
  <2> QED BY <1>2, <2>1, NoEditType
<1>8. CASE UNCHANGED botVars
  BY <1>8, <1>b DEF botVars, ListInv, OneEdit
<1>9. ASSUME NEW a \in BotAdmins, NEW n \in BotNames, NEW raw \in Raws,
             \/ BeginCreateBot(a, n, raw) \/ BeginUpdateBot(a, n, raw)
             \/ BeginDeleteBot(a, n) \/ BeginResync(a, n)
      PROVE ListInv'
  BY <1>1, <1>9 DEF BeginCreateBot, BeginUpdateBot, BeginDeleteBot, BeginResync
<1>10. Raws # {}
  <2>1. [f \in {} |-> 0] \in [{} -> {Junk} \cup 0..MaxAmount] /\ {} \in SUBSET BotFields
    OBVIOUS
  <2> QED BY <2>1 DEF Raws
<1> QED BY <1>3, <1>4, <1>5, <1>6, <1>7, <1>8, <1>9, <1>10 DEF BotNext

(***************************************************************************)
(* When requests do not overlap, the published list is that of the rows    *)
(* between two requests, unless the last publication failed.               *)
(***************************************************************************)
THEOREM PublishedIsRows == BotSpec => []PublishedListIsRows
<1>1. ListInv => PublishedListIsRows
  BY DEF ListInv, PublishedListIsRows
<1> QED BY <1>1, BotInitInv, BotStep, ListInit, ListStep, PTL DEF BotSpec

(* The chains of crash, for any number of chains, seeds, rounds and requests *)

\* No call is one that has its type.
LEMMA NoChainCallType ==
    /\ NoChainCall \in ChainCalls /\ NoChainCall.at = "idle"
    /\ SomeChain \in Chains
<1>1. SomeChain \in Chains
  BY ChainAssumptions DEF SomeChain
<1> QED BY <1>1, ChainAssumptions DEF NoChainCall, Progress, ChainCalls

\* A call under way has its type.
LEMMA ProgressType ==
    ASSUME NEW at \in {"idle", "deactivate", "commit", "batch"}, NEW c \in Chains,
           NEW seed \in Seeds \cup {"none"}, NEW saw \in SUBSET Chains,
           NEW next \in Nat \ {0}, NEW last \in 0..TotalRounds
    PROVE  Progress(at, c, seed, saw, next, last) \in ChainCalls
BY DEF Progress, ChainCalls

\* The smaller of two numbers.
LEMMA SmallerType ==
    ASSUME NEW x \in Int, NEW y \in Int
    PROVE  Smaller(x, y) \in Int /\ Smaller(x, y) <= y /\ Smaller(x, y) <= x
BY DEF Smaller

-----------------------------------------------------------------------------
(* The type invariant *)

\* What is calculated is calculated with a seed.
Seeded == \A q \in ChainRequests :
              chainCall[q].at # "idle" => chainCall[q].seed \in Seeds

ChainTypeInv == ChainTypeOK /\ Seeded

\* At first no chain is there and nobody is at work.
LEMMA ChainTypeInit == ChainInit => ChainTypeInv
<1> SUFFICES ASSUME ChainInit PROVE ChainTypeInv
  OBVIOUS
<1>1. chain \in [Chains -> ChainRows]
  BY ChainAssumptions DEF ChainInit, ChainRows
<1>2. chainCall \in [ChainRequests -> ChainCalls] /\ Seeded
  BY NoChainCallType DEF ChainInit, Seeded
<1> QED BY <1>1, <1>2, ChainAssumptions DEF ChainInit, ChainTypeInv, ChainTypeOK

\* A batch adds rounds with the seed that the precalculation began with.
LEMMA BatchType ==
    ASSUME ChainTypeInv, NEW q \in ChainRequests, InsertBatch(q)
    PROVE  rounds' \in SUBSET RoundRows /\ chainCall' \in [ChainRequests -> ChainCalls]
           /\ Seeded'
<1> DEFINE c == chainCall[q]
           end == Smaller(c.next + MaxBatch - 1, c.last)
<1>1. c \in ChainCalls /\ c.seed \in Seeds
  BY DEF InsertBatch, ChainTypeInv, ChainTypeOK, Seeded
<1>2. c.next \in Nat \ {0} /\ c.last \in 0..TotalRounds /\ c.chain \in Chains
  BY <1>1 DEF ChainCalls
<1>3. c.next + MaxBatch - 1 \in Int /\ c.last \in Int /\ c.next + MaxBatch - 1 >= c.next
  BY <1>2, ChainAssumptions
<1>4. end \in Int /\ end <= TotalRounds
  <2>1. end \in Int /\ end <= c.last
    BY <1>3, SmallerType
  <2>2. c.last <= TotalRounds /\ TotalRounds \in Int
    BY <1>2, ChainAssumptions
  <2> HIDE DEF end
  <2> QED BY <1>3, <2>1, <2>2
<1>5. rounds' \in SUBSET RoundRows
  <2>1. ASSUME NEW n \in c.next..end PROVE n \in 1..TotalRounds
    <3>1. TotalRounds \in Int /\ c.next \in Int /\ 1 <= c.next
      BY <1>2, ChainAssumptions
    <3> HIDE DEF c, end
    <3>2. n \in Int /\ c.next <= n /\ n <= end
      BY <1>4, <3>1
    <3> QED BY <1>4, <3>1, <3>2
  <2>2. \A n \in c.next..end : [chain |-> c.chain, number |-> n, seed |-> c.seed] \in RoundRows
    BY <1>1, <1>2, <2>1 DEF RoundRows
  <2>3. rounds \subseteq RoundRows BY DEF ChainTypeInv, ChainTypeOK
  <2> DEFINE batch == {[chain |-> c.chain, number |-> n, seed |-> c.seed] : n \in c.next..end}
  <2>4. rounds' \subseteq rounds \cup batch BY DEF InsertBatch
  <2>5. batch \subseteq RoundRows BY <2>2
  <2> HIDE DEF batch
  <2> QED BY <2>3, <2>4, <2>5
<1>6. CASE chainCall' = [chainCall EXCEPT ![q] = NoChainCall]
  BY <1>5, <1>6, NoChainCallType DEF ChainTypeInv, ChainTypeOK, Seeded
<1>7. CASE end # c.last
  <2> DEFINE p == Progress("batch", c.chain, c.seed, {}, end + 1, c.last)
  <2>1. end + 1 \in Nat \ {0}
    BY <1>2, <1>3, <1>4, <1>7 DEF Smaller
  <2>2. p \in ChainCalls /\ p.seed \in Seeds
    BY <1>1, <1>2, <2>1, ProgressType DEF Progress
  <2>3. chainCall' = [chainCall EXCEPT ![q] = p]
    BY <1>7 DEF InsertBatch
  <2> HIDE DEF p
  <2> QED BY <1>5, <2>2, <2>3 DEF ChainTypeInv, ChainTypeOK, Seeded
<1> QED BY <1>6, <1>7 DEF InsertBatch

\* Chains, rounds and calls keep their types.
LEMMA ChainTypeStep == ChainTypeInv /\ [ChainNext]_chainVars => ChainTypeInv'
<1> SUFFICES ASSUME ChainTypeInv, [ChainNext]_chainVars PROVE ChainTypeInv'
  OBVIOUS
<1>0. chain \in [Chains -> ChainRows] /\ chainCall \in [ChainRequests -> ChainCalls]
  BY DEF ChainTypeInv, ChainTypeOK
<1>1. ASSUME NEW c \in Chains, CreateChain(c) \/ PlayRound(c) PROVE ChainTypeInv'
  <2>1. chain' \in [Chains -> ChainRows]
    <3>1. CASE CreateChain(c)
      BY <1>0, <3>1 DEF CreateChain, ChainRows
    <3>2. CASE PlayRound(c)
      <4>1. chain[c].current + 1 \in 0..TotalRounds
        BY <1>0, <3>2, ChainAssumptions DEF PlayRound, ChainRows
      <4> QED BY <1>0, <3>2, <4>1 DEF PlayRound, ChainRows
    <3> QED BY <1>1, <3>1, <3>2
  <2> QED BY <1>1, <2>1 DEF CreateChain, PlayRound, ChainTypeInv, ChainTypeOK, Seeded
<1>2. ASSUME NEW q \in ChainRequests, NEW p \in ChainCalls, p.seed \in Seeds \/ p.at = "idle",
             chainCall' = [chainCall EXCEPT ![q] = p],
             UNCHANGED <<rounds, activationsOverlap>>,
             chain' \in [Chains -> ChainRows], chainCalls' \in 0..MaxChainCalls
      PROVE ChainTypeInv'
  BY <1>2 DEF ChainTypeInv, ChainTypeOK, Seeded
<1>3. \A q \in ChainRequests : BeginChainCall(q) => chainCalls' \in 0..MaxChainCalls
  BY ChainAssumptions DEF BeginChainCall, ChainTypeInv, ChainTypeOK
<1>4. ASSUME NEW q \in ChainRequests, NEW c \in Chains, NEW seed \in Seeds,
             CheckSeed(q, c, seed)
      PROVE ChainTypeInv'
  <2> DEFINE p == Progress("deactivate", c, seed, {}, 1, 0)
  <2>1. p \in ChainCalls /\ p.seed \in Seeds
    BY ProgressType, ChainAssumptions DEF Progress
  <2>2. chainCall' = [chainCall EXCEPT ![q] = p]
    BY <1>4 DEF CheckSeed
  <2>3. UNCHANGED <<chain, rounds, activationsOverlap>> /\ chainCalls' \in 0..MaxChainCalls
    BY <1>3, <1>4 DEF CheckSeed, BeginChainCall
  <2> HIDE DEF p
  <2> QED BY <1>0, <1>2, <2>1, <2>2, <2>3
<1>5. ASSUME NEW q \in ChainRequests, Deactivate(q) PROVE ChainTypeInv'
  <2> DEFINE p == Progress("commit", chainCall[q].chain, chainCall[q].seed, ActiveChains, 1, 0)
  <2>1. chainCall[q].chain \in Chains /\ chainCall[q].seed \in Seeds
    BY <1>0, <1>5 DEF ChainCalls, Deactivate, ChainTypeInv, Seeded
  <2>a. ActiveChains \in SUBSET Chains /\ 1 \in Nat \ {0} /\ 0 \in 0..TotalRounds
    BY ChainAssumptions DEF ActiveChains
  <2>2. p \in ChainCalls /\ p.seed \in Seeds
    BY <2>1, <2>a, ProgressType DEF Progress
  <2>3. chainCall' = [chainCall EXCEPT ![q] = p]
    BY <1>5 DEF Deactivate
  <2>4. UNCHANGED <<chain, rounds, activationsOverlap>> /\ chainCalls' \in 0..MaxChainCalls
    BY <1>5 DEF Deactivate, ChainTypeInv, ChainTypeOK
  <2> HIDE DEF p
  <2> QED BY <1>0, <1>2, <2>2, <2>3, <2>4
<1>6. ASSUME NEW q \in ChainRequests, CommitActivation(q) PROVE ChainTypeInv'
  <2>1. chainCall[q].seed \in Seeds
    BY <1>6 DEF CommitActivation, ChainTypeInv, Seeded
  <2>2. chain' \in [Chains -> ChainRows]
    BY <1>0, <1>6, <2>1 DEF CommitActivation, ChainRows
  <2>3. /\ chainCall' = [chainCall EXCEPT ![q] = NoChainCall]
        /\ UNCHANGED <<rounds, activationsOverlap>> /\ chainCalls' \in 0..MaxChainCalls
    BY <1>6 DEF CommitActivation, ChainTypeInv, ChainTypeOK
  <2> QED BY <1>2, <2>2, <2>3, NoChainCallType
<1>7. ASSUME NEW q \in ChainRequests, NEW c \in Chains, NEW last \in 1..TotalRounds,
             BeginPrecalculate(q, c, last)
      PROVE ChainTypeInv'
  <2> DEFINE p == Progress("batch", c, chain[c].seed, {}, chain[c].current + 1, last)
  <2>1. chain[c] \in ChainRows /\ chain[c].seed \in Seeds
    BY <1>0, <1>7 DEF BeginPrecalculate, ChainRows
  <2>2. chain[c].current + 1 \in Nat \ {0} /\ last \in 0..TotalRounds
    BY <2>1, ChainAssumptions DEF ChainRows
  <2>3. p \in ChainCalls /\ p.seed \in Seeds
    BY <2>1, <2>2, ProgressType DEF Progress
  <2>4. chainCall' = [chainCall EXCEPT ![q] = p]
    BY <1>7 DEF BeginPrecalculate
  <2>5. UNCHANGED <<chain, rounds, activationsOverlap>> /\ chainCalls' \in 0..MaxChainCalls
    BY <1>3, <1>7 DEF BeginPrecalculate, BeginChainCall
  <2> HIDE DEF p
  <2> QED BY <1>0, <1>2, <2>3, <2>4, <2>5
<1>8. ASSUME NEW q \in ChainRequests, InsertBatch(q) PROVE ChainTypeInv'
  BY <1>8, BatchType DEF InsertBatch, ChainTypeInv, ChainTypeOK
<1>9. ASSUME NEW q \in ChainRequests, ChainCallFails(q) PROVE ChainTypeInv'
  BY <1>0, <1>2, <1>9, NoChainCallType DEF ChainCallFails, ChainTypeInv, ChainTypeOK
<1>10. CASE UNCHANGED chainVars
  BY <1>10 DEF chainVars, ChainTypeInv, ChainTypeOK, Seeded
<1> QED BY <1>1, <1>4, <1>5, <1>6, <1>7, <1>8, <1>9, <1>10 DEF ChainNext

\* The rows of the chains and rounds and the requests are of their types.
THEOREM ChainTypeCorrect == ChainSpec => []ChainTypeOK
<1>1. ChainTypeInv => ChainTypeOK
  BY DEF ChainTypeInv
<1> QED BY <1>1, ChainTypeInit, ChainTypeStep, PTL DEF ChainSpec

-----------------------------------------------------------------------------
(* The rounds *)

OneActivation == \A p, q \in ChainRequests : Activating(p) /\ Activating(q) => p = q
OneActive == \A c, d \in ActiveChains : c = d

\* An activation has a chain without a seed and, at its commit, has seen what
\* is active; a batch has the seed of its chain.
CallInv(q) ==
    /\ Activating(q) => chain[chainCall[q].chain].seed = "none"
    /\ chainCall[q].at = "commit" => ActiveChains \subseteq chainCall[q].saw
    /\ chainCall[q].at = "batch" => chainCall[q].seed = chain[chainCall[q].chain].seed

RoundsAgree == \A r \in rounds : r.seed = chain[r.chain].seed

ChainInv == OneActivation /\ OneActive /\ (\A q \in ChainRequests : CallInv(q)) /\ RoundsAgree
RoundsInv == ~activationsOverlap => ChainInv

\* A step of one request that leaves the chains alone.
LEMMA RequestStep ==
    ASSUME ChainTypeOK, ChainInv, NEW q \in ChainRequests, NEW p,
           chainCall' = [chainCall EXCEPT ![q] = p], chain' = chain,
           p.at \in {"deactivate", "commit"} =>
               /\ \A o \in ChainRequests \ {q} : ~Activating(o)
               /\ chain[p.chain].seed = "none",
           p.at = "commit" => ActiveChains \subseteq p.saw,
           p.at = "batch" => p.seed = chain[p.chain].seed,
           RoundsAgree'
    PROVE  ChainInv'
<1>0. chainCall'[q] = p /\ \A o \in ChainRequests \ {q} : chainCall'[o] = chainCall[o]
  BY DEF ChainTypeOK
<1>1. OneActivation'
  BY <1>0 DEF ChainInv, OneActivation, Activating
<1>2. OneActive'
  BY DEF ChainInv, OneActive, ActiveChains
<1>3. ASSUME NEW o \in ChainRequests PROVE CallInv(o)'
  <2>1. CASE o = q
    BY <1>0, <2>1 DEF CallInv, Activating, ActiveChains
  <2>2. CASE o # q
    BY <1>0, <2>2 DEF ChainInv, CallInv, Activating, ActiveChains
  <2> QED BY <2>1, <2>2
<1> QED BY <1>1, <1>2, <1>3 DEF ChainInv

\* A commit activates the only chain that is active.
LEMMA CommitStep ==
    ASSUME ChainTypeInv, ChainInv, NEW q \in ChainRequests, CommitActivation(q)
    PROVE  ChainInv'
<1>0. PICK c \in Chains : c = chainCall[q].chain
  BY DEF ChainTypeInv, ChainTypeOK, ChainCalls
<1>1. /\ chainCall[q].at = "commit" /\ chain[c].seed = "none"
      /\ ActiveChains \subseteq chainCall[q].saw
  BY <1>0 DEF CommitActivation, ChainInv, CallInv, Activating
<1>2. \A d \in Chains \ {c} :
         chain'[d].seed = chain[d].seed
         /\ chain'[d].active = (chain[d].active /\ d \notin chainCall[q].saw)
  BY <1>0 DEF CommitActivation, ChainTypeInv, ChainTypeOK, ChainRows
<1>3. \A d \in ActiveChains' : d = c
  BY <1>1, <1>2 DEF ActiveChains
<1>4. NoChainCall.at = "idle" /\ chainCall'[q] = NoChainCall
      /\ \A o \in ChainRequests \ {q} : chainCall'[o] = chainCall[o]
  BY NoChainCallType DEF CommitActivation, ChainTypeInv, ChainTypeOK
<1>5. \A o \in ChainRequests : ~Activating(o)'
  BY <1>1, <1>4 DEF Activating, ChainInv, OneActivation
<1>6. ASSUME NEW o \in ChainRequests PROVE CallInv(o)'
  <2>1. SUFFICES ASSUME chainCall'[o].at = "batch"
                 PROVE  chainCall'[o].seed = chain'[chainCall'[o].chain].seed
    BY <1>5 DEF CallInv, Activating
  <2>2. o # q /\ chainCall'[o] = chainCall[o]
    BY <1>4, <2>1
  <2>3. chainCall[o].seed = chain[chainCall[o].chain].seed /\ chainCall[o].seed \in Seeds
    BY <2>1, <2>2 DEF ChainInv, CallInv, ChainTypeInv, Seeded
  <2>4. chainCall[o].chain \in Chains \ {c}
    BY <1>1, <2>3, ChainAssumptions DEF ChainTypeInv, ChainTypeOK, ChainCalls
  <2> QED BY <1>2, <2>2, <2>3, <2>4
<1>7. RoundsAgree'
  <2> SUFFICES ASSUME NEW r \in rounds PROVE r.seed = chain'[r.chain].seed
    BY DEF CommitActivation, RoundsAgree
  <2>1. r.seed = chain[r.chain].seed /\ r.seed \in Seeds /\ r.chain \in Chains
    BY DEF ChainInv, RoundsAgree, ChainTypeInv, ChainTypeOK, RoundRows
  <2>2. r.chain # c
    BY <1>1, <2>1, ChainAssumptions
  <2> QED BY <1>2, <2>1, <2>2
<1>8. OneActivation' /\ OneActive'
  BY <1>3, <1>5 DEF OneActivation, OneActive
<1> QED BY <1>6, <1>7, <1>8 DEF ChainInv

\* Seeds that are set stay, so rounds go on using the seed of their chain.
LEMMA RoundsStep == ChainTypeInv /\ RoundsInv /\ [ChainNext]_chainVars => RoundsInv'
<1>a. [ChainNext]_chainVars => activationsOverlap' = activationsOverlap
  BY DEF ChainNext, chainVars, CreateChain, PlayRound, CheckSeed, BeginChainCall,
         BeginPrecalculate, Deactivate, CommitActivation, InsertBatch, ChainCallFails
<1> SUFFICES ASSUME ChainTypeInv, ChainInv, ~activationsOverlap, [ChainNext]_chainVars
             PROVE  ChainInv'
  BY <1>a DEF RoundsInv
<1>0. chain \in [Chains -> ChainRows] /\ chainCall \in [ChainRequests -> ChainCalls]
      /\ ChainTypeOK
  BY DEF ChainTypeInv, ChainTypeOK
<1>b. UNCHANGED <<chain, rounds>> => RoundsAgree'
  BY DEF ChainInv, RoundsAgree
<1>1. ASSUME NEW c \in Chains, CreateChain(c) \/ PlayRound(c) PROVE ChainInv'
  <2>1. \A d \in Chains : chain'[d].seed = chain[d].seed
                          /\ chain'[d].active = chain[d].active
    BY <1>0, <1>1 DEF CreateChain, PlayRound, ChainRows
  <2>2. ActiveChains' = ActiveChains
    BY <2>1 DEF ActiveChains
  <2>3. UNCHANGED <<rounds, chainCall>>
    BY <1>1 DEF CreateChain, PlayRound
  <2>4. RoundsAgree'
    BY <2>1, <2>3 DEF ChainInv, RoundsAgree, ChainTypeInv, ChainTypeOK, RoundRows
  <2>5. ASSUME NEW o \in ChainRequests PROVE CallInv(o)'
    <3>1. chainCall[o].chain \in Chains /\ CallInv(o)
      BY <1>0 DEF ChainCalls, ChainInv
    <3> QED BY <2>1, <2>2, <2>3, <3>1 DEF CallInv, Activating
  <2>6. OneActivation' /\ OneActive'
    BY <2>2, <2>3 DEF ChainInv, OneActivation, OneActive, Activating
  <2> QED BY <2>4, <2>5, <2>6 DEF ChainInv
<1>4. ASSUME NEW q \in ChainRequests, NEW c \in Chains, NEW seed \in Seeds,
             CheckSeed(q, c, seed)
      PROVE ChainInv'
  <2> DEFINE p == Progress("deactivate", c, seed, {}, 1, 0)
  <2>1. p.at = "deactivate" /\ p.chain = c
    BY DEF Progress
  <2>2. chainCall' = [chainCall EXCEPT ![q] = p] /\ UNCHANGED <<chain, rounds>>
    BY <1>4 DEF CheckSeed, BeginChainCall
  <2>3. chain[c].seed = "none" /\ \A o \in ChainRequests : ~Activating(o)
    BY <1>4 DEF CheckSeed, SeedIsFree
  <2> HIDE DEF p
  <2> QED BY <1>0, <1>b, <2>1, <2>2, <2>3, RequestStep
<1>5. ASSUME NEW q \in ChainRequests, Deactivate(q) PROVE ChainInv'
  <2> DEFINE p == Progress("commit", chainCall[q].chain, chainCall[q].seed, ActiveChains, 1, 0)
  <2>1. p.at = "commit" /\ p.chain = chainCall[q].chain /\ p.saw = ActiveChains
    BY DEF Progress
  <2>2. chainCall' = [chainCall EXCEPT ![q] = p] /\ UNCHANGED <<chain, rounds>>
    BY <1>5 DEF Deactivate
  <2>3. Activating(q) /\ CallInv(q)
    BY <1>5 DEF Deactivate, Activating, ChainInv
  <2>4. chain[p.chain].seed = "none" /\ \A o \in ChainRequests \ {q} : ~Activating(o)
    BY <2>1, <2>3 DEF CallInv, ChainInv, OneActivation
  <2> HIDE DEF p
  <2> QED BY <1>0, <1>b, <2>1, <2>2, <2>4, RequestStep
<1>6. ASSUME NEW q \in ChainRequests, CommitActivation(q) PROVE ChainInv'
  BY <1>6, CommitStep
<1>7. ASSUME NEW q \in ChainRequests, NEW c \in Chains, NEW last \in 1..TotalRounds,
             BeginPrecalculate(q, c, last)
      PROVE ChainInv'
  <2> DEFINE p == Progress("batch", c, chain[c].seed, {}, chain[c].current + 1, last)
  <2>1. p.at = "batch" /\ p.chain = c /\ p.seed = chain[c].seed
    BY DEF Progress
  <2>2. chainCall' = [chainCall EXCEPT ![q] = p] /\ UNCHANGED <<chain, rounds>>
    BY <1>7 DEF BeginPrecalculate, BeginChainCall
  <2> HIDE DEF p
  <2> QED BY <1>0, <1>b, <2>1, <2>2, RequestStep
<1>8. ASSUME NEW q \in ChainRequests, InsertBatch(q) PROVE ChainInv'
  <2>1. chainCall[q].at = "batch" /\ chainCall[q].seed = chain[chainCall[q].chain].seed
    BY <1>8 DEF InsertBatch, ChainInv, CallInv
  <2>2. chain' = chain
    BY <1>8 DEF InsertBatch
  <2>3. RoundsAgree'
    BY <1>8, <2>1, <2>2 DEF InsertBatch, ChainInv, RoundsAgree
  <2>4. CASE chainCall' = [chainCall EXCEPT ![q] = NoChainCall]
    BY <1>0, <2>2, <2>3, <2>4, NoChainCallType, RequestStep
  <2>5. ASSUME NEW n, chainCall' = [chainCall EXCEPT ![q] =
                   Progress("batch", @.chain, @.seed, {}, n, @.last)]
        PROVE ChainInv'
    <3> DEFINE p == Progress("batch", chainCall[q].chain, chainCall[q].seed, {}, n,
                             chainCall[q].last)
    <3>1. p.at = "batch" /\ p.chain = chainCall[q].chain /\ p.seed = chainCall[q].seed
      BY DEF Progress
    <3>2. chainCall' = [chainCall EXCEPT ![q] = p]
      BY <2>5
    <3> HIDE DEF p
    <3> QED BY <1>0, <2>1, <2>2, <2>3, <3>1, <3>2, RequestStep
  <2> QED BY <1>8, <2>4, <2>5 DEF InsertBatch
<1>9. ASSUME NEW q \in ChainRequests, ChainCallFails(q) PROVE ChainInv'
  <2>1. chainCall' = [chainCall EXCEPT ![q] = NoChainCall] /\ UNCHANGED <<chain, rounds>>
    BY <1>9 DEF ChainCallFails
  <2> QED BY <1>0, <1>b, <2>1, NoChainCallType, RequestStep
<1>10. CASE UNCHANGED chainVars
  BY <1>10 DEF chainVars, ChainInv, OneActivation, OneActive, CallInv, RoundsAgree,
               Activating, ActiveChains
<1> QED BY <1>1, <1>4, <1>5, <1>6, <1>7, <1>8, <1>9, <1>10 DEF ChainNext

\* At first there are no rounds.
LEMMA RoundsInit == ChainInit => RoundsInv
<1> SUFFICES ASSUME ChainInit PROVE ChainInv
  BY DEF RoundsInv
<1>1. \A q \in ChainRequests : chainCall[q].at = "idle"
  BY NoChainCallType DEF ChainInit
<1>2. ActiveChains = {} /\ rounds = {}
  BY DEF ChainInit, ActiveChains
<1> QED BY <1>1, <1>2 DEF ChainInv, OneActivation, OneActive, CallInv, RoundsAgree,
               Activating

(***************************************************************************)
(* When activations do not overlap, at most one chain is active and every  *)
(* round calculated in advance has the seed that its chain shows.          *)
(***************************************************************************)
THEOREM RoundsAreVerifiable == ChainSpec => []RoundsVerify
<1>1. RoundsInv => RoundsVerify
  BY DEF RoundsInv, ChainInv, RoundsVerify, OneActive, RoundsAgree
<1> QED BY <1>1, ChainTypeInit, ChainTypeStep, RoundsInit, RoundsStep, PTL DEF ChainSpec

=============================================================================
