------------------------ MODULE SharedConnectionProofs ------------------------
(***************************************************************************)
(* The theorems about SharedConnection.  The type invariant and the valid  *)
(* economy hold whether or not requests overlap.  The rest is about        *)
(* requests one at a time: SerialInv says that at most one is under way,   *)
(* that it watches its key from the read on, that the key is as it was     *)
(* read unless touched, and that what it will write is right for that.     *)
(***************************************************************************)
EXTENDS SharedConnection, TLAPS

\* A patch merged into an economy makes an economy.
LEMMA MergeType ==
    ASSUME NEW e \in Economies, NEW p \in Patches
    PROVE  Merge(e, p) \in Economies
<1>1. \A f \in DOMAIN p : p[f] \in 1..MaxBet
  BY DEF Patches
<1> QED BY <1>1 DEF Merge, Economies

\* The call that is none is a call, and idle.
LEMMA NoCallType == NoCall \in Calls /\ NoCall.at = "idle" /\ NoCall.kind = "none"
<1>1. NoCall.patch \in Patches
  <2>1. NoCall.patch \in [{} -> 1..MaxBet]
    BY DEF NoCall
  <2>2. {} \in SUBSET Fields
    OBVIOUS
  <2> QED BY <2>1, <2>2 DEF Patches
<1> QED BY <1>1, ConnAssumptions DEF NoCall, Calls

\* What a call has seen before its first answer is something to have seen.
LEMMA SawNothingType == SawNothing \in Sights
BY ConnAssumptions DEF SawNothing, Sights, Least, Economies, Fields, Statuses

\* The bans still running are among those listed.
LEMMA ActiveType == ASSUME NEW l \in SUBSET Entries PROVE Active(l) \in SUBSET Entries
BY DEF Active

\* What a step of r does to the calls of the others: nothing.
OthersKept(r) ==
    \A s \in Callers \ {r} : call'[s] = call[s] /\ seen'[s] = seen[s]

-----------------------------------------------------------------------------
(* What the fields of a call say of each other *)

Shape(c) ==
    /\ c.kind \in {"ban", "unban"} => c.user \in Users
    /\ c.kind = "cancel" => c.game \in Games
    /\ c.at \in {"watch", "read", "exec"} =>
          c.kind \in {"ban", "unban", "economy", "cancel"}
    /\ c.at \in {"done", "again"} => c.kind \in {"ban", "unban"}

ShapeInv == \A r \in Callers : Shape(call[r])

\* No call is a call in shape.
LEMMA NoCallShape == Shape(NoCall)
BY DEF Shape, NoCall

\* A call that goes on keeps its shape: only requests with a watch come to the
\* steps of a watch, only those about bans look again.
LEMMA GoToShape ==
    ASSUME call \in [Callers -> Calls], ShapeInv, NEW r \in Callers, NEW w, GoTo(r, w),
           w \in {"watch", "read", "exec"} =>
               call[r].kind \in {"ban", "unban", "economy", "cancel"},
           w \in {"done", "again"} => call[r].kind \in {"ban", "unban"}
    PROVE  ShapeInv'
<1>1. call' = [call EXCEPT ![r].at = w]
  BY DEF GoTo
<1>2. ASSUME NEW s \in Callers PROVE Shape(call'[s])
  <2>1. call[r] \in Calls
    OBVIOUS
  <2>2. CASE s = r
    <3>1. call'[s] = [call[r] EXCEPT !.at = w]
      BY <1>1, <2>2
    <3>2. Shape(call[r])
      BY DEF ShapeInv
    <3> QED BY <2>1, <3>1, <3>2 DEF Shape, Calls
  <2>3. CASE s # r
    BY <1>1, <2>3 DEF ShapeInv
  <2> QED BY <2>2, <2>3
<1> QED BY <1>2 DEF ShapeInv

\* So does one that ends,
LEMMA EndCallShape ==
    ASSUME call \in [Callers -> Calls], ShapeInv, NEW r \in Callers, EndCall(r)
    PROVE  ShapeInv'
BY NoCallShape DEF EndCall, ShapeInv

\* and one that tries again, or has tried often enough.
LEMMA RetryShape ==
    ASSUME call \in [Callers -> Calls], ShapeInv, NEW r \in Callers, Retry(r),
           call[r].kind \in {"ban", "unban", "economy", "cancel"}
    PROVE  ShapeInv'
<1>1. Shape(Again(call[r]))
  BY DEF Shape, Again, ShapeInv
<1>2. CASE call[r].tries + 1 < MaxAttempts
  BY <1>1, <1>2 DEF Retry, ShapeInv
<1> QED BY <1>2, EndCallShape DEF Retry

\* The shapes are kept by every step.
LEMMA ShapeStep ==
    call \in [Callers -> Calls] /\ ShapeInv /\ [ConnNext]_connVars => ShapeInv'
<1> SUFFICES ASSUME call \in [Callers -> Calls], ShapeInv, [ConnNext]_connVars
             PROVE  ShapeInv'
  OBVIOUS
<1>0. CASE call' = call
  BY <1>0 DEF ShapeInv
<1>1. ASSUME NEW r \in Callers, CallStep(r) PROVE ShapeInv'
  <2>0. Shape(call[r])
    BY DEF ShapeInv
  <2>1. CASE BeginCall(r)
    <3>1. ASSUME NEW k \in {"ban", "unban", "economy", "cancel", "view"},
                 NEW at \in {"watch", "get"}, NEW u, NEW g, NEW p,
                 k \in {"ban", "unban"} => u \in Users, k = "cancel" => g \in Games,
                 at = "watch" => k # "view", Start(r, k, at, u, g, p)
          PROVE ShapeInv'
      <4>1. Shape([kind |-> k, at |-> at, user |-> u, game |-> g, patch |-> p,
                   tries |-> 0])
        BY <3>1 DEF Shape
      <4> QED BY <3>1, <4>1 DEF Start, ShapeInv
    <3> QED BY <2>1, <3>1 DEF BeginCall
  <2>2. CASE Watch(r)
    BY <2>2, <2>0, GoToShape DEF Watch, At, Shape
  <2>3. CASE ReadBans(r)
    <3>1. \/ GoTo(r, "refused") \/ GoTo(r, "exec")
      BY <2>3 DEF ReadBans
    <3> QED BY <2>0, <2>3, <3>1, GoToShape DEF ReadBans, At, Shape
  <2>4. CASE ReadEconomy(r)
    <3>1. \/ GoTo(r, "refused") \/ GoTo(r, "exec")
      BY <2>4 DEF ReadEconomy
    <3> QED BY <2>0, <2>4, <3>1, GoToShape DEF ReadEconomy, At, Shape
  <2>5. CASE ReadGame(r)
    <3>1. \/ GoTo(r, "refused") \/ GoTo(r, "exec")
      BY <2>5 DEF ReadGame
    <3> QED BY <2>0, <2>5, <3>1, GoToShape DEF ReadGame, At, Shape
  <2>6. CASE ExecDone(r)
    BY <2>6, GoToShape, EndCallShape DEF ExecDone
  <2>7. CASE ExecRefused(r)
    <3>1. call[r].kind \in {"ban", "unban", "economy", "cancel"}
      BY <2>7, <2>0 DEF ExecRefused, At, Shape
    <3> QED BY <2>7, <3>1, GoToShape, RetryShape DEF ExecRefused
  <2>8. CASE Unwatch(r)
    <3>1. At(r, "again") => call[r].kind \in {"ban", "unban"}
      BY <2>0 DEF At, Shape
    <3> QED BY <2>8, <3>1, GoToShape, RetryShape, EndCallShape DEF Unwatch, AfterUnwatch
  <2>9. CASE GetBans(r)
    BY <2>9, GoToShape, EndCallShape DEF GetBans
  <2>10. CASE SetBans(r)
    BY <2>10, EndCallShape DEF SetBans
  <2> QED BY <1>1, <2>1, <2>2, <2>3, <2>4, <2>5, <2>6, <2>7, <2>8, <2>9, <2>10 DEF CallStep
<1>2. ASSUME NEW g \in Games, Join(g) \/ PlayOut(g) \/ Withdraw(g) PROVE call' = call
  BY <1>2 DEF Join, PlayOut, Withdraw
<1>3. BansExpire => call' = call
  BY DEF BansExpire
<1> QED BY <1>0, <1>1, <1>2, <1>3 DEF ConnNext, connVars

-----------------------------------------------------------------------------
(* The type invariant *)

\* At first there are no calls, and the documents are of their types.
LEMMA TypeInit == ConnInit => ConnTypeOK
<1> SUFFICES ASSUME ConnInit PROVE ConnTypeOK
  OBVIOUS
<1> USE DEF ConnInit
<1>1. call \in [Callers -> Calls] /\ seen \in [Callers -> Sights]
  BY NoCallType, SawNothingType
<1>2. lobby \in [Games -> Statuses] /\ refunds \in [Games -> Nat]
  BY DEF Statuses
<1>3. economy \in Economies /\ chatBans \in SUBSET Entries /\ watched \in SUBSET Keys
  OBVIOUS
<1>4. touched \in BOOLEAN /\ late \in BOOLEAN /\ overlap \in BOOLEAN
  OBVIOUS
<1>5. joined \in SUBSET Games
  OBVIOUS
<1>6. calls \in 0..MaxCalls
  BY ConnAssumptions
<1> QED BY <1>1, <1>2, <1>3, <1>4, <1>5, <1>6 DEF ConnTypeOK

\* A call keeps its type when it goes on,
LEMMA GoToType ==
    ASSUME call \in [Callers -> Calls], NEW r \in Callers,
           NEW w \in {"idle", "watch", "read", "exec", "done", "again",
                      "refused", "get", "set"},
           GoTo(r, w)
    PROVE  call' \in [Callers -> Calls]
BY DEF GoTo, Calls

\* when it ends,
LEMMA EndCallType ==
    ASSUME ConnTypeOK, NEW r \in Callers, EndCall(r)
    PROVE  call' \in [Callers -> Calls] /\ seen' \in [Callers -> Sights]
BY NoCallType, SawNothingType DEF EndCall, ConnTypeOK

\* and when it tries again.
LEMMA RetryType ==
    ASSUME ConnTypeOK, NEW r \in Callers, Retry(r)
    PROVE  call' \in [Callers -> Calls] /\ seen' \in [Callers -> Sights]
<1>1. CASE call[r].tries + 1 < MaxAttempts
  <2>1. call[r] \in Calls /\ call[r].tries \in 0..MaxAttempts
    BY DEF ConnTypeOK, Calls
  <2>2. Again(call[r]) \in Calls
    BY <1>1, <2>1, ConnAssumptions DEF Calls, Again
  <2> QED BY <1>1, <2>2 DEF Retry, ConnTypeOK
<1>2. CASE ~(call[r].tries + 1 < MaxAttempts)
  BY <1>2, EndCallType DEF Retry
<1> QED BY <1>1, <1>2

\* What a call has seen of the list of bans is something to have seen.
LEMMA SawListType ==
    ASSUME NEW l \in SUBSET Entries, NEW n \in SUBSET Entries
    PROVE  SawList(l, n) \in Sights
BY SawNothingType DEF SawList, SawNothing, Sights

\* Every step keeps the types.
LEMMA TypeStep == ConnTypeOK /\ ShapeInv /\ [ConnNext]_connVars => ConnTypeOK'
<1> SUFFICES ASSUME ConnTypeOK, ShapeInv, [ConnNext]_connVars PROVE ConnTypeOK'
  OBVIOUS
<1>0. CASE UNCHANGED connVars
  BY <1>0 DEF connVars, ConnTypeOK
<1>1. ASSUME NEW r \in Callers, CallStep(r) PROVE ConnTypeOK'
  <2>1. CASE BeginCall(r)
    <3>1. ASSUME NEW k \in {"ban", "unban", "economy", "cancel", "view"},
                 NEW at \in {"watch", "get"},
                 NEW u \in Users \cup {"none"}, NEW g \in Games \cup {"none"},
                 NEW p \in Patches, Start(r, k, at, u, g, p)
          PROVE ConnTypeOK'
      <4>1. [kind |-> k, at |-> at, user |-> u, game |-> g, patch |-> p,
             tries |-> 0] \in Calls
        BY ConnAssumptions DEF Calls
      <4>2. calls' \in 0..MaxCalls
        BY <3>1, ConnAssumptions DEF Start, ConnTypeOK
      <4> QED BY <3>1, <4>1, <4>2 DEF Start, ConnTypeOK, docs
    <3>2. NoCall.patch \in Patches
      BY NoCallType DEF Calls
    <3> QED BY <2>1, <3>1, <3>2 DEF BeginCall
  <2>2. CASE Watch(r)
    <3>1. KeyOf(call[r].kind) \in Keys
      BY DEF KeyOf, Keys
    <3> QED BY <2>2, <3>1, GoToType DEF Watch, ConnTypeOK, docs
  <2>3. CASE ReadBans(r)
    <3>1. PICK t \in BOOLEAN :
             LET u == call[r].user
                 others == Others(Active(chatBans), u)
             IN seen' = [seen EXCEPT ![r] = SawList(chatBans,
                   IF call[r].kind = "ban"
                   THEN others \cup {[user |-> u, temporary |-> t]}
                   ELSE others)]
      BY <2>3 DEF ReadBans
    <3>2. call[r].user \in Users
      BY <2>3 DEF ReadBans, ShapeInv, Shape
    <3> DEFINE others == Others(Active(chatBans), call[r].user)
               next == IF call[r].kind = "ban"
                       THEN others \cup {[user |-> call[r].user, temporary |-> t]}
                       ELSE others
    <3>3. next \in SUBSET Entries
      BY <3>2 DEF ConnTypeOK, Others, Active, Entries
    <3>4. seen' \in [Callers -> Sights]
      <4> HIDE DEF next
      <4>1. SawList(chatBans, next) \in Sights
        BY <3>3, SawListType DEF ConnTypeOK
      <4>2. seen' = [seen EXCEPT ![r] = SawList(chatBans, next)]
        BY <3>1 DEF next
      <4> QED BY <4>1, <4>2 DEF ConnTypeOK
    <3>5. call' \in [Callers -> Calls]
      BY <2>3, GoToType DEF ReadBans, ConnTypeOK
    <3> QED BY <2>3, <3>4, <3>5 DEF ReadBans, ConnTypeOK, docs
  <2>4. CASE ReadEconomy(r)
    <3>1. seen' \in [Callers -> Sights]
      BY <2>4 DEF ReadEconomy, ConnTypeOK, Sights
    <3>2. call' \in [Callers -> Calls]
      BY <2>4, GoToType DEF ReadEconomy, ConnTypeOK
    <3> QED BY <2>4, <3>1, <3>2 DEF ReadEconomy, ConnTypeOK, docs
  <2>5. CASE ReadGame(r)
    <3>1. seen' \in [Callers -> Sights]
      <4>1. call[r].game \in Games
        BY <2>5 DEF ReadGame, ShapeInv, Shape
      <4> QED BY <2>5, <4>1 DEF ReadGame, ConnTypeOK, Sights
    <3>2. call' \in [Callers -> Calls]
      BY <2>5, GoToType DEF ReadGame, ConnTypeOK
    <3> QED BY <2>5, <3>1, <3>2 DEF ReadGame, ConnTypeOK, docs
  <2>6. CASE ExecDone(r)
    <3>1. call' \in [Callers -> Calls] /\ seen' \in [Callers -> Sights]
      BY <2>6, GoToType, EndCallType DEF ExecDone, ConnTypeOK
    <3>2. /\ chatBans' \in SUBSET Entries /\ economy' \in Economies
          /\ lobby' \in [Games -> Statuses] /\ refunds' \in [Games -> Nat]
          /\ joined' \in SUBSET Games
      <4>1. CASE WriteBans(r)
        BY <4>1 DEF WriteBans, ConnTypeOK, Sights
      <4>2. CASE WriteEconomy(r)
        <5>1. seen[r].economy \in Economies /\ call[r].patch \in Patches
          BY DEF ConnTypeOK, Sights, Calls
        <5>2. Merge(seen[r].economy, call[r].patch) \in Economies
          BY <5>1, MergeType
        <5> QED BY <4>2, <5>2 DEF WriteEconomy, ConnTypeOK
      <4>3. CASE WriteCancel(r)
        <5>1. call[r].game \in Games
          BY <4>3 DEF WriteCancel, ShapeInv, Shape
        <5>2. refunds' \in [Games -> Nat]
          BY <4>3, <5>1 DEF WriteCancel, ConnTypeOK
        <5>3. lobby' \in [Games -> Statuses]
          BY <4>3, <5>1 DEF WriteCancel, ConnTypeOK, Statuses
        <5> QED BY <4>3, <5>2, <5>3 DEF WriteCancel, ConnTypeOK
      <4> QED BY <2>6, <4>1, <4>2, <4>3 DEF ExecDone
    <3>3. watched' \in SUBSET Keys /\ touched' \in BOOLEAN
      BY <2>6 DEF ExecDone
    <3> QED BY <2>6, <3>1, <3>2, <3>3 DEF ExecDone, ConnTypeOK
  <2>7. CASE ExecRefused(r)
    <3>1. call' \in [Callers -> Calls] /\ seen' \in [Callers -> Sights]
      BY <2>7, GoToType, RetryType DEF ExecRefused, ConnTypeOK
    <3> QED BY <2>7, <3>1 DEF ExecRefused, ConnTypeOK, docs
  <2>8. CASE Unwatch(r)
    <3>1. call' \in [Callers -> Calls] /\ seen' \in [Callers -> Sights]
      BY <2>8, GoToType, RetryType, EndCallType DEF Unwatch, AfterUnwatch, ConnTypeOK
    <3> QED BY <2>8, <3>1 DEF Unwatch, ConnTypeOK, docs
  <2>9. CASE GetBans(r)
    <3>1. CASE Active(chatBans) = chatBans
      <4>1. EndCall(r)
        BY <2>9, <3>1 DEF GetBans
      <4> QED BY <2>9, <4>1, EndCallType DEF GetBans, ConnTypeOK, docs
    <3>2. CASE Active(chatBans) # chatBans
      <4>1. SawList(chatBans, Active(chatBans)) \in Sights
        BY SawListType, ActiveType DEF ConnTypeOK
      <4>2. seen' \in [Callers -> Sights]
        BY <2>9, <3>2, <4>1 DEF GetBans, ConnTypeOK
      <4>3. call' \in [Callers -> Calls]
        BY <2>9, <3>2, GoToType DEF GetBans, ConnTypeOK
      <4> QED BY <2>9, <4>2, <4>3 DEF GetBans, ConnTypeOK, docs
    <3> QED BY <3>1, <3>2
  <2>10. CASE SetBans(r)
    <3>1. call' \in [Callers -> Calls] /\ seen' \in [Callers -> Sights]
      BY <2>10, EndCallType DEF SetBans
    <3>2. chatBans' \in SUBSET Entries
      BY <2>10 DEF SetBans, ConnTypeOK, Sights
    <3> QED BY <2>10, <3>1, <3>2 DEF SetBans, Touch, ConnTypeOK
  <2> QED BY <1>1, <2>1, <2>2, <2>3, <2>4, <2>5, <2>6, <2>7, <2>8, <2>9, <2>10 DEF CallStep
<1>2. ASSUME NEW g \in Games, Join(g) \/ PlayOut(g) \/ Withdraw(g) PROVE ConnTypeOK'
  <2>1. lobby' \in [Games -> Statuses] /\ refunds' \in [Games -> Nat]
        /\ joined' \in SUBSET Games
    BY <1>2 DEF Join, PlayOut, Withdraw, MoveGame, ConnTypeOK, Statuses
  <2>2. watched' \in SUBSET Keys /\ touched' \in BOOLEAN
    BY <1>2 DEF Join, PlayOut, Withdraw, MoveGame, Touch, ConnTypeOK
  <2> QED BY <1>2, <2>1, <2>2 DEF Join, PlayOut, Withdraw, ConnTypeOK
<1>3. CASE BansExpire
  BY <1>3 DEF BansExpire, ConnTypeOK, docs
<1> QED BY <1>0, <1>1, <1>2, <1>3 DEF ConnNext

TypeInv == ConnTypeOK /\ ShapeInv

(***************************************************************************)
(* Every state of the connection, the documents and the requests is of its *)
(* type, also where requests overlap.                                      *)
(***************************************************************************)
THEOREM ConnTypeCorrect == ConnSpec => []TypeInv
<1>1. ConnInit => TypeInv
  BY TypeInit, NoCallShape DEF ConnInit, TypeInv, ShapeInv
<1>2. TypeInv /\ [ConnNext]_connVars => TypeInv'
  BY TypeStep, ShapeStep DEF TypeInv, ConnTypeOK
<1> QED BY <1>1, <1>2, PTL DEF ConnSpec

-----------------------------------------------------------------------------
(* The economy, also where requests overlap *)

EconomyChecked(r) ==
    At(r, "exec") /\ call[r].kind = "economy" =>
        Valid(Merge(seen[r].economy, call[r].patch))
EconomyInv == EconomyValid /\ \A r \in Callers : EconomyChecked(r)

\* A call that ends, or goes elsewhere than to its EXEC, has nothing to check.
LEMMA NotAtExec ==
    ASSUME TypeInv, EconomyInv, EconomyValid', NEW r \in Callers,
           \A s \in Callers \ {r} : call'[s] = call[s] /\ seen'[s] = seen[s],
           call'[r].at # "exec"
    PROVE  EconomyInv'
BY DEF EconomyInv, EconomyChecked, At

\* A call that goes on changes its place only, and no other call;
LEMMA GoToOthers ==
    ASSUME TypeInv, NEW r \in Callers, NEW w, GoTo(r, w)
    PROVE  /\ \A s \in Callers \ {r} : call'[s] = call[s]
           /\ call'[r] = [call[r] EXCEPT !.at = w]
           /\ call'[r].at = w
           /\ call'[r].kind = call[r].kind /\ call'[r].user = call[r].user
           /\ call'[r].game = call[r].game /\ call'[r].patch = call[r].patch
<1>1. call[r] \in Calls /\ call \in [Callers -> Calls]
  BY DEF TypeInv, ConnTypeOK
<1>2. call' = [call EXCEPT ![r].at = w]
  BY DEF GoTo
<1>3. call'[r] = [call[r] EXCEPT !.at = w]
  BY <1>1, <1>2
<1> QED BY <1>1, <1>2, <1>3 DEF Calls

\* one that ends leaves the others alone,
LEMMA EndOthers ==
    ASSUME TypeInv, NEW r \in Callers, EndCall(r)
    PROVE  /\ \A s \in Callers \ {r} : call'[s] = call[s] /\ seen'[s] = seen[s]
           /\ call'[r] = NoCall /\ call'[r].at = "idle"
BY DEF EndCall, TypeInv, ConnTypeOK, NoCall

\* and so does one that tries again.
LEMMA RetryOthers ==
    ASSUME TypeInv, NEW r \in Callers, Retry(r)
    PROVE  /\ \A s \in Callers \ {r} : call'[s] = call[s] /\ seen'[s] = seen[s]
           /\ call'[r].at \in {"watch", "idle"}
<1>1. CASE call[r].tries + 1 < MaxAttempts
  BY <1>1 DEF Retry, Again, TypeInv, ConnTypeOK
<1> QED BY <1>1, EndOthers DEF Retry

\* Where a step of r leaves r, and that it leaves the other calls alone.
LEMMA StepOthers ==
    ASSUME TypeInv, NEW r \in Callers, CallStep(r)
    PROVE  /\ \A s \in Callers \ {r} : call'[s] = call[s] /\ seen'[s] = seen[s]
           /\ call'[r].at = "exec" => ReadBans(r) \/ ReadEconomy(r) \/ ReadGame(r)
           /\ call'[r].at = "read" => Watch(r)
           /\ call'[r].at = "set" => GetBans(r)
<1>0. call \in [Callers -> Calls] /\ seen \in [Callers -> Sights]
  BY DEF TypeInv, ConnTypeOK
<1>1. CASE BeginCall(r)
  <2>1. ASSUME NEW k, NEW at \in {"watch", "get"}, NEW u, NEW g, NEW p,
               Start(r, k, at, u, g, p)
        PROVE  /\ \A s \in Callers \ {r} : call'[s] = call[s] /\ seen'[s] = seen[s]
               /\ call'[r].at \notin {"exec", "read", "set"}
    BY <1>0, <2>1 DEF Start
  <2> QED BY <1>1, <2>1 DEF BeginCall
<1>2. CASE Watch(r)
  <2>1. GoTo(r, "read") /\ seen' = seen
    BY <1>2 DEF Watch
  <2>2. call'[r].at = "read" /\ \A s \in Callers \ {r} : call'[s] = call[s]
    BY <2>1, GoToOthers
  <2>3. call'[r].at \notin {"exec", "set"}
    BY <2>2
  <2> QED BY <1>2, <2>1, <2>2, <2>3
<1>3. CASE ReadBans(r)
  <2>1. \A s \in Callers \ {r} : call'[s] = call[s]
    BY <1>3, GoToOthers DEF ReadBans
  <2>2. \A s \in Callers \ {r} : seen'[s] = seen[s]
    BY <1>0, <1>3 DEF ReadBans
  <2>3. CASE GoTo(r, "exec")
    <3>1. call'[r].at = "exec"
      BY <2>3, GoToOthers
    <3> QED BY <1>3, <2>1, <2>2, <3>1
  <2>4. CASE GoTo(r, "refused")
    <3>1. call'[r].at = "refused"
      BY <2>4, GoToOthers
    <3> QED BY <2>1, <2>2, <3>1
  <2> QED BY <1>3, <2>3, <2>4 DEF ReadBans
<1>4. CASE ReadEconomy(r)
  <2>1. \A s \in Callers \ {r} : call'[s] = call[s]
    BY <1>4, GoToOthers DEF ReadEconomy
  <2>2. \A s \in Callers \ {r} : seen'[s] = seen[s]
    BY <1>0, <1>4 DEF ReadEconomy
  <2>3. CASE GoTo(r, "exec")
    <3>1. call'[r].at = "exec"
      BY <2>3, GoToOthers
    <3> QED BY <1>4, <2>1, <2>2, <3>1
  <2>4. CASE GoTo(r, "refused")
    <3>1. call'[r].at = "refused"
      BY <2>4, GoToOthers
    <3> QED BY <2>1, <2>2, <3>1
  <2> QED BY <1>4, <2>3, <2>4 DEF ReadEconomy
<1>5. CASE ReadGame(r)
  <2>1. \A s \in Callers \ {r} : call'[s] = call[s]
    BY <1>5, GoToOthers DEF ReadGame
  <2>2. \A s \in Callers \ {r} : seen'[s] = seen[s]
    BY <1>0, <1>5 DEF ReadGame
  <2>3. CASE GoTo(r, "exec")
    <3>1. call'[r].at = "exec"
      BY <2>3, GoToOthers
    <3> QED BY <1>5, <2>1, <2>2, <3>1
  <2>4. CASE GoTo(r, "refused")
    <3>1. call'[r].at = "refused"
      BY <2>4, GoToOthers
    <3> QED BY <2>1, <2>2, <3>1
  <2> QED BY <1>5, <2>3, <2>4 DEF ReadGame
<1>6. CASE ExecDone(r)
  <2>1. CASE GoTo(r, "done") /\ seen' = seen
    <3>1. call'[r].at = "done" /\ \A s \in Callers \ {r} : call'[s] = call[s]
      BY <2>1, GoToOthers
    <3> QED BY <2>1, <3>1
  <2>2. CASE EndCall(r)
    BY <2>2, EndOthers
  <2> QED BY <1>6, <2>1, <2>2 DEF ExecDone
<1>7. CASE ExecRefused(r)
  <2>1. CASE GoTo(r, "again") /\ seen' = seen
    <3>1. call'[r].at = "again" /\ \A s \in Callers \ {r} : call'[s] = call[s]
      BY <2>1, GoToOthers
    <3> QED BY <2>1, <3>1
  <2>2. CASE Retry(r)
    BY <2>2, RetryOthers
  <2> QED BY <1>7, <2>1, <2>2 DEF ExecRefused
<1>8. CASE Unwatch(r)
  <2>1. CASE GoTo(r, "get") /\ seen' = seen
    <3>1. call'[r].at = "get" /\ \A s \in Callers \ {r} : call'[s] = call[s]
      BY <2>1, GoToOthers
    <3> QED BY <2>1, <3>1
  <2>2. CASE Retry(r)
    BY <2>2, RetryOthers
  <2>3. CASE EndCall(r)
    BY <2>3, EndOthers
  <2> QED BY <1>8, <2>1, <2>2, <2>3 DEF Unwatch, AfterUnwatch
<1>9. CASE GetBans(r)
  <2>1. CASE Active(chatBans) = chatBans
    BY <1>9, <2>1, EndOthers DEF GetBans
  <2>2. CASE Active(chatBans) # chatBans
    <3>1. GoTo(r, "set")
      BY <1>9, <2>2 DEF GetBans
    <3>2. call'[r].at = "set" /\ \A s \in Callers \ {r} : call'[s] = call[s]
      BY <3>1, GoToOthers
    <3>3. \A s \in Callers \ {r} : seen'[s] = seen[s]
      BY <1>0, <1>9, <2>2 DEF GetBans
    <3> QED BY <1>9, <3>2, <3>3
  <2> QED BY <2>1, <2>2
<1>10. CASE SetBans(r)
  BY <1>10, EndOthers DEF SetBans
<1> QED BY <1>1, <1>2, <1>3, <1>4, <1>5, <1>6, <1>7, <1>8, <1>9, <1>10 DEF CallStep

\* Every step keeps the economy valid, and what is about to be written to it.
LEMMA EconomyStep == TypeInv /\ EconomyInv /\ [ConnNext]_connVars => EconomyInv'
<1> SUFFICES ASSUME TypeInv, EconomyInv, [ConnNext]_connVars PROVE EconomyInv'
  OBVIOUS
<1>0. CASE UNCHANGED <<economy, call, seen>>
  BY <1>0 DEF EconomyInv, EconomyValid, EconomyChecked, At
<1>1. ASSUME NEW r \in Callers, CallStep(r) PROVE EconomyInv'
  <2>1. CASE ReadEconomy(r)
    <3>1. EconomyValid'
      BY <2>1 DEF ReadEconomy, docs, EconomyInv, EconomyValid
    <3>2. CASE call'[r].at # "exec"
      BY <1>1, <3>1, <3>2, StepOthers, NotAtExec
    <3>3. CASE call'[r].at = "exec"
      <4>1. Valid(Merge(economy, call[r].patch))
        <5>1. CASE GoTo(r, "refused")
          <6>1. call'[r].at = "refused"
            BY <5>1, GoToOthers
          <6> QED BY <3>3, <6>1
        <5> QED BY <2>1, <5>1 DEF ReadEconomy
      <4>2. seen'[r].economy = economy
        BY <2>1 DEF ReadEconomy, TypeInv, ConnTypeOK, Sights
      <4>3. call'[r].patch = call[r].patch
        BY <2>1, GoToOthers DEF ReadEconomy
      <4>4. EconomyChecked(r)'
        BY <4>1, <4>2, <4>3 DEF EconomyChecked
      <4> QED BY <1>1, <3>1, <4>4, StepOthers DEF EconomyInv, EconomyChecked, At
    <3> QED BY <3>2, <3>3
  <2>2. CASE ExecDone(r)
    <3>1. EconomyValid'
      <4>1. CASE WriteEconomy(r)
        BY <2>2, <4>1 DEF ExecDone, WriteEconomy, EconomyInv, EconomyChecked, EconomyValid
      <4>2. CASE WriteBans(r) \/ WriteCancel(r)
        BY <4>2 DEF WriteBans, WriteCancel, EconomyInv, EconomyValid
      <4> QED BY <2>2, <4>1, <4>2 DEF ExecDone
    <3>2. call'[r].at # "exec"
      BY <1>1, <2>2, StepOthers DEF ExecDone, ReadBans, ReadEconomy, ReadGame, At
    <3> QED BY <1>1, <3>1, <3>2, StepOthers, NotAtExec
  <2>3. CASE ReadBans(r) \/ ReadGame(r)
    <3>1. EconomyValid'
      BY <2>3 DEF ReadBans, ReadGame, docs, EconomyInv, EconomyValid
    <3>2. call'[r].kind # "economy"
      BY <2>3, GoToOthers DEF ReadBans, ReadGame
    <3> QED BY <1>1, <3>1, <3>2, StepOthers DEF EconomyInv, EconomyChecked, At
  <2>4. CASE \/ BeginCall(r) \/ Watch(r) \/ ExecRefused(r) \/ Unwatch(r)
             \/ GetBans(r) \/ SetBans(r)
    <3>1. EconomyValid'
      BY <2>4 DEF BeginCall, Start, Watch, ExecRefused, Unwatch, GetBans, SetBans, docs,
                  EconomyInv, EconomyValid
    <3>2. CASE ReadBans(r) \/ ReadEconomy(r) \/ ReadGame(r)
      BY <2>1, <2>3, <3>2
    <3>3. CASE call'[r].at # "exec"
      BY <1>1, <3>1, <3>3, StepOthers, NotAtExec
    <3> QED BY <1>1, <3>2, <3>3, StepOthers
  <2> QED BY <1>1, <2>1, <2>2, <2>3, <2>4 DEF CallStep
<1>2. ASSUME NEW g \in Games, Join(g) \/ PlayOut(g) \/ Withdraw(g)
      PROVE UNCHANGED <<economy, call, seen>>
  BY <1>2 DEF Join, PlayOut, Withdraw
<1>3. BansExpire => UNCHANGED <<economy, call, seen>>
  BY DEF BansExpire, docs
<1> QED BY <1>0, <1>1, <1>2, <1>3 DEF ConnNext, connVars

(***************************************************************************)
(* The smallest bet never exceeds the largest, however the requests that   *)
(* change them overlap.                                                    *)
(***************************************************************************)
THEOREM EconomyStaysValid == ConnSpec => []EconomyValid
<1>1. ConnInit => EconomyInv
  BY DEF ConnInit, EconomyInv, EconomyValid, EconomyChecked, At, NoCall
<1>2. TypeInv /\ EconomyInv /\ [ConnNext]_connVars => EconomyInv'
  BY EconomyStep
<1>3. EconomyInv => EconomyValid
  BY DEF EconomyInv
<1> QED BY <1>1, <1>2, <1>3, ConnTypeCorrect, PTL DEF ConnSpec

-----------------------------------------------------------------------------
(* Requests one at a time *)

\* At most one request is under way.
OneCall == \A r, s \in Callers : r # s => At(r, "idle") \/ At(s, "idle")

\* The key is watched before it is read, and until EXEC.
Guarded(r) == call[r].at \in {"read", "exec"} => KeyOf(call[r].kind) \in watched

\* The lock: what was read still stands, or EXEC will answer null.
Fresh(r) == At(r, "exec") /\ ~touched => Unchanged(r)

\* A cancellation gets to its EXEC for a game that was waiting when read.
Waiting(r) ==
    At(r, "exec") /\ call[r].kind = "cancel" => seen[r].status = "waiting"

\* A list to be written keeps the running bans of the list that was read, but
\* for the user of the request, whom a ban leaves with an entry.
Keeps(r) ==
    At(r, "exec") /\ call[r].kind \in {"ban", "unban"} =>
        /\ Others(Active(seen[r].list), call[r].user) \subseteq seen[r].next
        /\ call[r].kind = "ban" => HasEntry(seen[r].next, call[r].user)

\* The list that the users page prunes has not changed since it was read.
Prunes(r) ==
    At(r, "set") => seen[r].list = chatBans /\ Active(chatBans) \subseteq seen[r].next

Serial(r) == Guarded(r) /\ Fresh(r) /\ Waiting(r) /\ Keeps(r) /\ Prunes(r)

\* The state of a game says whether its creator has the stake back.
LobbyInv(g) ==
    /\ lobby[g] = "waiting" => refunds[g] = 0 /\ g \notin joined
    /\ lobby[g] \in {"started", "over"} => refunds[g] = 0
    /\ lobby[g] = "cancelled" => refunds[g] = 1 /\ g \notin joined

SerialInv ==
    ~overlap =>
        /\ OneCall
        /\ \A r \in Callers : Serial(r)
        /\ \A g \in Games : LobbyInv(g)

\* Whether requests overlap is fixed at the start.
LEMMA OverlapKept == [ConnNext]_connVars => overlap' = overlap
BY DEF ConnNext, connVars, CallStep, BeginCall, Start, Watch, ReadBans, ReadEconomy,
       ReadGame, ExecDone, ExecRefused, Unwatch, GetBans, SetBans, Join, PlayOut,
       Withdraw, BansExpire

\* When r takes a step, the others are idle and stay so.
LEMMA OthersIdle ==
    ASSUME TypeInv, ~overlap, OneCall, NEW r \in Callers, CallStep(r)
    PROVE  \A s \in Callers \ {r} : At(s, "idle") /\ call'[s].at = "idle"
<1>1. \A s \in Callers \ {r} : At(s, "idle")
  <2>1. CASE At(r, "idle")
    <3>1. BeginCall(r)
      BY <2>1 DEF CallStep, At, Watch, ReadBans, ReadEconomy, ReadGame, ExecDone,
                  ExecRefused, Unwatch, AfterUnwatch, GetBans, SetBans
    <3> QED BY <3>1 DEF BeginCall, Start
  <2> QED BY <2>1 DEF OneCall
<1> QED BY <1>1, StepOthers DEF At

\* So a step of r keeps what is said of the requests if it keeps what is said of r.
LEMMA SerialOfOne ==
    ASSUME TypeInv, ~overlap, OneCall, NEW r \in Callers, CallStep(r), Serial(r)'
    PROVE  OneCall' /\ \A s \in Callers : Serial(s)'
<1>1. OneCall'
  BY OthersIdle DEF OneCall, At
<1>2. ASSUME NEW s \in Callers, s # r PROVE Serial(s)'
  <2>1. call'[s].at = "idle"
    BY <1>2, OthersIdle
  <2> QED BY <2>1 DEF Serial, Guarded, Fresh, Waiting, Keeps, Prunes, At
<1> QED BY <1>1, <1>2

\* A step of the only request keeps what is said of it.
LEMMA SerialCall ==
    ASSUME TypeInv, ~overlap, OneCall, NEW r \in Callers, CallStep(r), Serial(r)
    PROVE  Serial(r)'
<1>0. call \in [Callers -> Calls] /\ seen \in [Callers -> Sights]
  BY DEF TypeInv, ConnTypeOK
<1>1. CASE call'[r].at \notin {"read", "exec", "set"}
  BY <1>1 DEF Serial, Guarded, Fresh, Waiting, Keeps, Prunes, At
<1>2. CASE call'[r].at = "read"
  <2>1. Watch(r)
    BY <1>2, StepOthers
  <2>2. GoTo(r, "read")
    BY <2>1 DEF Watch
  <2>3. call'[r].kind = call[r].kind
    BY <2>2, GoToOthers
  <2>4. KeyOf(call'[r].kind) \in watched'
    BY <2>1, <2>3 DEF Watch
  <2> QED BY <1>2, <2>4 DEF Serial, Guarded, Fresh, Waiting, Keeps, Prunes, At
<1>3. CASE call'[r].at = "exec"
  <2>0. ReadBans(r) \/ ReadEconomy(r) \/ ReadGame(r)
    BY <1>3, StepOthers
  <2>1. \E w : GoTo(r, w)
    BY <2>0 DEF ReadBans, ReadEconomy, ReadGame
  <2>2. call'[r].kind = call[r].kind /\ call'[r].user = call[r].user
        /\ call'[r].game = call[r].game
    BY <2>1, GoToOthers
  <2>3. Guarded(r)'
    BY <2>0, <2>2 DEF ReadBans, ReadEconomy, ReadGame, At, Serial, Guarded
  <2>4. Prunes(r)'
    BY <1>3 DEF Prunes, At
  <2>5. CASE ReadBans(r)
    <3>1. PICK t \in BOOLEAN :
             seen' = [seen EXCEPT ![r] = SawList(chatBans,
                   IF call[r].kind = "ban"
                   THEN Others(Active(chatBans), call[r].user)
                        \cup {[user |-> call[r].user, temporary |-> t]}
                   ELSE Others(Active(chatBans), call[r].user))]
      BY <2>5 DEF ReadBans
    <3>2. seen'[r].list = chatBans
      BY <1>0, <3>1 DEF SawList
    <3>3. seen'[r].next = IF call[r].kind = "ban"
                          THEN Others(Active(chatBans), call[r].user)
                               \cup {[user |-> call[r].user, temporary |-> t]}
                          ELSE Others(Active(chatBans), call[r].user)
      BY <1>0, <3>1 DEF SawList
    <3>4. chatBans' = chatBans /\ late' = late
      BY <2>5 DEF ReadBans, docs
    <3>5. Fresh(r)'
      BY <2>2, <2>5, <3>2, <3>4 DEF Fresh, Unchanged, ReadBans
    <3>6. Keeps(r)'
      <4>1. call[r].kind = "ban" => HasEntry(seen'[r].next, call[r].user)
        <5>1. SUFFICES ASSUME call[r].kind = "ban"
                       PROVE  HasEntry(seen'[r].next, call[r].user)
          OBVIOUS
        <5> DEFINE entry == [user |-> call[r].user, temporary |-> t]
        <5>2. entry \in seen'[r].next
          BY <3>3, <5>1
        <5>3. entry.user = call[r].user
          OBVIOUS
        <5> QED BY <5>2, <5>3 DEF HasEntry
      <4>2. Others(Active(chatBans), call[r].user) \subseteq seen'[r].next
        BY <3>3
      <4> QED BY <2>2, <3>2, <3>4, <4>1, <4>2 DEF Keeps, Active, HasEntry, Others
    <3>7. Waiting(r)'
      BY <2>2, <2>5 DEF Waiting, ReadBans
    <3> QED BY <2>3, <2>4, <3>5, <3>6, <3>7 DEF Serial
  <2>6. CASE ReadEconomy(r)
    <3>1. seen'[r].economy = economy /\ economy' = economy
      BY <1>0, <2>6 DEF ReadEconomy, docs, Sights
    <3>2. Fresh(r)'
      BY <2>2, <2>6, <3>1 DEF Fresh, Unchanged, ReadEconomy
    <3>3. Keeps(r)' /\ Waiting(r)'
      BY <2>2, <2>6 DEF Keeps, Waiting, ReadEconomy
    <3> QED BY <2>3, <2>4, <3>2, <3>3 DEF Serial
  <2>7. CASE ReadGame(r)
    <3>1. seen'[r].status = lobby[call[r].game] /\ lobby' = lobby
      BY <1>0, <2>7 DEF ReadGame, docs, Sights
    <3>2. Fresh(r)'
      BY <2>2, <2>7, <3>1 DEF Fresh, Unchanged, ReadGame
    <3>3. seen'[r].status = "waiting"
      <4>1. CASE GoTo(r, "refused")
        <5>1. call'[r].at = "refused"
          BY <4>1, GoToOthers
        <5> QED BY <1>3, <5>1
      <4> QED BY <2>7, <3>1, <4>1 DEF ReadGame, MayCancel
    <3>4. Keeps(r)' /\ Waiting(r)'
      BY <2>2, <2>7, <3>3 DEF Keeps, Waiting, ReadGame
    <3> QED BY <2>3, <2>4, <3>2, <3>4 DEF Serial
  <2> QED BY <2>0, <2>5, <2>6, <2>7
<1>4. CASE call'[r].at = "set"
  <2>1. GetBans(r)
    BY <1>4, StepOthers
  <2>2. CASE EndCall(r)
    <3>1. call'[r].at = "idle"
      BY <2>2, EndOthers
    <3> QED BY <1>4, <3>1
  <2>3. CASE seen' = [seen EXCEPT ![r] = SawList(chatBans, Active(chatBans))]
    <3>1. seen'[r].list = chatBans /\ seen'[r].next = Active(chatBans)
      BY <1>0, <2>3 DEF SawList
    <3>2. chatBans' = chatBans /\ late' = late
      BY <2>1 DEF GetBans, docs
    <3>3. Prunes(r)'
      BY <3>1, <3>2 DEF Prunes, Active
    <3> QED BY <1>4, <3>3 DEF Serial, Guarded, Fresh, Waiting, Keeps, At
  <2> QED BY <2>1, <2>2, <2>3 DEF GetBans
<1> QED BY <1>1, <1>2, <1>3, <1>4

\* It keeps what is said of the games: a refund is of a game in the lobby.
LEMMA LobbyCall ==
    ASSUME TypeInv, NEW r \in Callers, CallStep(r), Serial(r),
           \A g \in Games : LobbyInv(g)
    PROVE  \A g \in Games : LobbyInv(g)'
<1>1. CASE UNCHANGED <<lobby, joined, refunds>>
  BY <1>1 DEF LobbyInv
<1>2. CASE ExecDone(r) /\ WriteCancel(r)
  <2>0. PICK c \in Games : c = call[r].game
    BY <1>2 DEF WriteCancel, TypeInv, ShapeInv, Shape
  <2>1. lobby[c] = "waiting"
    <3>1. call[r].kind = "cancel" /\ At(r, "exec") /\ ~touched
      BY <1>2 DEF ExecDone, WriteCancel, ExecNull
    <3>2. seen[r].status = "waiting" /\ Unchanged(r)
      BY <3>1 DEF Serial, Waiting, Fresh
    <3>3. seen[r].status = lobby[c]
      BY <2>0, <3>1, <3>2 DEF Unchanged
    <3> QED BY <3>2, <3>3
  <2>2. lobby' = [lobby EXCEPT ![c] = "cancelled"]
        /\ refunds' = [refunds EXCEPT ![c] = @ + 1] /\ joined' = joined
    BY <1>2, <2>0 DEF WriteCancel
  <2>3. lobby \in [Games -> Statuses] /\ refunds \in [Games -> Nat]
    BY DEF TypeInv, ConnTypeOK
  <2>4. LobbyInv(c)'
    <3>1. refunds[c] = 0 /\ c \notin joined
      BY <2>1 DEF LobbyInv
    <3>2. lobby'[c] = "cancelled" /\ refunds'[c] = 0 + 1
      BY <2>1, <2>2, <2>3, <3>1
    <3>3. refunds'[c] = 1 /\ c \notin joined'
      BY <2>2, <3>1, <3>2
    <3> QED BY <3>2, <3>3 DEF LobbyInv
  <2>5. ASSUME NEW g \in Games, g # c PROVE LobbyInv(g)'
    <3>1. lobby'[g] = lobby[g] /\ refunds'[g] = refunds[g]
      BY <2>2, <2>3, <2>5
    <3> QED BY <2>2, <3>1 DEF LobbyInv
  <2> QED BY <2>4, <2>5
<1> QED BY <1>1, <1>2 DEF CallStep, BeginCall, Start, Watch, ReadBans, ReadEconomy,
        ReadGame, ExecDone, WriteBans, WriteEconomy, ExecRefused, Unwatch, GetBans,
        SetBans, docs

\* What is said of a request outlives the steps of others: a game that changes
\* touches the watch on the games.
LEMMA SerialEnvironment ==
    ASSUME TypeInv, \A r \in Callers : Serial(r), NEW r \in Callers,
           UNCHANGED <<chatBans, economy, call, seen, watched>>, late => late',
           \/ UNCHANGED <<touched, lobby>>
           \/ touched' = (touched \/ "active_games" \in watched)
    PROVE  Serial(r)'
<1>0. Serial(r)
  OBVIOUS
<1>1. Guarded(r)'
  BY <1>0 DEF Serial, Guarded
<1>2. Waiting(r)'
  BY <1>0 DEF Serial, Waiting, At
<1>3. Keeps(r)'
  BY <1>0 DEF Serial, Keeps, At, Others, Active, HasEntry
<1>4. Prunes(r)'
  BY <1>0 DEF Serial, Prunes, At, Active
<1>5. Fresh(r)'
  <2>1. SUFFICES ASSUME At(r, "exec"), ~touched' PROVE Unchanged(r)'
    BY DEF Fresh, At
  <2>2. ~touched
    BY <2>1
  <2>3. Unchanged(r)
    BY <1>0, <2>1, <2>2 DEF Serial, Fresh
  <2>4. CASE call[r].kind = "cancel"
    <3>1. "active_games" \in watched
      BY <1>0, <2>1, <2>4 DEF Serial, Guarded, At, KeyOf
    <3>2. lobby' = lobby
      BY <2>1, <3>1
    <3> QED BY <2>3, <3>2 DEF Unchanged
  <2>5. CASE call[r].kind # "cancel"
    BY <2>3, <2>5 DEF Unchanged
  <2> QED BY <2>4, <2>5
<1> QED BY <1>1, <1>2, <1>3, <1>4, <1>5 DEF Serial

\* The game API keeps what is said of the games.
LEMMA LobbyMoves ==
    ASSUME TypeInv, \A g \in Games : LobbyInv(g), NEW g \in Games,
           Join(g) \/ PlayOut(g) \/ Withdraw(g)
    PROVE  \A h \in Games : LobbyInv(h)'
<1>0. lobby \in [Games -> Statuses] /\ refunds \in [Games -> Nat]
  BY DEF TypeInv, ConnTypeOK
<1>1. CASE Join(g)
  BY <1>0, <1>1 DEF Join, MoveGame, LobbyInv
<1>2. CASE PlayOut(g)
  BY <1>0, <1>2 DEF PlayOut, MoveGame, LobbyInv
<1>3. CASE Withdraw(g)
  BY <1>0, <1>3 DEF Withdraw, MoveGame, LobbyInv
<1> QED BY <1>1, <1>2, <1>3

\* Together: every step keeps the invariant,
LEMMA SerialStep == TypeInv /\ SerialInv /\ [ConnNext]_connVars => SerialInv'
<1> SUFFICES ASSUME TypeInv, SerialInv, [ConnNext]_connVars, ~overlap
             PROVE  /\ OneCall' /\ \A r \in Callers : Serial(r)'
                    /\ \A g \in Games : LobbyInv(g)'
  BY OverlapKept DEF SerialInv
<1>a. OneCall /\ (\A r \in Callers : Serial(r)) /\ \A g \in Games : LobbyInv(g)
  BY DEF SerialInv
<1>0. CASE UNCHANGED connVars
  <2>1. \A r \in Callers : Serial(r)'
    BY <1>0, <1>a, SerialEnvironment DEF connVars
  <2> QED BY <1>0, <1>a, <2>1 DEF connVars, OneCall, At, LobbyInv
<1>1. ASSUME NEW r \in Callers, CallStep(r)
      PROVE  /\ OneCall' /\ \A s \in Callers : Serial(s)'
             /\ \A g \in Games : LobbyInv(g)'
  BY <1>1, <1>a, SerialCall, SerialOfOne, LobbyCall
<1>2. ASSUME NEW g \in Games, Join(g) \/ PlayOut(g) \/ Withdraw(g)
      PROVE  /\ OneCall' /\ \A s \in Callers : Serial(s)'
             /\ \A h \in Games : LobbyInv(h)'
  <2>1. /\ UNCHANGED <<chatBans, economy, call, seen, watched>> /\ late' = late
        /\ touched' = (touched \/ "active_games" \in watched)
    BY <1>2 DEF Join, PlayOut, Withdraw, MoveGame, Touch
  <2>2. \A s \in Callers : Serial(s)'
    BY <2>1, <1>a, SerialEnvironment
  <2>3. OneCall'
    BY <2>1, <1>a DEF OneCall, At
  <2> QED BY <1>2, <1>a, <2>2, <2>3, LobbyMoves
<1>3. CASE BansExpire
  <2>1. /\ UNCHANGED <<chatBans, economy, call, seen, watched, touched>> /\ late'
        /\ UNCHANGED <<lobby, joined, refunds>>
    BY <1>3 DEF BansExpire, docs
  <2>2. \A s \in Callers : Serial(s)'
    BY <2>1, <1>a, SerialEnvironment
  <2> QED BY <2>1, <2>2, <1>a DEF OneCall, At, LobbyInv
<1> QED BY <1>0, <1>1, <1>2, <1>3 DEF ConnNext

\* which holds at first,
LEMMA SerialInit == ConnInit => SerialInv
BY DEF ConnInit, SerialInv, OneCall, Serial, Guarded, Fresh, Waiting, Keeps, Prunes,
       LobbyInv, At, NoCall

\* and so always.
LEMMA SerialAlways == ConnSpec => [](TypeInv /\ SerialInv)
BY ConnTypeCorrect, SerialInit, SerialStep, PTL DEF ConnSpec

(***************************************************************************)
(* The optimistic lock holds for any number of users and games, as long as *)
(* requests do not overlap: an EXEC that succeeds finds what the GET       *)
(* answered.                                                               *)
(***************************************************************************)
THEOREM LockHolds == ConnSpec => []SetOnlyIfUnchanged
<1>1. SerialInv => SetOnlyIfUnchanged
  BY DEF SerialInv, SetOnlyIfUnchanged, Serial, Fresh
<1> QED BY <1>1, SerialAlways, PTL

(***************************************************************************)
(* Requests one at a time refund the creator of a game at most once, and   *)
(* only if nobody joined it.                                               *)
(***************************************************************************)
THEOREM RefundsOnce == ConnSpec => []CancelRefundsLobby
<1>1. TypeInv /\ SerialInv => CancelRefundsLobby
  <2> SUFFICES ASSUME TypeInv, SerialInv, ~overlap, NEW g \in Games, refunds[g] > 0
               PROVE  refunds[g] = 1 /\ g \notin joined
    BY DEF CancelRefundsLobby, RefundsLobbyOnce
  <2>1. LobbyInv(g) /\ lobby[g] \in Statuses
    BY DEF SerialInv, TypeInv, ConnTypeOK
  <2> QED BY <2>1 DEF LobbyInv, Statuses
<1> QED BY <1>1, SerialAlways, PTL

(***************************************************************************)
(* Requests one at a time never lift a running ban of a user but by the    *)
(* unban of that user.                                                     *)
(***************************************************************************)
THEOREM BansStand == ConnSpec => RunningBanStands
<1>1. TypeInv /\ SerialInv /\ [ConnNext]_connVars =>
         [\A e \in Active(chatBans) :
             \/ overlap
             \/ HasEntry(chatBans', e.user)
             \/ \E r \in Callers : call[r].kind = "unban" /\ call[r].user = e.user
         ]_connVars
  <2> SUFFICES ASSUME TypeInv, SerialInv, ConnNext, ~overlap,
                      NEW e \in Active(chatBans)
               PROVE  \/ HasEntry(chatBans', e.user)
                      \/ \E r \in Callers : call[r].kind = "unban"
                                          /\ call[r].user = e.user
    OBVIOUS
  <2>1. CASE chatBans' = chatBans
    BY <2>1 DEF HasEntry, Active
  <2>2. ASSUME NEW r \in Callers, ExecDone(r), WriteBans(r)
        PROVE \/ HasEntry(chatBans', e.user)
              \/ call[r].kind = "unban" /\ call[r].user = e.user
    <3>1. At(r, "exec") /\ ~touched /\ call[r].kind \in {"ban", "unban"}
          /\ chatBans' = seen[r].next
      BY <2>2 DEF ExecDone, ExecNull, WriteBans
    <3>2. Fresh(r) /\ Keeps(r)
      BY DEF SerialInv, Serial
    <3>3. seen[r].list = chatBans
      BY <3>1, <3>2 DEF Fresh, Unchanged
    <3>4. CASE e.user # call[r].user
      BY <3>1, <3>2, <3>3, <3>4 DEF Keeps, Others, HasEntry
    <3>5. CASE e.user = call[r].user
      BY <3>1, <3>2, <3>5 DEF Keeps
    <3> QED BY <3>4, <3>5
  <2>3. ASSUME NEW r \in Callers, SetBans(r) PROVE HasEntry(chatBans', e.user)
    <3>1. At(r, "set") /\ chatBans' = seen[r].next
      BY <2>3 DEF SetBans
    <3>2. Prunes(r)
      BY DEF SerialInv, Serial
    <3> QED BY <3>1, <3>2 DEF Prunes, HasEntry
  <2>4. ASSUME NEW r \in Callers, CallStep(r), chatBans' # chatBans
        PROVE  (ExecDone(r) /\ WriteBans(r)) \/ SetBans(r)
    BY <2>4 DEF CallStep, BeginCall, Start, Watch, ReadBans, ReadEconomy, ReadGame,
                ExecDone, WriteEconomy, WriteCancel, ExecRefused, Unwatch, GetBans, docs
  <2>5. ASSUME NEW g \in Games, Join(g) \/ PlayOut(g) \/ Withdraw(g)
        PROVE chatBans' = chatBans
    BY <2>5 DEF Join, PlayOut, Withdraw
  <2>6. BansExpire => chatBans' = chatBans
    BY DEF BansExpire, docs
  <2> QED BY <2>1, <2>2, <2>3, <2>4, <2>5, <2>6 DEF ConnNext
<1> QED BY <1>1, SerialAlways, PTL DEF ConnSpec, RunningBanStands

=============================================================================
