------------------------------ MODULE CrashChain ------------------------------
(***************************************************************************)
(* The hash chains that decide crash rounds (crash-chain-admin).  A chain  *)
(* is created inactive; setting its client seed, once, makes it the active *)
(* one; rounds of the active chain are then calculated in advance, in      *)
(* batches, with the seed that was read at the beginning.                  *)
(*                                                                         *)
(* The check that a chain has no seed runs before the transaction, and the *)
(* transaction deactivates the chains its first statement sees.            *)
(***************************************************************************)
EXTENDS Integers

CONSTANTS
    Chains,            \* rows that may be created
    Seeds,             \* client seeds
    ChainRequests,     \* admin requests under way
    TotalRounds,       \* length of a chain
    MaxBatch,          \* PRECALCULATE_BATCH
    MaxChainCalls      \* bound: activations and precalculations

ASSUME ChainAssumptions ==
    /\ TotalRounds \in Nat \ {0}
    /\ MaxBatch \in Nat \ {0}
    /\ MaxChainCalls \in Nat
    /\ "none" \notin Seeds
    /\ Chains # {}

VARIABLES
    chain,        \* chain[c]: its row
    rounds,       \* the precalculated rounds: chain, number, seed used
    chainCall,    \* chainCall[q]: progress of request q
    chainCalls,   \* how many of them have begun
    activationsOverlap   \* whether activations overlap; fixed at the start

chainVars == <<chain, rounds, chainCall, chainCalls, activationsOverlap>>

ChainRows == [exists : BOOLEAN, active : BOOLEAN, seed : Seeds \cup {"none"},
              current : 0..TotalRounds]
RoundRows == [chain : Chains, number : 1..TotalRounds, seed : Seeds]
SomeChain == CHOOSE c \in Chains : TRUE
Progress(at, c, seed, saw, next, last) ==
    [at |-> at, chain |-> c, seed |-> seed, saw |-> saw, next |-> next, last |-> last]
NoChainCall == Progress("idle", SomeChain, "none", {}, 1, 0)
ChainCalls == [at : {"idle", "deactivate", "commit", "batch"}, chain : Chains,
               seed : Seeds \cup {"none"}, saw : SUBSET Chains,
               next : Nat \ {0}, last : 0..TotalRounds]

ChainTypeOK ==
    /\ chain \in [Chains -> ChainRows]
    /\ rounds \in SUBSET RoundRows
    /\ chainCall \in [ChainRequests -> ChainCalls]
    /\ chainCalls \in 0..MaxChainCalls
    /\ activationsOverlap \in BOOLEAN

ChainInit ==
    /\ chain = [c \in Chains |-> [exists |-> FALSE, active |-> FALSE,
                                  seed |-> "none", current |-> 0]]
    /\ rounds = {}
    /\ chainCall = [q \in ChainRequests |-> NoChainCall]
    /\ chainCalls = 0
    /\ activationsOverlap \in BOOLEAN

ActiveChains == {c \in Chains : chain[c].active}
Activating(q) == chainCall[q].at \in {"deactivate", "commit"}

CreateChain(c) ==
    /\ ~chain[c].exists
    /\ chain' = [chain EXCEPT ![c].exists = TRUE]
    /\ UNCHANGED <<rounds, chainCall, chainCalls, activationsOverlap>>

BeginChainCall(q) ==
    /\ chainCall[q].at = "idle"
    /\ chainCalls < MaxChainCalls /\ chainCalls' = chainCalls + 1
    /\ UNCHANGED <<chain, rounds, activationsOverlap>>

\* Mutant: the seed of a chain may be set again.
Settable(c) == chain[c].exists
SeedIsFree(c) == chain[c].exists /\ chain[c].seed = "none"

\* setClientSeedAndActivate up to its transaction.
CheckSeed(q, c, seed) ==
    /\ SeedIsFree(c)
    /\ activationsOverlap \/ ~\E p \in ChainRequests : Activating(p)
    /\ BeginChainCall(q)
    /\ chainCall' = [chainCall EXCEPT ![q] =
          Progress("deactivate", c, seed, {}, 1, 0)]

\* The updateMany; what it changes is visible at the commit.
Deactivate(q) ==
    /\ chainCall[q].at = "deactivate"
    /\ chainCall' = [chainCall EXCEPT ![q] =
          Progress("commit", @.chain, @.seed, ActiveChains, 1, 0)]
    /\ UNCHANGED <<chain, rounds, chainCalls, activationsOverlap>>

CommitActivation(q) ==
    /\ chainCall[q].at = "commit"
    /\ LET call == chainCall[q]
       IN chain' = [c \in Chains |->
            IF c = call.chain
            THEN [exists |-> chain[c].exists, active |-> TRUE, seed |-> call.seed,
                  current |-> chain[c].current]
            ELSE [chain[c] EXCEPT !.active = @ /\ c \notin call.saw]]
    /\ chainCall' = [chainCall EXCEPT ![q] = NoChainCall]
    /\ UNCHANGED <<rounds, chainCalls, activationsOverlap>>

\* precalculateActiveChain: an active chain, whichever is found first.
BeginPrecalculate(q, c, last) ==
    /\ chain[c].active /\ chain[c].seed # "none"
    /\ chain[c].current + 1 <= last
    /\ BeginChainCall(q)
    /\ chainCall' = [chainCall EXCEPT ![q] =
          Progress("batch", c, chain[c].seed, {}, chain[c].current + 1, last)]

Smaller(x, y) == IF x < y THEN x ELSE y

\* createMany with skipDuplicates.
InsertBatch(q) ==
    /\ chainCall[q].at = "batch"
    /\ LET call == chainCall[q]
           end == Smaller(call.next + MaxBatch - 1, call.last)
           known == {r.number : r \in {x \in rounds : x.chain = call.chain}}
       IN /\ rounds' = rounds \cup
                {[chain |-> call.chain, number |-> n, seed |-> call.seed] :
                    n \in (call.next..end) \ known}
          /\ chainCall' = [chainCall EXCEPT ![q] =
                IF end = call.last THEN NoChainCall
                ELSE Progress("batch", @.chain, @.seed, {}, end + 1, @.last)]
    /\ UNCHANGED <<chain, chainCalls, activationsOverlap>>

\* The request ends in an error; an open transaction is rolled back.
ChainCallFails(q) ==
    /\ chainCall[q].at # "idle"
    /\ chainCall' = [chainCall EXCEPT ![q] = NoChainCall]
    /\ UNCHANGED <<chain, rounds, chainCalls, activationsOverlap>>

\* The game plays the next round of an active chain.
PlayRound(c) ==
    /\ chain[c].active /\ chain[c].current < TotalRounds
    /\ chain' = [chain EXCEPT ![c].current = @ + 1]
    /\ UNCHANGED <<rounds, chainCall, chainCalls, activationsOverlap>>

ChainNext ==
    \/ \E c \in Chains : CreateChain(c) \/ PlayRound(c)
    \/ \E q \in ChainRequests :
          \/ \E c \in Chains, seed \in Seeds : CheckSeed(q, c, seed)
          \/ \E c \in Chains, last \in 1..TotalRounds : BeginPrecalculate(q, c, last)
          \/ Deactivate(q) \/ CommitActivation(q)
          \/ InsertBatch(q) \/ ChainCallFails(q)

ChainSpec == ChainInit /\ [][ChainNext]_chainVars

-----------------------------------------------------------------------------

(***************************************************************************)
(* When activations do not overlap, at most one chain is active, and every *)
(* round that was calculated in advance, by requests that may overlap with *)
(* anything, used the client seed that its chain shows, so that players    *)
(* can verify it.  Two activations at once can break both.                 *)
(***************************************************************************)
RoundsVerify ==
    ~activationsOverlap =>
        /\ \A c, d \in ActiveChains : c = d
        /\ \A r \in rounds : r.seed = chain[r.chain].seed

=============================================================================
