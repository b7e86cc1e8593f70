------------------------------ MODULE PagedKV ------------------------------
(***************************************************************************)
(* The paged KV-cache manager of backends/paged_attention.py: a pool of    *)
(* fixed-size blocks, a block table per sequence, reference counts for     *)
(* blocks that copy_on_write lets several sequences share, and the locks:  *)
(* one of 16 shard locks per sequence, then the free-list lock _lock.      *)
(* Beside its callers runs the defragmenter (core/memory_defragmenter.py), *)
(* which compacts the pool under _lock alone.                              *)
(*                                                                         *)
(* A call is a thread's step that takes its first shard, then a step that  *)
(* takes _lock, does the work and returns. copy_on_write never takes       *)
(* _lock: it counts the references it hands out one block at a time, with  *)
(* the other calls in between.                                             *)
(***************************************************************************)
EXTENDS Integers, Sequences, FiniteSets

CONSTANTS
  Threads,    \* the threads that call the manager
  Seqs,       \* sequence ids
  NumBlocks,  \* _num_blocks
  BlockSize,  \* _block_size: tokens per block
  Shard,      \* [Seqs -> shards]: which of the shard locks guards a sequence
  CowPairs,   \* the <<source, dest>> pairs callers pass to copy_on_write
  MaxRef      \* bound: copy_on_write is not called on a block with this count

Blocks == 0..(NumBlocks - 1)

ASSUME PagedAssumption ==
  /\ IsFiniteSet(Seqs)
  /\ NumBlocks \in Nat \ {0}
  /\ BlockSize \in Nat \ {0}
  /\ CowPairs \subseteq {p \in Seqs \X Seqs : p[1] # p[2]}
  /\ MaxRef \in Nat

VARIABLES
  free,    \* _free_blocks; a block is in it exactly when it is not is_allocated
  ref,     \* KVCacheBlock.ref_count
  filled,  \* KVCacheBlock.num_tokens
  table,   \* _seq_blocks[s].block_ids, <<>> for a sequence that has no entry
  call,    \* the call each thread is in: it holds the shard of call[t].seq
  plan,    \* the defragmenter's moves <<from, to, ref_count>>; it holds _lock
           \* from planning to moving, that is while plan is not empty
  toSwap,  \* the sequences it still has to swap to the CPU before it moves
  overlapped  \* history: a copy_on_write has copied references from a table
              \* while the defragmenter was between its plan and its moves

pool == <<free, ref, filled, table>>
vars == <<free, ref, filled, table, call, plan, toSwap, overlapped>>

Idle == [op |-> "idle"]
LockedOps == {"allocate", "free", "append"}
Calls == [op : LockedOps \cup {"copy", "count"}, seq : Seqs, dest : Seqs, at : Nat]

Held(s) == {table[s][i] : i \in DOMAIN table[s]}

(* threading.RLock: whether t may take shard k; only a copy that has its  *)
(* second lock holds two shards, and they may be the same one.            *)
HoldsShard(u, k) ==
  /\ call[u].op # "idle"
  /\ k = Shard[call[u].seq] \/ (call[u].op = "count" /\ k = Shard[call[u].dest])
ShardFree(t, k) == \A u \in Threads \ {t} : ~HoldsShard(u, k)

(* _lock is held across steps by the defragmenter only. *)
LockFree == plan = {}
Copying == \E t \in Threads : call[t].op \in {"copy", "count"}
Counting == \E t \in Threads : call[t].op = "count"

Init ==
  /\ free = Blocks
  /\ ref = [b \in Blocks |-> 0]
  /\ filled = [b \in Blocks |-> 0]
  /\ table = [s \in Seqs |-> <<>>]
  /\ call = [t \in Threads |-> Idle]
  /\ plan = {}
  /\ toSwap = {}
  /\ overlapped = FALSE

Return(t) == call' = [call EXCEPT ![t] = Idle]

(***************************************************************************)
(* Calls under the shard of the sequence and _lock                         *)
(***************************************************************************)
Begin(t, op, s) ==
  /\ call[t].op = "idle"
  /\ ShardFree(t, Shard[s])
  /\ call' = [call EXCEPT ![t] = [op |-> op, seq |-> s, dest |-> s, at |-> 0]]
  /\ UNCHANGED <<pool, plan, toSwap, overlapped>>

(* Mutant: a call that does not wait for _lock. *)
InLockIgnored(t, op) == call[t].op = op
InLock(t, op) == call[t].op = op /\ LockFree

(* allocate_sequence: the new table replaces an old one without releasing  *)
(* it. Which free blocks _find_fragmented_blocks prefers is left open.     *)
(* With too few the call raises and changes nothing: AllocateFails.        *)
Allocate(t) ==
  /\ InLock(t, "allocate")
  /\ \E n \in 1..Cardinality(free) : \E bs \in [1..n -> free] :
       /\ \A i, j \in 1..n : bs[i] = bs[j] => i = j
       /\ free' = {b \in free : \A i \in 1..n : bs[i] # b}
       /\ ref' = [b \in Blocks |-> IF \E i \in 1..n : bs[i] = b THEN 1 ELSE ref[b]]
       /\ filled' = [b \in Blocks |-> IF \E i \in 1..n : bs[i] = b THEN 0 ELSE filled[b]]
       /\ table' = [table EXCEPT ![call[t].seq] = bs]
  /\ Return(t)
  /\ UNCHANGED <<plan, toSwap, overlapped>>

AllocateFails(t) ==
  /\ InLock(t, "allocate")
  /\ Cardinality(free) < NumBlocks
  /\ Return(t)
  /\ UNCHANGED <<pool, plan, toSwap, overlapped>>

(* Mutant: releases a block that one other sequence still refers to. *)
FreeSequenceReleasesShared(t) ==
  LET held == Held(call[t].seq)
      released == {b \in held : ref[b] <= 2}
  IN /\ InLock(t, "free")
     /\ free' = free \cup released
     /\ ref' = [b \in Blocks |-> IF b \in released THEN 0
                                 ELSE IF b \in held THEN ref[b] - 1 ELSE ref[b]]
     /\ filled' = [b \in Blocks |-> IF b \in released THEN 0 ELSE filled[b]]
     /\ table' = [table EXCEPT ![call[t].seq] = <<>>]
     /\ Return(t)
     /\ UNCHANGED <<plan, toSwap, overlapped>>

FreeSequence(t) ==
  LET held == Held(call[t].seq)
      released == {b \in held : ref[b] <= 1}
  IN /\ InLock(t, "free")
     /\ free' = free \cup released
     /\ ref' = [b \in Blocks |-> IF b \in released THEN 0
                                 ELSE IF b \in held THEN ref[b] - 1 ELSE ref[b]]
     /\ filled' = [b \in Blocks |-> IF b \in released THEN 0 ELSE filled[b]]
     /\ table' = [table EXCEPT ![call[t].seq] = <<>>]
     /\ Return(t)
     /\ UNCHANGED <<plan, toSwap, overlapped>>

(* append_token starts by making its last block its own (_unshare_block):  *)
(* it goes on with block w, the last block itself or, when that one is     *)
(* shared, a free block that takes over its contents.                      *)
LastOf(s) == table[s][Len(table[s])]
(* Mutant: append_token without _unshare_block. *)
OwnBlockStaysShared(s) == IF table[s] = <<>> THEN {} ELSE {LastOf(s)}
OwnBlock(s) == IF table[s] = <<>> THEN {}
               ELSE IF ref[LastOf(s)] > 1 THEN free ELSE {LastOf(s)}
Unshared(s, w) == [table[s] EXCEPT ![Len(table[s])] = w]
UnsharedRef(s, w) ==
  [b \in Blocks |-> IF w = LastOf(s) THEN ref[b]
                    ELSE IF b = w THEN 1
                    ELSE IF b = LastOf(s) THEN ref[b] - 1 ELSE ref[b]]

AppendRaises(t) ==
  LET s == call[t].seq IN
  /\ InLock(t, "append")
  /\ OwnBlock(s) = {}
  /\ Return(t)
  /\ UNCHANGED <<pool, plan, toSwap, overlapped>>

(* Mutant: off by one at a full block. *)
AppendInBlockOverfills(t) ==
  LET s == call[t].seq IN
  /\ InLock(t, "append")
  /\ table[s] # <<>>
  /\ filled[LastOf(s)] <= BlockSize
  /\ \E w \in OwnBlock(s) :
       /\ free' = free \ {w}
       /\ ref' = UnsharedRef(s, w)
       /\ filled' = [filled EXCEPT ![w] = filled[LastOf(s)] + 1]
       /\ table' = [table EXCEPT ![s] = Unshared(s, w)]
  /\ Return(t)
  /\ UNCHANGED <<plan, toSwap, overlapped>>

AppendInBlock(t) ==
  LET s == call[t].seq IN
  /\ InLock(t, "append")
  /\ table[s] # <<>>
  /\ filled[LastOf(s)] < BlockSize
  /\ \E w \in OwnBlock(s) :
       /\ free' = free \ {w}
       /\ ref' = UnsharedRef(s, w)
       /\ filled' = [filled EXCEPT ![w] = filled[LastOf(s)] + 1]
       /\ table' = [table EXCEPT ![s] = Unshared(s, w)]
  /\ Return(t)
  /\ UNCHANGED <<plan, toSwap, overlapped>>

(* The last block is full: a further block n is taken from the free list.  *)
(* When there is none the call raises, after it has unshared its block.    *)
AppendNewBlock(t) ==
  LET s == call[t].seq IN
  /\ InLock(t, "append")
  /\ table[s] # <<>>
  /\ filled[LastOf(s)] >= BlockSize
  /\ \E w \in OwnBlock(s) : \E n \in free \ {w} :
       /\ free' = free \ {w, n}
       /\ ref' = [UnsharedRef(s, w) EXCEPT ![n] = 1]
       /\ filled' = [filled EXCEPT ![w] = filled[LastOf(s)], ![n] = 1]
       /\ table' = [table EXCEPT ![s] = Append(Unshared(s, w), n)]
  /\ Return(t)
  /\ UNCHANGED <<plan, toSwap, overlapped>>

AppendExhausted(t) ==
  LET s == call[t].seq IN
  /\ InLock(t, "append")
  /\ table[s] # <<>>
  /\ filled[LastOf(s)] >= BlockSize
  /\ \E w \in OwnBlock(s) :
       /\ free \ {w} = {}
       /\ free' = {}
       /\ ref' = UnsharedRef(s, w)
       /\ filled' = [filled EXCEPT ![w] = filled[LastOf(s)]]
       /\ table' = [table EXCEPT ![s] = Unshared(s, w)]
  /\ Return(t)
  /\ UNCHANGED <<plan, toSwap, overlapped>>

(***************************************************************************)
(* copy_on_write: shard of the source, shard of the destination, never     *)
(* _lock, so that nothing keeps it from running while the defragmenter is  *)
(* between its plan and its moves. The destination gets the source's list  *)
(* at once, the reference counts follow block by block.                    *)
(***************************************************************************)
BeginCopy(t, p) ==
  /\ call[t].op = "idle"
  /\ ShardFree(t, Shard[p[1]])
  /\ \A b \in Held(p[1]) : ref[b] < MaxRef
  /\ call' = [call EXCEPT ![t] = [op |-> "copy", seq |-> p[1], dest |-> p[2], at |-> 0]]
  /\ UNCHANGED <<pool, plan, toSwap, overlapped>>

CopyTable(t) ==
  LET s == call[t].seq
      d == call[t].dest
  IN /\ call[t].op = "copy"
     /\ ShardFree(t, Shard[d])
     /\ IF table[s] = <<>>
        THEN Return(t) /\ UNCHANGED <<table, overlapped>>
        ELSE /\ table' = [table EXCEPT ![d] = table[s]]
             /\ call' = [call EXCEPT ![t].op = "count", ![t].at = 1]
             /\ overlapped' = (overlapped \/ ~LockFree)
     /\ UNCHANGED <<free, ref, filled, plan, toSwap>>

(* Mutant: counts every block of the source but the last. *)
CountReferenceStopsEarly(t) ==
  LET s == call[t].seq
      i == call[t].at
  IN /\ call[t].op = "count"
     /\ IF i = Len(table[s]) THEN Return(t) /\ UNCHANGED ref
        ELSE /\ ref' = [ref EXCEPT ![table[s][i]] = @ + 1]
             /\ call' = [call EXCEPT ![t].at = i + 1]
     /\ UNCHANGED <<free, filled, table, plan, toSwap, overlapped>>

(* ref_count += 1 for the next block of the source; the interpreter does   *)
(* not switch threads inside the statement, only between two of them.      *)
CountReference(t) ==
  LET s == call[t].seq
      i == call[t].at
  IN /\ call[t].op = "count"
     /\ ref' = [ref EXCEPT ![table[s][i]] = @ + 1]
     /\ IF i = Len(table[s]) THEN Return(t)
                             ELSE call' = [call EXCEPT ![t].at = i + 1]
     /\ UNCHANGED <<free, filled, table, plan, toSwap, overlapped>>

(***************************************************************************)
(* The defragmenter and reset                                              *)
(***************************************************************************)
(* compute_compaction_plan: the allocated blocks above a free one that are *)
(* not shared, from the highest down, are paired with the free ones from   *)
(* the lowest up, as long as that moves a block down.                      *)
Movable == {b \in Blocks \ free : ref[b] <= 1 /\ \E f \in free : f < b}
CompactionPlan ==
  {m \in Movable \X free :
     /\ m[1] > m[2]
     /\ Cardinality({b \in Movable : b > m[1]}) = Cardinality({f \in free : f < m[2]})}

(* _defragment_impl up to the moves: some planned moves are left out       *)
(* because their block moved recently; above a fragmentation threshold     *)
(* (tiers L2 and L3) every sequence is first swapped to the CPU.           *)
DefragPlan ==
  /\ LockFree
  /\ \E moves \in SUBSET CompactionPlan \ {{}} :
       plan' = {<<m[1], m[2], ref[m[1]]>> : m \in moves}
  /\ toSwap' \in {{}, {s \in Seqs : table[s] # <<>>}}
  /\ overlapped' = (overlapped \/ Counting)
  /\ UNCHANGED <<pool, call>>

(* swap_blocks_to_cpu under the sequence's shard, while _lock is held; it  *)
(* moves tensors and changes none of the state here.                       *)
DefragSwap(s) ==
  /\ s \in toSwap
  /\ \A t \in Threads : ~HoldsShard(t, Shard[s])
  /\ toSwap' = toSwap \ {s}
  /\ UNCHANGED <<pool, call, plan, overlapped>>

MovedTo(b) == {m \in plan : m[1] = b}
MovedFrom(b) == {m \in plan : m[2] = b}
(* Mutant: the moves are done, the tables not updated. *)
RelinkedNowhere(b) == b
Relinked(b) == IF MovedTo(b) = {} THEN b ELSE (CHOOSE m \in MovedTo(b) : TRUE)[2]

DefragMove ==
  /\ plan # {}
  /\ toSwap = {}
  /\ free' = {b \in Blocks : MovedFrom(b) = {} /\ (b \in free \/ MovedTo(b) # {})}
  /\ ref' = [b \in Blocks |->
       IF MovedTo(b) # {} THEN 0
       ELSE IF MovedFrom(b) # {} THEN (CHOOSE m \in MovedFrom(b) : TRUE)[3] ELSE ref[b]]
  /\ filled' = [b \in Blocks |->
       IF MovedTo(b) # {} THEN 0
       ELSE IF MovedFrom(b) # {} THEN filled[(CHOOSE m \in MovedFrom(b) : TRUE)[1]]
       ELSE filled[b]]
  /\ table' = [s \in Seqs |-> [i \in DOMAIN table[s] |-> Relinked(table[s][i])]]
  /\ plan' = {}
  /\ UNCHANGED <<call, toSwap, overlapped>>

(* Only tests call it, with no copy under way. *)
Reset ==
  /\ LockFree
  /\ ~Copying
  /\ free' = Blocks
  /\ ref' = [b \in Blocks |-> 0]
  /\ filled' = [b \in Blocks |-> 0]
  /\ table' = [s \in Seqs |-> <<>>]
  /\ UNCHANGED <<call, plan, toSwap, overlapped>>

ThreadStep(t) ==
  \/ \E op \in LockedOps, s \in Seqs : Begin(t, op, s)
  \/ \E p \in CowPairs : BeginCopy(t, p)
  \/ Allocate(t) \/ AllocateFails(t)
  \/ FreeSequence(t)
  \/ AppendRaises(t) \/ AppendInBlock(t) \/ AppendNewBlock(t) \/ AppendExhausted(t)
  \/ CopyTable(t) \/ CountReference(t)

Next ==
  \/ \E t \in Threads : ThreadStep(t)
  \/ DefragPlan
  \/ \E s \in Seqs : DefragSwap(s)
  \/ DefragMove
  \/ Reset

Spec == Init /\ [][Next]_vars

(***************************************************************************)
(* Properties                                                              *)
(***************************************************************************)
(* The state is what the manager's own comments say it is, whatever runs   *)
(* at the same time; no block is filled beyond its size.                   *)
TypeOK ==
  /\ free \subseteq Blocks
  /\ ref \in [Blocks -> Nat]
  /\ filled \in [Blocks -> 0..BlockSize]
  /\ table \in [Seqs -> Seq(Blocks)]
  /\ call \in [Threads -> {Idle} \cup Calls]
  /\ plan \subseteq Blocks \X Blocks \X {0, 1}
  /\ toSwap \subseteq Seqs
  /\ overlapped \in BOOLEAN

(* "Also acquires the mgr's lock to prevent concurrent free_sequence() or  *)
(* allocate_sequence() calls from racing with block moves": until they are *)
(* done, every planned move goes from a block in use to a free one, and no *)
(* two of them meet, whatever runs meanwhile, copies included.             *)
PlanStaysFeasible ==
  /\ \A m \in plan : m[1] \in Blocks \ free /\ m[2] \in free
  /\ \A m, n \in plan : m[1] = n[1] \/ m[2] = n[2] => m = n

(* What the remaining properties rest on. It holds until a copy overlaps a *)
(* compaction. A copy that counts has both its shards, so that neither     *)
(* table changes under it, and every shard has one holder; a plan stays as *)
(* it was made until its moves are done.                                   *)
NoBlockTwice ==
  \A s \in Seqs : \A i, j \in DOMAIN table[s] : table[s][i] = table[s][j] => i = j

CopyInProgress ==
  \A t \in Threads :
    /\ call[t].op \in {"copy", "count"} => call[t].dest # call[t].seq
    /\ call[t].op = "count" => /\ table[call[t].dest] = table[call[t].seq]
                               /\ call[t].at \in 1..Len(table[call[t].seq])

ShardsExclusive ==
  \A t, u \in Threads : \A s \in Seqs :
    HoldsShard(t, Shard[s]) /\ HoldsShard(u, Shard[s]) => t = u

PlanIsCurrent ==
  /\ plan # {} => ~Counting
  /\ PlanStaysFeasible
  /\ \A m \in plan : m[3] = ref[m[1]] /\ ref[m[1]] <= 1

FreeIsUncounted == \A b \in free : ref[b] = 0

(* References in s's table that ref_count includes: all of them, but for   *)
(* the destination of a copy that is still counting.                       *)
Counted(b) ==
  {s \in Seqs : \E i \in DOMAIN table[s] :
     /\ table[s][i] = b
     /\ \A t \in Threads :
          call[t].op = "count" /\ call[t].dest = s => i < call[t].at}

CountsCover == \A b \in Blocks : Cardinality(Counted(b)) <= ref[b]

Inv == TypeOK /\ NoBlockTwice /\ CopyInProgress /\ ShardsExclusive /\ PlanIsCurrent
       /\ FreeIsUncounted /\ CountsCover

(* Until a copy has overlapped a compaction, no sequence's table names a   *)
(* block that is on the free list, where the next allocation would hand it *)
(* to another sequence: not while copies are half counted, nor after a     *)
(* compaction.                                                             *)
NoUseAfterFree == ~overlapped => \A s \in Seqs : Held(s) \cap free = {}

(* Until then ref_count is never below the references handed out and       *)
(* counted, so that no free_sequence releases a block in use elsewhere.    *)
ReferencesCovered == ~overlapped => CountsCover

(* Until then append_token writes into, and _unshare_block and the         *)
(* defragmenter copy into, blocks that no second sequence has in its table. *)
PrivateWrites ==
  [][~overlapped' =>
       \A b \in Blocks : filled'[b] > filled[b] =>
         \A s, u \in Seqs : b \in Held(s)' /\ b \in Held(u)' => s = u]_vars

(* Until then a compaction leaves every sequence with as many blocks as    *)
(* before, each filled as before, wherever they are now, although calls    *)
(* begin, and copies finish, between its plan and its moves.               *)
CompactionKeepsViews ==
  [][~overlapped' /\ plan # {} /\ plan' = {} =>
       \A s \in Seqs :
         /\ Len(table'[s]) = Len(table[s])
         /\ \A i \in DOMAIN table[s] : filled'[table'[s][i]] = filled[table[s][i]]]_vars

(* "Respects copy-on-write: blocks with ref_count > 1 are not moved."      *)
(* The plan looks at the counts once, a copy may raise them after that.    *)
MovesOnlyUnshared ==
  [][plan # {} /\ plan' = {} => \A m \in plan : ref[m[1]] <= 1]_vars
=============================================================================
