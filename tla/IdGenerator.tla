----------------------------- MODULE IdGenerator -----------------------------
(***************************************************************************)
(* CID_Generator (xrGame/id_generator.h), which hands out the ids of the   *)
(* server's entities.  The free ids lie in blocks; a block is a stack of   *)
(* offsets with the time of the last free.  An id without preference comes *)
(* from the block that has rested longest (std::min_element over           *)
(* SID_Block::operator<).  The callers are xrServer (PerformIDgen, FreeID, *)
(* entity_Destroy) and the ALife simulator, one call at a time.            *)
(*                                                                         *)
(* The widths of TYPE_ID and BLOCK_ID hold the offsets and blocks of the   *)
(* instance in xrServer.h: 65535 ids in 256 blocks of 256.                 *)
(***************************************************************************)
EXTENDS Integers, Sequences, FiniteSets, Vectors

CONSTANTS MinValue, MaxValue,   \* the ids are MinValue..MaxValue
          BlockSize,
          MaxTime               \* bound on the timer

ASSUME IdAssumption ==
  /\ MinValue \in Nat /\ MaxValue \in Nat /\ MinValue <= MaxValue
  /\ BlockSize \in Nat \ {0} /\ MaxTime \in Nat \ {0}

Values  == MinValue..MaxValue
Offsets == 0..(BlockSize - 1)
Blocks  == 0..((MaxValue - MinValue) \div BlockSize)

tfGetBlockByValue(v) == (v - MinValue) \div BlockSize
Offset(v)   == (v - MinValue) % BlockSize
Value(b, k) == k + b * BlockSize + MinValue

\* How many ids a block is for: the last one may be shorter.
Size(b) == LET left == MaxValue - MinValue + 1 - b * BlockSize
           IN IF left < BlockSize THEN left ELSE BlockSize

VARIABLES m_tpIDs,            \* of each block: the offsets of its free ids
          m_tTimeID,          \* of each block: the time of its last free
          m_available_count,  \* blocks with a free id
          answer,             \* what tfGetID returned last
          now,                \* Device.TimerAsync()
          freed,              \* history: when each id was freed last
          refused             \* the program has ended: it got none of these ids

blocks == <<m_tpIDs, m_tTimeID, m_available_count>>
idVars == <<blocks, answer, now, freed, refused>>

\* The constructor frees every id, then reverses the blocks.
IdInit ==
  /\ m_tpIDs = [b \in Blocks |-> [i \in 1..Size(b) |-> Size(b) - i]]
  /\ m_tTimeID = [b \in Blocks |-> 0]
  /\ m_available_count = Cardinality(Blocks)
  /\ answer = MinValue
  /\ now = 1
  /\ freed = [v \in Values |-> 0]
  /\ refused = {}

\* Defect: an empty block is like another.
Less_Time(b, c) == m_tTimeID[b] < m_tTimeID[c]

\* Defect: the block that was freed last comes first.
Less_Latest(b, c) == /\ m_tpIDs[b] # <<>>
                     /\ m_tTimeID[b] > m_tTimeID[c] \/ m_tpIDs[c] = <<>>

\* SID_Block::operator<
Less(b, c) == /\ m_tpIDs[b] # <<>>
              /\ m_tTimeID[b] < m_tTimeID[c] \/ m_tpIDs[c] = <<>>

\* The block std::min_element returns: the first of the least ones.
IsMinElement(b) == \A c \in Blocks : ~Less(c, b) /\ (c < b => Less(b, c))

\* The last offset of the stack replaces the one at index i.
Without(ids, i) ==
  [k \in 1..(Len(ids) - 1) |-> IF k = i THEN ids[Len(ids)] ELSE ids[k]]

tfGetFromBlock(b, i) ==
  /\ m_available_count' = IF Len(m_tpIDs[b]) = 1 THEN m_available_count - 1
                                                  ELSE m_available_count
  /\ m_tpIDs' = [m_tpIDs EXCEPT ![b] = Without(@, i)]
  /\ answer' = Value(b, m_tpIDs[b][i])
  /\ UNCHANGED <<m_tTimeID, now, freed, refused>>

\* tfGetID(tInvalidValueID)
GetAny ==
  /\ m_available_count > 0
  /\ \E b \in Blocks : /\ IsMinElement(b) /\ m_tpIDs[b] # <<>>
                       /\ tfGetFromBlock(b, Len(m_tpIDs[b]))

\* "Not enough IDs", or VERIFY(l_tID_Block.m_tCount): the block has none.
RefuseAny ==
  /\ m_available_count > 0 => \E b \in Blocks : IsMinElement(b) /\ m_tpIDs[b] = <<>>
  /\ refused' = Values
  /\ UNCHANGED <<blocks, answer, now, freed>>

\* tfGetID(v): an id that was saved, or that the level's designer chose.
GetThis(v) ==
  LET b == tfGetBlockByValue(v)
  IN \E i \in 1..Len(m_tpIDs[b]) : /\ m_tpIDs[b][i] = Offset(v)
                                   /\ tfGetFromBlock(b, i)

\* "Requesting ID has already been used!"
RefuseThis(v) ==
  /\ \A i \in 1..Len(m_tpIDs[tfGetBlockByValue(v)]) :
       m_tpIDs[tfGetBlockByValue(v)][i] # Offset(v)
  /\ refused' = {v}
  /\ UNCHANGED <<blocks, answer, now, freed>>

\* The ids that are in no block: somebody has them.
Taken == {v \in Values : Offset(v) \notin Listed(m_tpIDs[tfGetBlockByValue(v)])}

\* vfFreeID(v, Device.TimerAsync()), by xrServer::entity_Destroy for the id of
\* its entity.
Free(v) ==
  LET b == tfGetBlockByValue(v)
  IN /\ v \in Taken
     /\ m_available_count' = IF m_tpIDs[b] = <<>> THEN m_available_count + 1
                                                  ELSE m_available_count
     /\ m_tpIDs' = [m_tpIDs EXCEPT ![b] = Append(@, Offset(v))]
     /\ m_tTimeID' = [m_tTimeID EXCEPT ![b] = now]
     /\ freed' = [freed EXCEPT ![v] = now]
     /\ UNCHANGED <<answer, now, refused>>

\* CALifeSimulator__spawn_item2 and __spawn_ammo give the id of the item they
\* made back with FreeID(v, 0), and Process_spawn asks for that very id: the
\* block has its offsets as before, and time 0.
SpawnThrough(v) ==
  /\ v \in Taken
  /\ m_tTimeID' = [m_tTimeID EXCEPT ![tfGetBlockByValue(v)] = 0]
  /\ UNCHANGED <<m_tpIDs, m_available_count, answer, now, freed, refused>>

Tick == /\ now < MaxTime /\ now' = now + 1
        /\ UNCHANGED <<blocks, answer, freed, refused>>

Call  == \/ GetAny \/ RefuseAny \/ Tick
         \/ \E v \in Values : GetThis(v) \/ RefuseThis(v) \/ Free(v) \/ SpawnThrough(v)
Ended == refused # {} /\ UNCHANGED idVars

IdNext == (refused = {} /\ Call) \/ Ended

IdSpec == IdInit /\ [][IdNext]_idVars
------------------------------------------------------------------------------
(* Properties.                                                              *)

TypeOK ==
  /\ m_tpIDs \in [Blocks -> Seq(Offsets)] /\ m_tTimeID \in [Blocks -> Nat]
  /\ m_available_count \in Nat /\ answer \in Values
  /\ now \in 1..MaxTime /\ freed \in [Values -> 0..now]
  /\ refused \in SUBSET Values

\* VERIFY(m_available_count <= m_tBlockCount) and its neighbours: the count is
\* the number of blocks that have a free id.
CountAgrees ==
  m_available_count = Cardinality({b \in Blocks : m_tpIDs[b] # <<>>})

\* VERIFY(l_tID_Block.m_tCount): as long as the count says that there are ids,
\* the block that min_element chooses has one.
PicksFull ==
  m_available_count > 0 => \A b \in Blocks : IsMinElement(b) => m_tpIDs[b] # <<>>

\* Every offset in a block is that of an id, and is there once.
BlocksSound ==
  \A b \in Blocks : /\ NoRepeat(m_tpIDs[b])
                    /\ \A k \in Listed(m_tpIDs[b]) : Value(b, k) \in Values

\* To its callers the generator is a pool of ids, which it refuses only when all
\* are taken, whatever the count and the times of the blocks say.
Pool == INSTANCE IdPool WITH Values <- Values, taken <- Taken, answer <- answer,
                             refused <- refused
PoolSpec == Pool!Spec

\* An id freed lately rests while an id of another block has rested longer:
\* when tfGetID hands out v, each other block with a free id has had an id
\* freed no earlier than v.  A block that SpawnThrough stamped with time 0 is
\* the exception: all its ids come back next, however lately they were freed.
Rested(v) ==
  m_tTimeID[tfGetBlockByValue(v)] # 0 =>
    \A c \in Blocks \ {tfGetBlockByValue(v)} :
      m_tpIDs[c] # <<>> =>
        \E w \in Values : tfGetBlockByValue(w) = c /\ freed[w] >= freed[v]
NoHotReuse == [][GetAny => Rested(answer')]_idVars

\* The times of the blocks say when their ids were freed.
TimesAgree ==
  \A b \in Blocks :
    m_tTimeID[b] # 0 =>
      /\ \A v \in Values : tfGetBlockByValue(v) = b => freed[v] <= m_tTimeID[b]
      /\ \E v \in Values : tfGetBlockByValue(v) = b /\ freed[v] = m_tTimeID[b]

\* What the generator keeps true from call to call: every id is free in its own
\* block or taken, never both or twice, and the count and the times by which
\* tfGetID chooses a block say what the blocks hold.
IdInv == TypeOK /\ CountAgrees /\ BlocksSound /\ TimesAgree
==============================================================================
