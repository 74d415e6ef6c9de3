------------------------- MODULE WriteBufferProofs -------------------------
(***************************************************************************)
(* The structure of the write buffer is right for every number of items,   *)
(* every set of payloads and every block size, the linked list implements  *)
(* the queue of FifoQueue, and freeing it takes one step per item.         *)
(***************************************************************************)
EXTENDS WriteBuffer, SequenceTheorems, TLAPS

IInv == TypeOK /\ ListInv /\ MemoryInv /\ SizeInv

\* The empty buffer of the start state is well formed.
LEMMA InitIInv == Init => IInv
<1> SUFFICES ASSUME Init PROVE IInv
  OBVIOUS
<1>1. Len(chain) = 0 /\ chain = <<>> /\ 1..Len(chain) = {}
  BY DEF Init
<1>2. TypeOK
  <2>1. {[orig |-> c, data |-> 0, size |-> 0, next |-> Null] : c \in Copy} \subseteq Item
    BY DEF Item, Pointer
  <2>2. heap \in [Node -> Item]
    BY <2>1 DEF Init
  <2>3. chain \in Seq(Node) /\ items \subseteq Node
    BY DEF Init
  <2> QED BY <2>2, <2>3 DEF Init, TypeOK, Pointer
<1>3. ListInv
  BY <1>1 DEF Init, ListInv
<1>4. MemoryInv
  BY <1>1 DEF Init, MemoryInv
<1>5. SizeInv
  BY <1>1 DEF SizeInv
<1> QED BY <1>2, <1>3, <1>4, <1>5 DEF IInv

\* Removing the first item of the list keeps the list well formed, frees that
\* item and its copy and nothing else.
LEMMA UnlinkIInv ==
  ASSUME IInv, Unlink, freeing' \in BOOLEAN
  PROVE  IInv'
<1> USE NullAssumption, FreedAssumption
<1>1. chain # <<>> /\ head = chain[1] /\ Len(chain) \in Nat /\ Len(chain) > 0
  BY DEF IInv, TypeOK, ListInv, Unlink
<1>2. /\ chain' \in Seq(Node)
      /\ Len(chain') = Len(chain) - 1
      /\ \A i \in 1..Len(chain') : chain'[i] = chain[i + 1]
  BY <1>1 DEF Unlink, IInv, TypeOK
<1>3. \A i \in 1..Len(chain) : chain[i] \in Node
  BY DEF IInv, TypeOK
<1>n. \A i \in 1..Len(chain) :
        heap[chain[i]].next = IF i = Len(chain) THEN Null ELSE chain[i + 1]
  BY DEF IInv, ListInv
<1>d. \A i, j \in 1..Len(chain) : chain[i] = chain[j] => i = j
  BY DEF IInv, ListInv
<1>4. TypeOK'
  BY <1>1, <1>2, <1>3 DEF IInv, TypeOK, Unlink, Pointer, Item
<1>5. ListInv'
  <2>1. head' = IF chain' = <<>> THEN Null ELSE chain'[1]
    <3>1. head' = IF 1 = Len(chain) THEN Null ELSE chain[2]
      <4>1. 1 \in 1..Len(chain)
        BY <1>1
      <4>2. heap[chain[1]].next = IF 1 = Len(chain) THEN Null ELSE chain[1 + 1]
        BY <4>1, <1>n
      <4> QED BY <4>2, <1>1 DEF Unlink
    <3>2. chain' = <<>> <=> Len(chain) = 1
      BY <1>1, <1>2
    <3> QED BY <3>1, <3>2, <1>1, <1>2
  <2>2. last' = IF chain' = <<>> THEN Null ELSE chain'[Len(chain')]
    <3>1. last = chain[Len(chain)]
      BY <1>1 DEF IInv, ListInv
    <3>2. last = head <=> Len(chain) = 1
      <4>1. 1 \in 1..Len(chain) /\ Len(chain) \in 1..Len(chain)
        BY <1>1
      <4> QED BY <4>1, <1>1, <3>1, <1>d
    <3>3. chain' = <<>> <=> Len(chain) = 1
      BY <1>1, <1>2
    <3> QED BY <3>1, <3>2, <3>3, <1>1, <1>2 DEF Unlink
  <2>3. \A i \in 1..Len(chain') :
          heap'[chain'[i]].next = IF i = Len(chain') THEN Null ELSE chain'[i + 1]
    <3> SUFFICES ASSUME NEW i \in 1..Len(chain')
                 PROVE  heap[chain[i + 1]].next =
                          IF i = Len(chain') THEN Null ELSE chain'[i + 1]
      BY <1>2 DEF Unlink
    <3>1. i + 1 \in 1..Len(chain)
      BY <1>1, <1>2
    <3>2. heap[chain[i + 1]].next =
            IF i + 1 = Len(chain) THEN Null ELSE chain[(i + 1) + 1]
      BY <3>1, <1>n
    <3>3. i # Len(chain') => chain'[i + 1] = chain[(i + 1) + 1]
      BY <1>1, <1>2
    <3> QED BY <3>2, <3>3, <1>1, <1>2
  <2>4. \A i, j \in 1..Len(chain') : chain'[i] = chain'[j] => i = j
    BY <1>1, <1>2 DEF IInv, ListInv
  <2> QED BY <2>1, <2>2, <2>3, <2>4 DEF ListInv
<1>6. MemoryInv'
  <2>1. items' = {chain'[i] : i \in 1..Len(chain')}
    <3>1. \A x \in items' : \E i \in 1..Len(chain') : x = chain'[i]
      <4> SUFFICES ASSUME NEW x \in items'
                   PROVE  \E i \in 1..Len(chain') : x = chain'[i]
        OBVIOUS
      <4>1. PICK j \in 1..Len(chain) : x = chain[j]
        BY DEF Unlink, IInv, MemoryInv
      <4>2. j # 1
        BY <4>1, <1>1 DEF Unlink
      <4>3. j - 1 \in 1..Len(chain') /\ x = chain'[j - 1]
        BY <4>1, <4>2, <1>1, <1>2
      <4> QED BY <4>3
    <3>2. \A i \in 1..Len(chain') : chain'[i] \in items'
      <4> SUFFICES ASSUME NEW i \in 1..Len(chain')
                   PROVE  chain[i + 1] \in items \ {chain[1]}
        BY <1>1, <1>2 DEF Unlink
      <4>1. i + 1 \in 1..Len(chain) /\ 1 \in 1..Len(chain) /\ i + 1 # 1
        BY <1>1, <1>2
      <4> QED BY <4>1, <1>d DEF IInv, MemoryInv
    <3> QED BY <3>1, <3>2
  <2>2. \A i, j \in 1..Len(chain') :
          heap'[chain'[i]].orig = heap'[chain'[j]].orig => i = j
    BY <1>1, <1>2 DEF Unlink, IInv, MemoryInv
  <2>3. {c \in Copy : mem'[c] # Freed} = {heap'[chain'[i]].orig : i \in 1..Len(chain')}
    <3>1. \A c \in Copy : mem'[c] # Freed <=> (mem[c] # Freed /\ c # heap[chain[1]].orig)
      BY <1>1 DEF Unlink, IInv, TypeOK
    <3>2. \A c \in Copy : mem[c] # Freed <=> \E i \in 1..Len(chain) : c = heap[chain[i]].orig
      BY DEF IInv, MemoryInv
    <3>3. \A i \in 1..Len(chain) : heap[chain[i]].orig = heap[chain[1]].orig => i = 1
      BY <1>1 DEF IInv, MemoryInv
    <3>4. ASSUME NEW c \in Copy, mem'[c] # Freed
          PROVE  \E i \in 1..Len(chain') : c = heap'[chain'[i]].orig
      <4>1. PICK j \in 1..Len(chain) : c = heap[chain[j]].orig
        BY <3>1, <3>2, <3>4
      <4>2. j # 1
        BY <4>1, <3>1, <3>4
      <4>3. j - 1 \in 1..Len(chain') /\ c = heap'[chain'[j - 1]].orig
        BY <4>1, <4>2, <1>1, <1>2 DEF Unlink
      <4> QED BY <4>3
    <3>5. ASSUME NEW i \in 1..Len(chain')
          PROVE  heap'[chain'[i]].orig \in Copy /\ mem'[heap'[chain'[i]].orig] # Freed
      <4>1. i + 1 \in 1..Len(chain) /\ i + 1 # 1 /\ chain'[i] = chain[i + 1] /\ heap' = heap
        BY <1>1, <1>2 DEF Unlink
      <4>2. heap[chain[i + 1]].orig \in Copy
        BY <4>1, <1>3 DEF IInv, TypeOK, Item
      <4> QED BY <4>1, <4>2, <3>1, <3>2, <3>3
    <3> QED BY <3>4, <3>5
  <2> QED BY <2>1, <2>2, <2>3 DEF MemoryInv
<1>7. SizeInv'
  BY <1>1, <1>2 DEF Unlink, IInv, SizeInv
<1> QED BY <1>4, <1>5, <1>6, <1>7 DEF IInv

\* A block queued behind the others: the list grows by a fresh item that owns
\* a fresh copy.
LEMMA PushIInv ==
  ASSUME IInv, NEW v \in Payload, NEW n \in 1..MaxSize, push(v, n)
  PROVE  IInv'
<1> USE NullAssumption, FreedAssumption, SizeAssumption
<1>1. PICK c \in Copy, x \in Node \ items :
        /\ mem[c] = Freed
        /\ mem' = [mem EXCEPT ![c] = v]
        /\ items' = items \cup {x}
        /\ Link(x, NewItem(c, n))
        /\ chain' = Append(chain, x)
  BY DEF push
<1>2. /\ Len(chain) \in Nat
      /\ chain' \in Seq(Node)
      /\ Len(chain') = Len(chain) + 1
      /\ \A i \in 1..Len(chain) : chain'[i] = chain[i]
      /\ chain'[Len(chain) + 1] = x
  BY <1>1 DEF IInv, TypeOK
<1>3. \A i \in 1..Len(chain) : chain[i] \in Node /\ chain[i] # x
  BY <1>1 DEF IInv, TypeOK, MemoryInv
<1>4. \A i \in 1..Len(chain') : i \in 1..Len(chain) \/ i = Len(chain) + 1
  BY <1>2
<1>5. /\ chain = <<>> <=> Len(chain) = 0
      /\ chain' # <<>>
      /\ last = IF Len(chain) = 0 THEN Null ELSE chain[Len(chain)]
  BY <1>2 DEF IInv, TypeOK, ListInv
<1>6. /\ heap' \in [Node -> Item]
      /\ heap'[x] = NewItem(c, n)
      /\ \A y \in Node : y # x =>
           heap'[y] = IF y = last THEN [heap[y] EXCEPT !.next = x] ELSE heap[y]
  <2>1. NewItem(c, n) \in Item
    BY DEF NewItem, Item, Pointer
  <2>2. \A y \in Node : [heap[y] EXCEPT !.next = x] \in Item
    BY DEF IInv, TypeOK, Item, Pointer
  <2> QED BY <2>1, <2>2, <1>1 DEF Link, IInv, TypeOK
<1>7. \A i \in 1..Len(chain) : /\ heap'[chain[i]].orig = heap[chain[i]].orig
                              /\ heap'[chain[i]].size = heap[chain[i]].size
                              /\ heap'[chain[i]].data = heap[chain[i]].data
  <2>1. ASSUME NEW y \in Node, y # x
        PROVE  /\ heap'[y].orig = heap[y].orig
               /\ heap'[y].size = heap[y].size
               /\ heap'[y].data = heap[y].data
    <3>1. heap[y] \in Item
      BY DEF IInv, TypeOK
    <3> QED
      BY <1>6, <2>1, <3>1 DEF Item
  <2> QED
    BY <1>3, <2>1 DEF IInv, TypeOK
<1>8. TypeOK'
  BY <1>1, <1>2, <1>6 DEF IInv, TypeOK, push, Link, Pointer
<1>9. ListInv'
  <2>1. head' = chain'[1] /\ last' = chain'[Len(chain')]
    <3>1. CASE Len(chain) = 0
      BY <3>1, <1>1, <1>2, <1>5 DEF Link
    <3>2. CASE Len(chain) # 0
      <4>1. 1 \in 1..Len(chain) /\ Len(chain) \in 1..Len(chain)
        BY <3>2, <1>2
      <4>2. last # Null /\ head = chain[1]
        BY <4>1, <3>2, <1>5, <1>3 DEF IInv, ListInv
      <4> QED BY <4>1, <4>2, <1>1, <1>2 DEF Link
    <3> QED BY <3>1, <3>2
  <2>2. ASSUME NEW i \in 1..Len(chain')
        PROVE  heap'[chain'[i]].next = IF i = Len(chain') THEN Null ELSE chain'[i + 1]
    <3>1. CASE i = Len(chain) + 1
      BY <3>1, <1>2, <1>6 DEF NewItem
    <3>2. CASE i \in 1..Len(chain) /\ i = Len(chain)
      <4>1. chain'[i] = last /\ last # x /\ last \in Node
        BY <3>2, <1>2, <1>3, <1>5
      <4>2. heap'[last].next = x
        BY <4>1, <1>6 DEF IInv, TypeOK, Item
      <4> QED BY <3>2, <4>1, <4>2, <1>2
    <3>3. CASE i \in 1..Len(chain) /\ i # Len(chain)
      <4>1. i + 1 \in 1..Len(chain) /\ Len(chain) \in 1..Len(chain)
        BY <3>3, <1>2
      <4>2. chain[i] # last
        BY <3>3, <4>1, <1>5, <1>2 DEF IInv, ListInv
      <4>3. heap[chain[i]].next = chain[i + 1]
        BY <3>3 DEF IInv, ListInv
      <4> QED BY <3>3, <4>1, <4>2, <4>3, <1>2, <1>3, <1>6
    <3> QED BY <3>1, <3>2, <3>3, <1>4
  <2>3. \A i, j \in 1..Len(chain') : chain'[i] = chain'[j] => i = j
    BY <1>2, <1>3, <1>4 DEF IInv, ListInv
  <2> QED BY <2>1, <2>2, <2>3, <1>5 DEF ListInv
<1>10. \A i \in 1..Len(chain) : heap[chain[i]].orig # c /\ heap[chain[i]].orig \in Copy
  BY <1>1, <1>3 DEF IInv, TypeOK, Item, MemoryInv
<1>11. /\ \A i \in 1..Len(chain) : heap'[chain'[i]].orig = heap[chain[i]].orig
       /\ heap'[chain'[Len(chain) + 1]].orig = c
  BY <1>2, <1>6, <1>7 DEF NewItem
<1>12. MemoryInv'
  <2>1. items' = {chain'[i] : i \in 1..Len(chain')}
    <3>1. \A y \in items' : \E i \in 1..Len(chain') : y = chain'[i]
      <4>1. Len(chain) + 1 \in 1..Len(chain')
        BY <1>2
      <4>2. \A i \in 1..Len(chain) : i \in 1..Len(chain')
        BY <1>2
      <4> QED BY <4>1, <4>2, <1>1, <1>2 DEF IInv, MemoryInv
    <3>2. \A i \in 1..Len(chain') : chain'[i] \in items'
      BY <1>1, <1>2, <1>4 DEF IInv, MemoryInv
    <3> QED BY <3>1, <3>2
  <2>2. \A i, j \in 1..Len(chain') :
          heap'[chain'[i]].orig = heap'[chain'[j]].orig => i = j
    BY <1>4, <1>10, <1>11 DEF IInv, MemoryInv
  <2>3. {d \in Copy : mem'[d] # Freed} = {heap'[chain'[i]].orig : i \in 1..Len(chain')}
    <3>1. \A d \in Copy : mem'[d] # Freed <=> (mem[d] # Freed \/ d = c)
      BY <1>1 DEF IInv, TypeOK
    <3>2. \A d \in Copy : mem[d] # Freed <=> \E i \in 1..Len(chain) : d = heap[chain[i]].orig
      BY DEF IInv, MemoryInv
    <3>3. ASSUME NEW d \in Copy, mem'[d] # Freed
          PROVE  \E i \in 1..Len(chain') : d = heap'[chain'[i]].orig
      <4>1. CASE d = c
        BY <4>1, <1>2, <1>11
      <4>2. CASE d # c
        <5>1. PICK i \in 1..Len(chain) : d = heap[chain[i]].orig
          BY <4>2, <3>1, <3>2, <3>3
        <5>2. i \in 1..Len(chain')
          BY <1>2
        <5> QED BY <5>1, <5>2, <1>11
      <4> QED BY <4>1, <4>2
    <3>4. ASSUME NEW i \in 1..Len(chain')
          PROVE  heap'[chain'[i]].orig \in Copy /\ mem'[heap'[chain'[i]].orig] # Freed
      BY <3>1, <3>2, <1>4, <1>10, <1>11
    <3> QED BY <3>3, <3>4
  <2> QED BY <2>1, <2>2, <2>3 DEF MemoryInv
<1>13. SizeInv'
  <2> SUFFICES ASSUME NEW i \in 1..Len(chain')
               PROVE  heap'[chain'[i]].size > 0
    BY DEF SizeInv
  <2>1. CASE i = Len(chain) + 1
    BY <2>1, <1>2, <1>6 DEF NewItem
  <2>2. CASE i \in 1..Len(chain)
    BY <2>2, <1>2, <1>7 DEF IInv, SizeInv
  <2> QED BY <2>1, <2>2, <1>4
<1> QED BY <1>8, <1>9, <1>12, <1>13 DEF IInv

\* Sending a proper part of the first item leaves a nonempty rest of it.
LEMMA AdvanceIInv ==
  ASSUME IInv, NEW k \in 1..MaxSize, advance(k)
  PROVE  IInv'
<1> USE NullAssumption, SizeAssumption
<1>1. head \in Node /\ k \in Nat /\ heap[head].size - k \in Nat /\ heap[head].size - k > 0
  BY DEF advance, IInv, TypeOK, Item, Pointer
<1>2. /\ heap' \in [Node -> Item]
      /\ \A y \in Node : /\ heap'[y].orig = heap[y].orig
                          /\ heap'[y].next = heap[y].next
                          /\ heap'[y].size = IF y = head THEN heap[y].size - k ELSE heap[y].size
  BY <1>1 DEF advance, IInv, TypeOK, Item
<1>3. Len(chain) \in Nat /\ \A i \in 1..Len(chain) : chain[i] \in Node
  BY DEF IInv, TypeOK
<1>4. UNCHANGED <<head, last, items, mem, freeing, chain>>
  BY DEF advance
<1>5. TypeOK'
  BY <1>2, <1>4 DEF IInv, TypeOK
<1>6. ListInv'
  BY <1>2, <1>3, <1>4 DEF IInv, ListInv
<1>7. MemoryInv'
  BY <1>2, <1>3, <1>4 DEF IInv, MemoryInv
<1>8. SizeInv'
  BY <1>1, <1>2, <1>3, <1>4 DEF IInv, SizeInv
<1> QED BY <1>5, <1>6, <1>7, <1>8 DEF IInv

\* Entering and leaving es_write_buffer_free touches no memory.
LEMMA FrameIInv ==
  ASSUME IInv, freeing' \in BOOLEAN, UNCHANGED <<head, last, heap, items, mem, chain>>
  PROVE  IInv'
<1>1. TypeOK'
  BY DEF IInv, TypeOK
<1>2. ListInv'
  BY DEF IInv, ListInv
<1>3. MemoryInv'
  BY DEF IInv, MemoryInv
<1>4. SizeInv'
  BY DEF IInv, SizeInv
<1> QED BY <1>1, <1>2, <1>3, <1>4 DEF IInv

\* Every operation keeps the list well formed.
LEMMA NextIInv == IInv /\ [Next]_vars => IInv'
<1> SUFFICES ASSUME IInv, [Next]_vars PROVE IInv'
  OBVIOUS
<1>1. CASE \E v \in Payload, n \in 1..MaxSize : push(v, n)
  BY <1>1, PushIInv
<1>2. CASE pop
  BY <1>2, UnlinkIInv DEF pop, IInv, TypeOK
<1>3. CASE \E k \in 1..MaxSize : advance(k)
  BY <1>3, AdvanceIInv
<1>4. CASE free
  BY <1>4, FrameIInv DEF free
<1>5. CASE free_loop
  BY <1>5, UnlinkIInv DEF free_loop, IInv, TypeOK
<1>6. CASE free_exit
  BY <1>6, FrameIInv DEF free_exit
<1>7. CASE UNCHANGED vars
  BY <1>7, FrameIInv DEF vars, IInv, TypeOK
<1> QED BY <1>1, <1>2, <1>3, <1>4, <1>5, <1>6, <1>7 DEF Next

\* The inductive invariant of the write buffer holds in every reachable state.
THEOREM BufferIInv == Spec => []IInv
  BY InitIInv, NextIInv, PTL DEF Spec

\* es_write_buffer_push, _pop and _free keep every field in its type.
THEOREM BufferTypeOK == Spec => []TypeOK
<1>1. IInv => TypeOK
  BY DEF IInv
<1> QED BY <1>1, BufferIInv, PTL

\* write_buffer.h: "head and last are both NULL or both not NULL", also in the
\* middle of es_write_buffer_free.
THEOREM BufferHeadLast == Spec => []HeadLastInv
<1>1. IInv => HeadLastInv
  <2> SUFFICES ASSUME IInv, chain # <<>>
               PROVE  chain[1] # Null /\ chain[Len(chain)] # Null
    BY DEF IInv, ListInv, HeadLastInv
  <2>1. Len(chain) \in Nat \ {0}
    BY DEF IInv, TypeOK
  <2>2. chain[1] \in Node /\ chain[Len(chain)] \in Node
    BY <2>1 DEF IInv, TypeOK
  <2> QED BY <2>2, NullAssumption
<1> QED BY <1>1, BufferIInv, PTL

\* No operation leaks or frees twice: the allocated items and copies are the
\* ones on the list.
THEOREM BufferMemory == Spec => []MemoryInv
<1>1. IInv => MemoryInv
  BY DEF IInv
<1> QED BY <1>1, BufferIInv, PTL

\* Whatever is pushed, popped and freed, the list from head is acyclic, ends at
\* last and holds the pushed items in order.
THEOREM BufferList == Spec => []ListInv
<1>1. IInv => ListInv
  BY DEF IInv
<1> QED BY <1>1, BufferIInv, PTL

\* No item of size zero is ever queued, also after a partial write of the worker.
THEOREM BufferSizes == Spec => []SizeInv
<1>1. IInv => SizeInv
  BY DEF IInv
<1> QED BY <1>1, BufferIInv, PTL

-----------------------------------------------------------------------------
(* Refinement *)

BlockSet == [val : Payload, data : Nat, size : Nat]

BlockFacts ==
  /\ Len(chain) \in Nat
  /\ Blocks \in Seq(BlockSet)
  /\ Len(Blocks) = Len(chain)
  /\ \A i \in 1..Len(chain) : Blocks[i] = Block(chain[i])

\* The blocks on the list are a sequence, one block for every item.
LEMMA BlocksSeq == IInv => BlockFacts
<1> SUFFICES ASSUME IInv PROVE BlockFacts
  OBVIOUS
<1>1. Len(chain) \in Nat
  BY DEF IInv, TypeOK
<1>2. ASSUME NEW i \in 1..Len(chain)
      PROVE  Block(chain[i]) \in BlockSet
  <2>1. chain[i] \in Node /\ heap[chain[i]] \in Item
    BY DEF IInv, TypeOK
  <2>2. mem[heap[chain[i]].orig] \in Payload
    BY <2>1 DEF IInv, TypeOK, MemoryInv, Item
  <2> QED BY <2>1, <2>2 DEF Block, Item, BlockSet
<1> QED BY <1>1, <1>2 DEF Blocks, BlockFacts

\* Unlinking the first item is a Pop of the queue.
LEMMA UnlinkPop ==
  ASSUME IInv, IInv', Unlink
  PROVE  Blocks # <<>> /\ Blocks' = Tail(Blocks)
<1>1. chain # <<>> /\ Len(chain) \in Nat /\ Len(chain) > 0
  BY DEF Unlink, IInv, TypeOK, ListInv
<1>2. /\ Blocks \in Seq(BlockSet) /\ Len(Blocks) = Len(chain)
      /\ \A i \in 1..Len(chain) : Blocks[i] = Block(chain[i])
  BY BlocksSeq DEF BlockFacts
<1>3. /\ Blocks' \in Seq(BlockSet) /\ Len(Blocks') = Len(chain')
      /\ \A i \in 1..Len(chain') : Blocks'[i] = Block(chain[i])'
  <2>1. BlockFacts'
    BY BlocksSeq, PTL
  <2> QED BY <2>1 DEF BlockFacts
<1>4. Blocks # <<>>
  BY <1>1, <1>2
<1>5. /\ Tail(Blocks) \in Seq(BlockSet) /\ Len(Tail(Blocks)) = Len(chain) - 1
      /\ \A i \in 1..(Len(chain) - 1) : Tail(Blocks)[i] = Blocks[i + 1]
  BY <1>2, <1>4, HeadTailProperties
<1>6. /\ Len(chain') = Len(chain) - 1
      /\ \A i \in 1..Len(chain') : chain'[i] = chain[i + 1]
  BY <1>1 DEF Unlink, IInv, TypeOK
<1>7. ASSUME NEW i \in 1..Len(chain')
      PROVE  Blocks'[i] = Tail(Blocks)[i]
  <2>1. i + 1 \in 1..Len(chain) /\ i + 1 # 1 /\ 1 \in 1..Len(chain)
    BY <1>1, <1>6
  <2>2. heap[chain[i + 1]].orig # heap[chain[1]].orig
    BY <2>1 DEF IInv, MemoryInv
  <2>3. heap[chain[i + 1]].orig \in Copy
    <3>1. chain[i + 1] \in Node
      BY <2>1 DEF IInv, TypeOK
    <3> QED BY <3>1 DEF IInv, TypeOK, Item
  <2>4. mem'[heap[chain[i + 1]].orig] = mem[heap[chain[i + 1]].orig]
    BY <1>1, <2>2, <2>3 DEF Unlink, IInv, TypeOK, ListInv
  <2>5. Block(chain[i])' = Block(chain[i + 1])
    BY <1>6, <2>4 DEF Block, Unlink
  <2> QED BY <1>2, <1>3, <1>5, <1>6, <2>1, <2>5
<1> QED BY <1>3, <1>4, <1>5, <1>6, <1>7, SeqEqual

\* es_write_buffer_push is a Push of the queue.
LEMMA PushPush ==
  ASSUME IInv, IInv', NEW v \in Payload, NEW n \in 1..MaxSize, push(v, n)
  PROVE  Blocks' = Append(Blocks, [val |-> v, data |-> 0, size |-> n])
<1> USE SizeAssumption
<1>1. PICK c \in Copy, x \in Node \ items :
        /\ mem[c] = Freed
        /\ mem' = [mem EXCEPT ![c] = v]
        /\ Link(x, NewItem(c, n))
        /\ chain' = Append(chain, x)
  BY DEF push
<1> DEFINE b == [val |-> v, data |-> 0, size |-> n]
<1>2. /\ Blocks \in Seq(BlockSet) /\ Len(Blocks) = Len(chain) /\ Len(chain) \in Nat
      /\ \A i \in 1..Len(chain) : Blocks[i] = Block(chain[i])
  BY BlocksSeq DEF BlockFacts
<1>3. /\ Blocks' \in Seq(BlockSet) /\ Len(Blocks') = Len(chain')
      /\ \A i \in 1..Len(chain') : Blocks'[i] = Block(chain[i])'
  <2>1. BlockFacts'
    BY BlocksSeq, PTL
  <2> QED BY <2>1 DEF BlockFacts
<1>4. /\ Len(chain') = Len(chain) + 1
      /\ \A i \in 1..Len(chain) : chain'[i] = chain[i]
      /\ chain'[Len(chain) + 1] = x
  BY <1>1 DEF IInv, TypeOK
<1>5. b \in BlockSet
  BY DEF BlockSet
<1>6. /\ Append(Blocks, b) \in Seq(BlockSet) /\ Len(Append(Blocks, b)) = Len(chain) + 1
      /\ \A i \in 1..Len(chain) : Append(Blocks, b)[i] = Blocks[i]
      /\ Append(Blocks, b)[Len(chain) + 1] = b
  BY <1>2, <1>5, AppendProperties
<1>7. ASSUME NEW i \in 1..Len(chain')
      PROVE  Blocks'[i] = Append(Blocks, b)[i]
  <2>1. CASE i = Len(chain) + 1
    <3>1. heap'[x] = NewItem(c, n) /\ mem'[c] = v
      BY <1>1 DEF Link, IInv, TypeOK
    <3> QED BY <2>1, <3>1, <1>3, <1>4, <1>6 DEF Block, NewItem
  <2>2. CASE i \in 1..Len(chain)
    <3>1. chain[i] \in Node /\ chain[i] # x
      BY <2>2, <1>1 DEF IInv, TypeOK, MemoryInv
    <3>2. /\ heap'[chain[i]].orig = heap[chain[i]].orig
          /\ heap'[chain[i]].data = heap[chain[i]].data
          /\ heap'[chain[i]].size = heap[chain[i]].size
      BY <3>1, <1>1 DEF Link, IInv, TypeOK, Item
    <3>3. heap[chain[i]].orig \in Copy /\ heap[chain[i]].orig # c
      <4>1. heap[chain[i]] \in Item
        BY <3>1 DEF IInv, TypeOK
      <4>2. heap[chain[i]].orig \in Copy
        BY <4>1 DEF Item
      <4>3. heap[chain[i]].orig # c
        BY <2>2, <3>1, <1>1 DEF IInv, MemoryInv
      <4> QED BY <4>2, <4>3
    <3>4. Block(chain[i])' = Block(chain[i])
      <4>1. mem'[heap[chain[i]].orig] = mem[heap[chain[i]].orig]
        BY <3>3, <1>1 DEF IInv, TypeOK
      <4>2. mem'[heap'[chain[i]].orig] = mem[heap[chain[i]].orig]
        BY <3>2, <4>1
      <4> QED
        BY <3>2, <4>2, <1>4, <2>2 DEF Block
    <3> QED BY <3>4, <2>2, <1>2, <1>3, <1>6
  <2> QED BY <2>1, <2>2, <1>2, <1>4
<1> QED BY <1>3, <1>4, <1>6, <1>7, SeqEqual

\* The worker's update of size and data is an Advance of the queue.
LEMMA AdvanceAdvance ==
  ASSUME IInv, IInv', NEW k \in 1..MaxSize, advance(k)
  PROVE  /\ Blocks # <<>>
         /\ k \in 1..(Blocks[1].size - 1)
         /\ Blocks' = [Blocks EXCEPT ![1] =
                          [val |-> @.val, data |-> @.data + k, size |-> @.size - k]]
<1> USE SizeAssumption
<1>1. chain # <<>> /\ Len(chain) \in Nat /\ 1 \in 1..Len(chain) /\ head = chain[1]
  BY DEF advance, IInv, TypeOK, ListInv
<1>2. /\ Blocks \in Seq(BlockSet) /\ Len(Blocks) = Len(chain)
      /\ \A i \in 1..Len(chain) : Blocks[i] = Block(chain[i])
  BY BlocksSeq DEF BlockFacts
<1>3. /\ Blocks' \in Seq(BlockSet) /\ Len(Blocks') = Len(chain')
      /\ \A i \in 1..Len(chain') : Blocks'[i] = Block(chain[i])'
  <2>1. BlockFacts'
    BY BlocksSeq, PTL
  <2> QED BY <2>1 DEF BlockFacts
<1>4. Blocks # <<>> /\ Blocks[1] \in BlockSet
  BY <1>1, <1>2
<1>5. Blocks[1].size = heap[head].size /\ k \in 1..(Blocks[1].size - 1)
  <2>1. Blocks[1] = Block(head) /\ Blocks[1].size \in Nat
    BY <1>1, <1>2, <1>4 DEF BlockSet
  <2>2. Blocks[1].size = heap[head].size
    BY <2>1 DEF Block
  <2> QED BY <2>1, <2>2 DEF advance
<1> DEFINE e == [val |-> Blocks[1].val, data |-> Blocks[1].data + k, size |-> Blocks[1].size - k]
<1>6. e \in BlockSet
  <2>1. /\ Blocks[1].val \in Payload /\ Blocks[1].data \in Nat
        /\ Blocks[1].size \in Nat /\ Blocks[1].size - k \in Nat
    BY <1>4, <1>5 DEF BlockSet
  <2> QED BY <2>1 DEF BlockSet
<1>7. /\ [Blocks EXCEPT ![1] = e] \in Seq(BlockSet)
      /\ Len([Blocks EXCEPT ![1] = e]) = Len(chain)
      /\ \A j \in 1..Len(chain) : [Blocks EXCEPT ![1] = e][j] = IF j = 1 THEN e ELSE Blocks[j]
  BY <1>1, <1>2, <1>6, ExceptSeq
<1>8. chain' = chain /\ mem' = mem
  BY DEF advance
<1>9. ASSUME NEW i \in 1..Len(chain')
      PROVE  Blocks'[i] = [Blocks EXCEPT ![1] = e][i]
  <2>1. chain[i] \in Node /\ i \in 1..Len(chain) /\ head \in Node
    BY <1>1, <1>8 DEF IInv, TypeOK
  <2>2. i # 1 => chain[i] # head
    BY <1>1, <2>1 DEF IInv, ListInv
  <2>3. CASE i = 1
    <3>1. /\ heap'[head].orig = heap[head].orig
          /\ heap'[head].data = heap[head].data + k
          /\ heap'[head].size = heap[head].size - k
      <4>1. heap[head] \in Item /\ heap \in [Node -> Item]
        BY <2>1 DEF IInv, TypeOK
      <4>2. heap'[head] = [[heap[head] EXCEPT !.size = @ - k] EXCEPT !.data = @ + k]
        BY <2>1, <4>1 DEF advance
      <4> QED BY <4>1, <4>2 DEF Item
    <3>2. Blocks[1] = Block(head) /\ Blocks'[1] = Block(head)'
      BY <2>1, <2>3, <1>1, <1>2, <1>3, <1>8 DEF advance
    <3>3. Blocks'[1] = e
      BY <3>1, <3>2, <1>8 DEF Block, advance
    <3> QED BY <3>3, <2>1, <2>3, <1>7
  <2>4. CASE i # 1
    <3>1. heap'[chain[i]] = heap[chain[i]]
      BY <2>1, <2>2, <2>4 DEF advance, IInv, TypeOK
    <3>2. Block(chain[i])' = Block(chain[i])
      BY <3>1, <1>8 DEF Block
    <3>3. Blocks'[i] = Blocks[i]
      BY <3>2, <2>1, <1>2, <1>3, <1>8
    <3> QED BY <3>3, <2>1, <2>4, <1>7
  <2> QED BY <2>3, <2>4
<1>10. Blocks' = [Blocks EXCEPT ![1] = e]
  BY <1>3, <1>7, <1>8, <1>9, SeqEqual
<1> QED BY <1>4, <1>5, <1>10

\* The write buffer implements the first-in first-out queue: blocks leave it in
\* the order in which the RTS threads queued them, with their own payload.
THEOREM BufferImplementsFifo == Spec => ImplementsFifo
<1>2. Init => Abstract!Init
  <2> SUFFICES ASSUME Init PROVE Blocks = <<>>
    BY DEF Abstract!Init
  <2>1. IInv /\ chain = <<>>
    BY InitIInv DEF Init
  <2> QED BY <2>1, BlocksSeq DEF BlockFacts
<1>3. IInv /\ IInv' /\ [Next]_vars => [Abstract!Next]_Blocks
  <2> SUFFICES ASSUME IInv, IInv', [Next]_vars
               PROVE  Abstract!Next \/ Blocks' = Blocks
    OBVIOUS
  <2>1. ASSUME NEW v \in Payload, NEW n \in 1..MaxSize, push(v, n)
        PROVE  Abstract!Push
    BY <2>1, PushPush DEF Abstract!Push
  <2>2. ASSUME Unlink PROVE Abstract!Pop
    BY <2>2, UnlinkPop DEF Abstract!Pop
  <2>3. ASSUME NEW k \in 1..MaxSize, advance(k)
        PROVE  Abstract!Advance
    BY <2>3, AdvanceAdvance DEF Abstract!Advance
  <2>4. ASSUME free \/ free_exit \/ UNCHANGED vars PROVE Blocks' = Blocks
    BY <2>4 DEF free, free_exit, vars, Blocks, Block
  <2> QED BY <2>1, <2>2, <2>3, <2>4 DEF Next, pop, free_loop, Abstract!Next
<1>4. [][Next]_vars /\ []IInv => [][Abstract!Next]_Blocks
  BY <1>3, PTL
<1> QED BY <1>2, <1>4, BufferIInv, PTL DEF Spec, ImplementsFifo, Abstract!Spec

\* A step of the loop in es_write_buffer_free, or its end.
FreeStep ==
  freeing =>
    \/ freeing' /\ Len(chain) > 0 /\ Len(chain') = Len(chain) - 1
    \/ ~freeing' /\ head = Null /\ last = Null /\ items = {} /\ \A c \in Copy : mem[c] = Freed

\* Each iteration of es_write_buffer_free removes an item, and the loop ends only when
\* the list is empty and every item and every copy is freed: it makes as many iterations
\* as there were items.
THEOREM BufferFreeShrinks == Spec => [][FreeStep]_vars
<1>1. ASSUME IInv, Next, freeing
      PROVE  FreeStep
  <2>1. free_loop \/ free_exit
    BY <1>1 DEF Next, push, pop, advance, free
  <2>2. CASE free_loop
    <3>1. chain # <<>>
      BY <1>1, <2>2 DEF IInv, ListInv, free_loop, Unlink
    <3>2. Len(chain) \in Nat /\ Len(chain) > 0 /\ Len(Tail(chain)) = Len(chain) - 1
      BY <1>1, <3>1 DEF IInv, TypeOK
    <3> QED
      BY <1>1, <2>2, <3>2 DEF FreeStep, free_loop, Unlink
  <2>3. CASE free_exit
    <3>1. chain = <<>>
      <4>1. chain # <<>> => chain[1] \in Node
        BY <1>1 DEF IInv, TypeOK
      <4> QED
        BY <1>1, <2>3, <4>1, NullAssumption DEF IInv, ListInv, free_exit
    <3>2. 1..Len(chain) = {}
      BY <3>1
    <3>3. items = {} /\ last = Null /\ head = Null
      BY <1>1, <3>1, <3>2 DEF IInv, ListInv, MemoryInv
    <3>4. {c \in Copy : mem[c] # Freed} = {}
      BY <1>1, <3>2 DEF IInv, MemoryInv
    <3>5. \A c \in Copy : mem[c] = Freed
      BY <3>4
    <3> QED
      BY <2>3, <3>3, <3>5 DEF FreeStep, free_exit
  <2> QED
    BY <2>1, <2>2, <2>3
<1>2. IInv /\ [Next]_vars => [FreeStep]_vars
  BY <1>1 DEF FreeStep
<1> QED
  BY <1>2, BufferIInv, PTL DEF Spec
=============================================================================
