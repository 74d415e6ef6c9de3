---------------------------- MODULE WriteBuffer ----------------------------
(***************************************************************************)
(* The write buffer (write_buffer.c): a singly linked list of heap items,  *)
(* each owning a heap copy of the block it stands for.  Pointers are       *)
(* modelled as such: an item or a copy that was freed may be handed out    *)
(* again by the next malloc, so a dangling pointer is visible as a wrong   *)
(* block.  All operations run under g_mutex; es_write_buffer_free is a     *)
(* loop of pops and is modelled one pop at a time, so that the invariants  *)
(* are examined inside the loop too.                                       *)
(***************************************************************************)
EXTENDS Naturals, Sequences

CONSTANTS Node,     \* addresses malloc may return for a WriteBufferItem
          Copy,     \* addresses malloc may return for the copy of a block
          Payload,  \* the contents of a block
          Null,     \* the null pointer
          Freed,    \* what a copy that is not allocated holds
          MaxSize   \* bound on the size of a block

ASSUME NullAssumption  == Null \notin Node
ASSUME FreedAssumption == Freed \notin Payload
ASSUME SizeAssumption  == MaxSize \in Nat \ {0}

VARIABLES
  head, last,  \* struct WriteBuffer
  heap,        \* the contents of every item, stale ones included
  items,       \* the items that are allocated
  mem,         \* the contents of every copy, Freed when not allocated
  freeing,     \* es_write_buffer_free is in its loop
  chain        \* auxiliary: the items in the order they were pushed

vars == <<head, last, heap, items, mem, freeing, chain>>

Pointer == Node \cup {Null}

Item == [orig : Copy, data : Nat, size : Nat, next : Pointer]

\* Memory starts with no item and no copy; a stale item's fields are arbitrary.
Init ==
  /\ head = Null /\ last = Null
  /\ heap \in [Node -> {[orig |-> c, data |-> 0, size |-> 0, next |-> Null] : c \in Copy}]
  /\ items = {}
  /\ mem = [c \in Copy |-> Freed]
  /\ freeing = FALSE
  /\ chain = <<>>

-----------------------------------------------------------------------------
(* Operations *)

\* The fields of a new item: orig and data both point at the copy.
NewItem(c, n) == [orig |-> c, data |-> 0, size |-> n, next |-> Null]

\* Variant: the item that was last does not get its next pointer.
Link_NoNext(x, item) ==
  /\ heap' = [heap EXCEPT ![x] = item]
  /\ head' = IF last = Null THEN x ELSE head
  /\ last' = x

\* Linking the new item x behind last, or as the only item.
Link(x, item) ==
  /\ heap' = [y \in Node |->
                IF y = x THEN item
                ELSE IF y = last THEN [heap[y] EXCEPT !.next = x] ELSE heap[y]]
  /\ head' = IF last = Null THEN x ELSE head
  /\ last' = x

push(v, n) ==
  /\ ~freeing
  /\ \E c \in Copy, x \in Node \ items :
       /\ mem[c] = Freed
       /\ mem' = [mem EXCEPT ![c] = v]
       /\ items' = items \cup {x}
       /\ Link(x, NewItem(c, n))
       /\ chain' = Append(chain, x)
  /\ UNCHANGED freeing

\* Variant: the copy of the block is not freed.
Unlink_Leak ==
  /\ head # Null
  /\ head' = heap[head].next
  /\ last' = IF last = head THEN Null ELSE last
  /\ items' = items \ {head}
  /\ chain' = Tail(chain)
  /\ UNCHANGED <<mem, heap>>

\* es_write_buffer_pop on a list that is not empty; on an empty list it
\* returns at once.
Unlink ==
  /\ head # Null
  /\ head' = heap[head].next
  /\ last' = IF last = head THEN Null ELSE last
  /\ mem' = [mem EXCEPT ![heap[head].orig] = Freed]
  /\ items' = items \ {head}
  /\ chain' = Tail(chain)
  /\ UNCHANGED heap

pop == ~freeing /\ Unlink /\ UNCHANGED freeing

\* Variant: data is not advanced.
advance_KeepData(k) ==
  /\ ~freeing
  /\ head # Null
  /\ k < heap[head].size
  /\ heap' = [heap EXCEPT ![head].size = @ - k]
  /\ UNCHANGED <<head, last, items, mem, freeing, chain>>

\* The worker sent k bytes of the first item, and not all of them.
advance(k) ==
  /\ ~freeing
  /\ head # Null
  /\ k < heap[head].size
  /\ heap' = [heap EXCEPT ![head].size = @ - k, ![head].data = @ + k]
  /\ UNCHANGED <<head, last, items, mem, freeing, chain>>

free ==
  /\ ~freeing
  /\ freeing' = TRUE
  /\ UNCHANGED <<head, last, heap, items, mem, chain>>

\* Variant: the loop tests head but pops nothing.
free_loop_NoPop == freeing /\ head # Null /\ UNCHANGED vars

free_loop == freeing /\ Unlink /\ UNCHANGED freeing

free_exit ==
  /\ freeing /\ head = Null
  /\ freeing' = FALSE
  /\ UNCHANGED <<head, last, heap, items, mem, chain>>

Next ==
  \/ \E v \in Payload, n \in 1..MaxSize : push(v, n)
  \/ pop
  \/ \E k \in 1..MaxSize : advance(k)
  \/ free
  \/ free_loop
  \/ free_exit

Spec == Init /\ [][Next]_vars /\ WF_vars(free_loop) /\ WF_vars(free_exit)

-----------------------------------------------------------------------------
(* Properties *)

TypeOK ==
  /\ head \in Pointer /\ last \in Pointer
  /\ heap \in [Node -> Item]
  /\ items \subseteq Node
  /\ mem \in [Copy -> Payload \cup {Freed}]
  /\ freeing \in BOOLEAN
  /\ chain \in Seq(Node)

\* The invariant write_buffer.h states of the struct, and the assertion in
\* es_write_buffer_push: head and last are both NULL or both not NULL.
HeadLastInv == (head = Null) <=> (last = Null)

\* The list that starts at head is exactly the pushed and not yet popped items
\* in order, it ends at last and it is never cyclic: following next from head
\* visits the chain and stops.
ListInv ==
  /\ head = IF chain = <<>> THEN Null ELSE chain[1]
  /\ last = IF chain = <<>> THEN Null ELSE chain[Len(chain)]
  /\ \A i \in 1..Len(chain) :
       heap[chain[i]].next = IF i = Len(chain) THEN Null ELSE chain[i + 1]
  /\ \A i, j \in 1..Len(chain) : chain[i] = chain[j] => i = j

\* No leak and no use after free: the allocated items are the ones on the
\* list, each owns a copy of its own, and no other copy is allocated.
MemoryInv ==
  /\ items = {chain[i] : i \in 1..Len(chain)}
  /\ \A i, j \in 1..Len(chain) :
       heap[chain[i]].orig = heap[chain[j]].orig => i = j
  /\ {c \in Copy : mem[c] # Freed} = {heap[chain[i]].orig : i \in 1..Len(chain)}

\* The invariant write_buffer.h states of an item: its size is never zero.
SizeInv == \A i \in 1..Len(chain) : heap[chain[i]].size > 0

\* es_write_buffer_free always ends, with both pointers NULL.
FreeTerminates == freeing ~> (~freeing /\ head = Null)

\* The block an item stands for, and the list as a sequence of blocks.
Block(x) == [val |-> mem[heap[x].orig], data |-> heap[x].data, size |-> heap[x].size]

Blocks == [i \in 1..Len(chain) |-> Block(chain[i])]

Abstract == INSTANCE FifoQueue WITH queue <- Blocks

\* The linked list implements the queue: a block leaves in the order in which
\* it was queued, and its payload is the one it was queued with.
ImplementsFifo == Abstract!Spec
=============================================================================
