------------------------------ MODULE ItemStore ------------------------------
(***************************************************************************)
(* cross_injector's item library: item_make/item_free (item.c), the list   *)
(* queue of items linked through next_item (queue.c), and, in a build with *)
(* USE_FS_MALLOC, the fixed-slot allocator fs_malloc/fs_free               *)
(* (utilities.c) that item.c's malloc and free are redirected to.  One     *)
(* caller thread uses them, as ci_tests.c does; queue.h says the list      *)
(* queue is not thread safe.  Each call is one step.                       *)
(*                                                                         *)
(* Pool slot s stands for fs_malloc_memory + s * FS_MAX_SIZE.  mem[s] holds *)
(* what was stored there: the next_item and buffer fields when s holds a   *)
(* struct item_t, the copied bytes (data) when s holds an item's buffer.   *)
(* The n-th item_make copies the value n, so order and identity are seen.  *)
(* fsmemlock is a flag: a call that finds it held blocks the only thread   *)
(* forever ("hung").                                                       *)
(***************************************************************************)
EXTENDS Integers, Sequences, FiniteSets

LOCAL INSTANCE SequencesExt

CONSTANTS
    FS_MAX_NUM,     \* slots in the pool
    MaxMake,        \* item_make calls in a behaviour
    Q1, Q2,         \* the two struct queue_t the caller has set up with q_init
    MoveFromEmpty   \* the caller may call q_move_item on an empty source queue

ASSUME Q1 # Q2 /\ FS_MAX_NUM \in Nat \ {0} /\ MaxMake \in Nat /\ MoveFromEmpty \in BOOLEAN

NULL == -1
Queues == {Q1, Q2}
Slots == 0 .. FS_MAX_NUM - 1
Ptr == Slots \cup {NULL}
Values == 1 .. MaxMake
NoValue == 0

VARIABLES
    flags,      \* fs_malloc_flags
    current,    \* fs_malloc_current
    fslock,     \* fsmemlock is held
    mem,        \* mem[s]: next_item, buffer and data stored in slot s
    cur, last,  \* q->current_item, q->last_item of each queue
    held,       \* items the caller holds: made or taken, not put or freed
    made,       \* item_make calls so far
    ret,        \* ret[q]: value of the item last taken from q (NoValue: NULL)
    pc          \* the caller: "run", "hung" on fsmemlock, or "crashed"

vars == <<flags, current, fslock, mem, cur, last, held, made, ret, pc>>

Pool == [flags |-> flags, current |-> current, lock |-> fslock]
SetPool(p) == flags' = p.flags /\ current' = p.current /\ fslock' = p.lock
List == [cur |-> cur, last |-> last, mem |-> mem]
SetList(h) == cur' = h.cur /\ last' = h.last /\ mem' = h.mem

\* fs_malloc(size), entered with fsmemlock free; size is ignored.  The
\* early return on fs_malloc_current >= FS_MAX_NUM leaves the lock held.
\* Otherwise the first free slot from current up, else the first free slot
\* below current; when both searches fail current becomes FS_MAX_NUM.
fs_malloc(p) ==
    LET up   == {i \in p.current .. FS_MAX_NUM - 1 : ~p.flags[i]}
        down == {i \in 0 .. p.current - 1 : ~p.flags[i]}
        take(i) == [p |-> [p EXCEPT !.flags[i] = TRUE, !.current = i], ptr |-> i]
    IN  CASE p.current >= FS_MAX_NUM -> [p |-> [p EXCEPT !.lock = TRUE], ptr |-> NULL]
          [] up # {}   -> take(Min(up))
          [] down # {} -> take(Min(down))
          [] OTHER     -> [p |-> [p EXCEPT !.current = FS_MAX_NUM], ptr |-> NULL]

\* Seeded fault (see PROJECT.json, mutants): fs_free without its second
\* search, from the top of the pool down to current.
fs_freeFromCurrentOnly(p, ptr) ==
    IF ptr \in 0 .. p.current THEN [p EXCEPT !.flags[ptr] = FALSE] ELSE p

\* fs_free(ptr): search from current down to 0, then from the top down to
\* current; the slot found is marked free.
fs_free(p, ptr) ==
    IF ptr \in 0 .. p.current \/ ptr \in p.current .. FS_MAX_NUM - 1
    THEN [p EXCEPT !.flags[ptr] = FALSE]
    ELSE p

\* item_free: the buffer, if any, then the struct.
item_free(p, s) ==
    IF mem[s].buffer # NULL THEN fs_free(fs_free(p, mem[s].buffer), s)
    ELSE fs_free(p, s)

\* The value an item carries: the data of its buffer.
Val(s) == IF mem[s].buffer = NULL THEN NoValue ELSE mem[mem[s].buffer].data

\* The items of a list from s on, following next_item, at most n of them.
RECURSIVE Chain(_, _)
Chain(s, n) == IF s = NULL \/ n = 0 THEN <<>> ELSE <<s>> \o Chain(mem[s].next, n - 1)

Items(q) == Chain(cur[q], FS_MAX_NUM)

\* q_put_item(new_item, q).  new_item = NULL into a non-empty queue
\* dereferences NULL; the callers handle that case (see Move).
q_put_item(h, item, q) ==
    IF h.cur[q] = NULL THEN [h EXCEPT !.cur[q] = item, !.last[q] = item]
    ELSE [h EXCEPT !.mem[h.last[q]].next = item, !.last[q] = item,
                   !.mem[item].next = NULL]

\* Seeded fault: q_get_item without item->next_item = NULL.
q_get_itemNoUnlink(h, q) ==
    LET item == h.cur[q] IN
    IF item = NULL THEN [h |-> [h EXCEPT !.last[q] = NULL], item |-> NULL]
    ELSE [h |-> [h EXCEPT !.cur[q] = h.mem[item].next], item |-> item]

\* q_get_item(q): the head, advancing current_item; on an empty queue
\* last_item is reset; the item returned is unlinked.
q_get_item(h, q) ==
    LET item == h.cur[q] IN
    IF item = NULL THEN [h |-> [h EXCEPT !.last[q] = NULL], item |-> NULL]
    ELSE [h |-> [h EXCEPT !.cur[q] = h.mem[item].next, !.mem[item].next = NULL],
          item |-> item]

Init ==
    \* fs_malloc_open succeeded (start_client returns when it fails).
    /\ flags = [s \in Slots |-> FALSE] /\ current = 0 /\ fslock = FALSE
    /\ mem = [s \in Slots |-> [next |-> NULL, buffer |-> NULL, data |-> NoValue]]
    \* q_init on every queue.
    /\ cur = [q \in Queues |-> NULL] /\ last = [q \in Queues |-> NULL]
    /\ held = {} /\ made = 0 /\ ret = [q \in Queues |-> NoValue]
    /\ pc = "run"

\* A call that takes fsmemlock while it is held never returns.
Hang == pc' = "hung" /\ UNCHANGED <<flags, current, fslock, mem, cur, last, held, ret>>

\* item_make(buffer, size): fs_malloc for the struct, fs_malloc for the
\* buffer (the first is freed when the second fails), then the copy.
item_make ==
    /\ pc = "run" /\ made < MaxMake
    /\ made' = made + 1
    /\ IF fslock THEN Hang
       ELSE LET a == fs_malloc(Pool)
                b == fs_malloc(a.p)
            IN  /\ CASE a.ptr = NULL -> SetPool(a.p) /\ UNCHANGED <<mem, held>>
                     [] b.ptr = NULL -> SetPool(fs_free(b.p, a.ptr)) /\ UNCHANGED <<mem, held>>
                     [] OTHER ->
                          /\ SetPool(b.p)
                          /\ mem' = [mem EXCEPT ![a.ptr].next = NULL, ![a.ptr].buffer = b.ptr,
                                                ![b.ptr].data = made + 1]
                          /\ held' = held \cup {a.ptr}
                /\ UNCHANGED <<cur, last, ret, pc>>

\* item_free on an item the caller holds.
Free ==
    /\ pc = "run"
    /\ \E s \in held :
         IF fslock THEN Hang
         ELSE /\ SetPool(item_free(Pool, s)) /\ held' = held \ {s}
              /\ UNCHANGED <<mem, cur, last, ret, pc>>
    /\ UNCHANGED made

\* q_put_item of an item the caller holds.
Put ==
    /\ pc = "run"
    /\ \E s \in held, q \in Queues :
         SetList(q_put_item(List, s, q)) /\ held' = held \ {s}
    /\ UNCHANGED <<flags, current, fslock, made, ret, pc>>

\* Seeded fault: a caller that keeps what q_get_item returns unchecked.
GetNoNullCheck ==
    /\ pc = "run"
    /\ \E q \in Queues :
         LET g == q_get_item(List, q) IN
         /\ SetList(g.h) /\ held' = held \cup {g.item}
         /\ ret' = [ret EXCEPT ![q] = IF g.item = NULL THEN NoValue ELSE Val(g.item)]
    /\ UNCHANGED <<flags, current, fslock, made, pc>>

\* q_get_item; the item returned, if any, is the caller's.
Get ==
    /\ pc = "run"
    /\ \E q \in Queues :
         LET g == q_get_item(List, q) IN
         /\ SetList(g.h)
         /\ held' = IF g.item = NULL THEN held ELSE held \cup {g.item}
         /\ ret' = [ret EXCEPT ![q] = IF g.item = NULL THEN NoValue ELSE Val(g.item)]
    /\ UNCHANGED <<flags, current, fslock, made, pc>>

\* q_move_item(q1, q2) between two queues: q_get_item then q_put_item.
\* Moving NULL from an empty q1 into a non-empty q2 dereferences NULL.
Move ==
    /\ pc = "run"
    /\ \E q1, q2 \in Queues :
         /\ q1 # q2 /\ (MoveFromEmpty \/ cur[q1] # NULL)
         /\ LET g == q_get_item(List, q1) IN
            IF g.item = NULL /\ cur[q2] # NULL
            THEN pc' = "crashed" /\ UNCHANGED <<cur, last, mem, ret>>
            ELSE /\ SetList(q_put_item(g.h, g.item, q2))
                 /\ ret' = [ret EXCEPT ![q1] = IF g.item = NULL THEN NoValue ELSE Val(g.item)]
                 /\ UNCHANGED pc
    /\ UNCHANGED <<flags, current, fslock, held, made>>

\* q_clear: item_free on every item of the list, then an empty list.
Clear ==
    /\ pc = "run"
    /\ \E q \in Queues :
         IF Items(q) # <<>> /\ fslock THEN Hang
         ELSE /\ SetPool(FoldLeft(item_free, Pool, Items(q)))
              /\ cur' = [cur EXCEPT ![q] = NULL] /\ last' = [last EXCEPT ![q] = NULL]
              /\ UNCHANGED <<mem, held, ret, pc>>
    /\ UNCHANGED made

Next == item_make \/ Free \/ Put \/ Get \/ Move \/ Clear

Spec == Init /\ [][Next]_vars

-----------------------------------------------------------------------------
TypeOK ==
    /\ flags \in [Slots -> BOOLEAN] /\ current \in 0 .. FS_MAX_NUM
    /\ fslock \in BOOLEAN
    /\ mem \in [Slots -> [next : Ptr, buffer : Ptr, data : Values \cup {NoValue}]]
    /\ cur \in [Queues -> Ptr] /\ last \in [Queues -> Ptr]
    /\ held \subseteq Slots /\ made \in 0 .. MaxMake
    /\ ret \in [Queues -> Values \cup {NoValue}]
    /\ pc \in {"run", "hung", "crashed"}

\* Every list queue is a FIFO of the values its items carry: walking
\* next_item from current_item yields exactly what was put and not yet
\* taken, in order, and q_get_item and q_move_item take the oldest.  This
\* relies on the list code and on fs_malloc never handing out a slot that
\* a live item still uses.
Contents(q) == [i \in 1 .. Len(Items(q)) |-> Val(Items(q)[i])]

Fifo1 == INSTANCE ItemFifo WITH buf <- Contents(Q1), ret <- ret[Q1]
Fifo2 == INSTANCE ItemFifo WITH buf <- Contents(Q2), ret <- ret[Q2]

FifoSpec == Fifo1!Spec /\ Fifo2!Spec

\* The live items: those the caller holds and those on a list.
Live == held \cup UNION {Range(Items(q)) : q \in Queues}

\* fs_malloc_flags marks exactly the slots of live items, their structs and
\* their buffers: no slot leaks through fs_free's two searches or
\* item_make's failure path, and no live slot is free to be handed out.
FlagsMatchLive ==
    \A s \in Slots : flags[s] <=> s \in Live \cup {mem[i].buffer : i \in Live}

\* While the pool has a free slot and fsmemlock is free, fs_malloc returns
\* one: neither the exhausted marker current = FS_MAX_NUM nor the search
\* order makes it report an exhausted pool that is not.
PoolUsable ==
    (pc = "run" /\ ~fslock /\ \E s \in Slots : ~flags[s])
        => fs_malloc(Pool).ptr # NULL

\* q_move_item never writes through NULL: moving from an empty queue leaves
\* the target queue as it was.
MoveNeverCrashes == pc # "crashed"

=============================================================================
