------------------------------- MODULE Allocator ------------------------------
(***************************************************************************)
(* 5_management_system: my_malloc, my_free and my_realloc, called in any   *)
(* order by a client that keeps to their comments: it writes only what it  *)
(* asked for, and frees and reallocates only what it holds.                *)
(*                                                                         *)
(* A pool is one area from malloc, with a list of blocks in it: a header   *)
(* of HEADER units, then the block's space.  No block is ever marked as    *)
(* taken, my_free cuts the list off behind the block, and a pool in which  *)
(* nothing fits is forgotten for a new one.                                *)
(***************************************************************************)
EXTENDS Integers, Sequences, FiniteSets, FiniteSetsExt, SequencesExt

CONSTANTS
  Ptrs,           \* the client's pointers
  Requests,       \* the sizes it asks for
  HEADER,         \* sizeof(block_t)
  DEFAULT_SIZE,   \* of the first pool
  SIZE_MAX        \* of size_t

ASSUME AllocatorAssumption ==
  /\ IsFiniteSet(Ptrs) /\ Requests \subseteq Nat
  /\ HEADER \in Nat \ {0} /\ DEFAULT_SIZE \in Nat /\ DEFAULT_SIZE >= HEADER

ASSUME SizeAssumption == SIZE_MAX \in Nat /\ HEADER <= SIZE_MAX

VARIABLES
  memory_pool,   \* number of the pool, 0 for NULL
  pool_size,     \* its size
  list,          \* its list of blocks; a block is <<pool, offset of its header>>
  size,          \* the size in the header of every block in the list or held by the client
  ptr,           \* what each pointer of the client points to
  call,          \* the pointer whose my_malloc or my_realloc has not returned, and the size
  state,         \* "idle", "call", and three ends: "exited", and two after which what the
                 \* code does is undefined: "overwritten" when a header was overwritten,
                 \* "overrun" when one was written behind the end of its pool
  fits           \* history: a size was asked for that fits in what another pointer holds

pool == <<memory_pool, pool_size>>
allocVars == <<pool, list, size, ptr, call, state, fits>>

\* want units were asked for, wrote of them written, and the first good ones are still there.
Null == [block |-> <<0, 0>>, want |-> 0, wrote |-> 0, good |-> 0]
Holders == {p \in Ptrs : ptr[p] # Null}

AllocInit ==
  /\ memory_pool = 0 /\ pool_size = 0
  /\ list = <<>> /\ size = <<>>
  /\ ptr = [p \in Ptrs |-> Null]
  /\ call = <<>> /\ state = "idle"
  /\ fits = FALSE

Space(b) == b[2] + HEADER        \* where the space of block b begins

\* The units from first to last - 1 of a pool are written: what r points to loses what it
\* has there.
Damage(r, number, first, last) ==
  LET start == Space(r.block) IN
  IF r.block[1] = number /\ first < last /\ start < last /\ first < start + r.good
  THEN [r EXCEPT !.good = IF first > start THEN first - start ELSE 0]
  ELSE r

HitsHeader(blocks, number, first, last) ==
  \E b \in blocks : b[1] = number /\ b[2] < last /\ first < Space(b) /\ first < last

\* The headers that are in the list l, or held through the pointers f.
KeepHeaders(s, l, f) ==
  Restrict(s, {b \in DOMAIN s : b \in Range(l) \/ \E p \in Ptrs : f[p] # Null /\ f[p].block = b})

\* n is written to the header of b.
WriteHeader(s, b, n) == [c \in DOMAIN s \cup {b} |-> IF c = b THEN n ELSE s[c]]
-----------------------------------------------------------------------------
(* The client. *)

\* my_malloc, or my_realloc of what p points to.
Request(p, n) ==
  /\ state = "idle"
  /\ ptr[p] = Null \/ n > 0
  /\ call' = <<p, n>> /\ state' = "call"
  /\ fits' = (fits \/ \E q \in Holders \ {p} : n <= size[ptr[q].block])
  /\ UNCHANGED <<pool, list, size, ptr>>

\* The client writes all that it asked for.
Fill(p) ==
  /\ state = "idle" /\ ptr[p] # Null
  /\ LET number == ptr[p].block[1]
         first  == Space(ptr[p].block)
         last   == first + ptr[p].want
     IN /\ ptr' = [q \in Ptrs |-> IF q = p THEN [ptr[p] EXCEPT !.wrote = ptr[p].want, !.good = ptr[p].want]
                                           ELSE Damage(ptr[q], number, first, last)]
        /\ state' = IF HitsHeader(DOMAIN size, number, first, last) THEN "overwritten" ELSE "idle"
  /\ UNCHANGED <<pool, list, size, call, fits>>
-----------------------------------------------------------------------------
(* initialize_memory_pool, my_malloc, and the end of my_realloc. *)

Unused == CHOOSE k \in 1..(Cardinality(Ptrs) + 2) :
            k # memory_pool /\ \A p \in Holders : ptr[p].block[1] # k

\* size - sizeof(block_t), which is unsigned.
FirstSize(n) == IF n < HEADER THEN SIZE_MAX + 1 + n - HEADER ELSE n - HEADER

\* malloc gives nothing above half the address space, and may fail below it.  In a pool that is
\* smaller than a header the first header is written behind the end.
InitializePool(n) ==
  \/ /\ 2 * n <= SIZE_MAX
     /\ memory_pool' = Unused /\ pool_size' = n
     /\ list' = <<<<Unused, 0>>>>
     /\ size' = WriteHeader(KeepHeaders(size, <<>>, ptr), <<Unused, 0>>, FirstSize(n))
     /\ state' = IF n < HEADER THEN "overrun" ELSE state
     /\ UNCHANGED <<ptr, call, fits>>
  \/ /\ state' = "exited"
     /\ UNCHANGED <<pool, list, size, ptr, call, fits>>

FirstPool ==
  /\ state = "call" /\ memory_pool = 0
  /\ InitializePool(DEFAULT_SIZE)

Fitting == {k \in DOMAIN list : size[list[k]] >= call[2]}

\* Fault: the new pool has room for the last block's size and a header.
FaultGrowPool ==
  /\ state = "call" /\ memory_pool # 0 /\ Fitting = {}
  /\ InitializePool(size[Last(list)] + HEADER)

\* Nothing fits: a new pool takes the place of the old one, and my_malloc starts again.
GrowPool ==
  /\ state = "call" /\ memory_pool # 0 /\ Fitting = {}
  /\ InitializePool(size[Last(list)] * 2)

\* Fault: a block is split although there is no room for a header behind it.
FaultCuts(k, n) == size[list[k]] > n

\* Is the rest of the k-th block made a block when n units are taken from it?
Cuts(k, n) == size[list[k]] > n + HEADER

\* Fault: the rest's own header is not taken off.
FaultRestSize(k, n) == size[list[k]] - n

RestSize(k, n) == size[list[k]] - n - HEADER

\* The list without what is behind block b, if b is in it.
CutOff(l, b) == IF \E k \in DOMAIN l : l[k] = b
                THEN SubSeq(l, 1, CHOOSE k \in DOMAIN l : l[k] = b)
                ELSE l

\* Fault: the size in a header is taken to include the header.
FaultCopySize(n, old) == Min({n, old - HEADER})

\* What my_realloc copies out of a block with old units.
CopySize(n, old) == Min({n, old})

\* The first block that fits is returned; my_realloc then copies, and frees the old block.
Return ==
  /\ state = "call" /\ memory_pool # 0 /\ Fitting # {}
  /\ LET p == call[1]   n == call[2]   k == Min(Fitting)   b == list[k]
         rest  == <<memory_pool, Space(b) + n>>
         last  == IF Cuts(k, n) THEN rest[2] + HEADER ELSE rest[2]
         list1 == IF Cuts(k, n) THEN InsertAt(list, k + 1, rest) ELSE list
         size1 == IF Cuts(k, n)
                  THEN WriteHeader(WriteHeader(size, b, n), rest, RestSize(k, n)) ELSE size
         ptr1  == [q \in Ptrs |-> Damage(ptr[q], memory_pool, rest[2], last)]
         old   == ptr[p].block
         copy  == IF ptr[p] = Null THEN 0 ELSE CopySize(n, size1[old])
         mine  == [block |-> b, want |-> n, wrote |-> Min({n, ptr[p].wrote}),
                   good |-> Min({copy, ptr1[p].good})]
         list2 == IF ptr[p] = Null THEN list1 ELSE CutOff(list1, old)
         ptr2  == [q \in Ptrs |-> IF q = p THEN mine
                                  ELSE IF b = old THEN ptr1[q]
                                  ELSE Damage(ptr1[q], memory_pool, Space(b), Space(b) + copy)]
     IN /\ ptr' = ptr2 /\ list' = list2
        /\ size' = KeepHeaders(size1, list2, ptr2)
        /\ state' = IF \/ HitsHeader(DOMAIN size, memory_pool, rest[2], last)
                       \/ b # old /\ HitsHeader(DOMAIN size1, memory_pool, Space(b), Space(b) + copy)
                    THEN "overwritten" ELSE "idle"
  /\ call' = <<>>
  /\ UNCHANGED <<pool, fits>>

\* my_free, also as my_realloc with size 0.
Free(p) ==
  /\ state = "idle" /\ ptr[p] # Null
  /\ list' = CutOff(list, ptr[p].block)
  /\ ptr' = [ptr EXCEPT ![p] = Null]
  /\ size' = KeepHeaders(size, CutOff(list, ptr[p].block), [ptr EXCEPT ![p] = Null])
  /\ UNCHANGED <<pool, call, state, fits>>

Allocate == FirstPool \/ GrowPool \/ Return

AllocNext ==
  \/ \E p \in Ptrs : Fill(p) \/ Free(p) \/ \E n \in Requests : Request(p, n)
  \/ Allocate

AllocSpec == AllocInit /\ [][AllocNext]_allocVars /\ WF_allocVars(Allocate)
-----------------------------------------------------------------------------
(* Properties. *)

AllocTypeOK ==
  /\ memory_pool \in 0..(Cardinality(Ptrs) + 2) /\ pool_size \in Nat
  /\ Range(list) \cup {ptr[p].block : p \in Holders} = DOMAIN size
  /\ \A b \in DOMAIN size : b \in Nat \X Nat /\ size[b] \in Nat
  /\ \A p \in Ptrs : ptr[p].want \in Nat /\ ptr[p].good <= ptr[p].wrote /\ ptr[p].wrote <= ptr[p].want
  /\ call = <<>> \/ call \in Ptrs \X Requests
  /\ state \in {"idle", "call", "exited", "overwritten", "overrun"}
  /\ fits \in BOOLEAN

(* The blocks in the list lie behind one another without a gap, from the start of the    *)
(* pool and within it, after any sequence of splits, frees and new pools; but for a pool *)
(* made of a block smaller than half a header, which is too small for its own header: a  *)
(* my_malloc, its my_free and a my_malloc of one unit more than before make one.         *)
ListTiles ==
  list # <<>> =>
    /\ list[1] = <<memory_pool, 0>>
    /\ \A k \in DOMAIN list :
         LET end == Space(list[k]) + size[list[k]] IN
         IF k < Len(list) THEN list[k + 1] = <<memory_pool, end>>
                          ELSE end <= pool_size \/ (state = "overrun" /\ pool_size < HEADER)

(* "The contents of the block are preserved up to the minimum of the old and new sizes", *)
(* and every other block's too, and no header is overwritten, as long as the client asks *)
(* for nothing that fits in what another of its pointers holds: blocks are not marked as *)
(* taken.  Nothing is said of what follows an overrun.                                   *)
DataKept ==
  \/ fits
  \/ state # "overwritten" /\ \A p \in Ptrs : ptr[p].good = ptr[p].wrote

(* A call returns, or ends the process, unless the last block in the list is exactly as  *)
(* large as a header: twice that, less a header, is the same size again.                 *)
CallReturns ==
  state = "call" ~> \/ state # "call"
                    \/ list # <<>> /\ size[Last(list)] = HEADER
===============================================================================
