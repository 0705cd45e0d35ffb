------------------------------ MODULE MatrixBands -----------------------------
(***************************************************************************)
(* 3_Processes_and_Threads/Multi_threads: a program that multiplies two    *)
(* matrices, once in a loop (calculate_product_matrix) and once with a     *)
(* thread for each band of rows (calculate_product_matrix_multi).          *)
(*                                                                         *)
(* Sizes and the number of threads are what the user enters; 0 is let      *)
(* through.  What matters of an entry of a product is which terms it sums. *)
(***************************************************************************)
EXTENDS Integers

CONSTANTS
  Sizes,       \* rows and columns the user may enter
  MaxThreads   \* bound: threads the user may enter

ASSUME MatrixAssumption == Sizes \subseteq Nat /\ MaxThreads \in Nat

VARIABLES
  a, b,          \* row and col of the two matrices
  num_threads,
  main,          \* where the main thread is; "over" and "crashed" end the process
  i,             \* its i in calculate_product_matrix_multi
  start_row,     \* its local of that name
  thread_data,   \* the rows for each thread, as main writes them
  pc,            \* where each thread is; "failed" if it could not be created
  band,          \* thread_data as the thread has read it
  row, col,      \* where each thread is in its band
  product,       \* what calculate_product_matrix returns
  result,        \* what calculate_product_matrix_multi returns
  null           \* which of the two is NULL

input    == <<a, b, num_threads>>
mainVars == <<main, i, start_row, thread_data>>
locals   == <<band, row, col>>
vars == <<input, mainVars, pc, locals, product, result, null>>

Threads == 0..(MaxThreads - 1)
Created == 0..(num_threads - 1)
Cells    == (0..(a.row - 1)) \X (0..(b.col - 1))
NoRows  == [start |-> 0, end |-> 0]

\* Row r of a times column c of b, as the terms a[r][k] * b[k][c] it sums.
Entry(r, c) == {<<r, k, c>> : k \in 0..(a.col - 1)}
Unset       == {<<-1, -1, -1>>}     \* malloc'd and not written

Init ==
  /\ a \in [row : Sizes, col : Sizes] /\ b \in [row : Sizes, col : Sizes]
  /\ num_threads \in 0..MaxThreads
  /\ main = "normal" /\ i = 0 /\ start_row = 0
  /\ thread_data = [t \in Threads |-> NoRows]
  /\ pc = [t \in Threads |-> "none"]
  /\ band = [t \in Threads |-> NoRows]
  /\ row = [t \in Threads |-> 0] /\ col = [t \in Threads |-> 0]
  /\ product = [x \in Cells |-> Unset] /\ result = [x \in Cells |-> Unset]
  /\ null = {}

Multipliable == a.col = b.row
-----------------------------------------------------------------------------
(* The main thread. *)

\* calculate_product_matrix: NULL, or the product.
Normal ==
  /\ main = "normal" /\ main' = "multi"
  /\ IF Multipliable THEN product' = [x \in Cells |-> Entry(x[1], x[2])] /\ null' = null
                     ELSE product' = product /\ null' = null \cup {"product"}
  /\ UNCHANGED <<input, i, start_row, thread_data, pc, locals, result>>

\* Fault: the number of threads is divided by the number of rows.
FaultMulti ==
  /\ main = "multi"
  /\ main' = IF ~Multipliable THEN "free"
             ELSE IF a.row = 0 \/ num_threads = 0 THEN "crashed" ELSE "create"
  /\ null' = IF Multipliable THEN null ELSE null \cup {"result"}
  /\ UNCHANGED <<input, i, start_row, thread_data, pc, locals, product, result>>

\* calculate_product_matrix_multi up to its loop: NULL, a division by zero, or a matrix.
Multi ==
  /\ main = "multi"
  /\ main' = IF ~Multipliable THEN "free" ELSE IF num_threads = 0 THEN "crashed" ELSE "create"
  /\ null' = IF Multipliable THEN null ELSE null \cup {"result"}
  /\ UNCHANGED <<input, i, start_row, thread_data, pc, locals, product, result>>

rows_per_thread == a.row \div num_threads
remaining_rows  == a.row % num_threads

\* Fault: what is left over is forgotten.
FaultEndRow(t, start) == start + rows_per_thread

EndRow(t, start) ==
  start + rows_per_thread + (IF t = num_threads - 1 THEN remaining_rows ELSE 0)

\* One turn of the first loop.  Whether pthread_create fails is not looked at.
CreateThread ==
  /\ main = "create"
  /\ thread_data' = [thread_data EXCEPT ![i] = [start |-> start_row, end |-> EndRow(i, start_row)]]
  /\ start_row' = EndRow(i, start_row)
  /\ \E s \in {"ready", "failed"} : pc' = [pc EXCEPT ![i] = s]
  /\ IF i + 1 < num_threads THEN i' = i + 1 /\ main' = main ELSE i' = 0 /\ main' = "join"
  /\ UNCHANGED <<input, locals, product, result, null>>

\* Fault: the last thread is not joined.
FaultJoin ==
  /\ main = "join" /\ pc[i] \in {"done", "failed"}
  /\ IF i + 2 < num_threads THEN i' = i + 1 /\ main' = main ELSE i' = 0 /\ main' = "free"
  /\ UNCHANGED <<input, start_row, thread_data, pc, locals, product, result, null>>

\* One turn of the second; a handle that was never set may be anything.
Join ==
  /\ main = "join" /\ pc[i] \in {"done", "failed"}
  /\ \/ IF i + 1 < num_threads THEN i' = i + 1 /\ main' = main ELSE i' = 0 /\ main' = "free"
     \/ pc[i] = "failed" /\ i' = i /\ main' = "crashed"
  /\ UNCHANGED <<input, start_row, thread_data, pc, locals, product, result, null>>

\* free_matrix of the first product follows the pointer even if it is NULL.
Free ==
  /\ main = "free"
  /\ main' = IF "product" \in null THEN "crashed" ELSE "over"
  /\ UNCHANGED <<input, i, start_row, thread_data, pc, locals, product, result, null>>

Main == Normal \/ Multi \/ CreateThread \/ Join \/ Free
-----------------------------------------------------------------------------
(* multiply_rows. *)

ProcessRuns == main \notin {"over", "crashed"}

Start(t) ==
  /\ ProcessRuns /\ pc[t] = "ready"
  /\ pc' = [pc EXCEPT ![t] = "run"]
  /\ band' = [band EXCEPT ![t] = thread_data[t]]
  /\ row' = [row EXCEPT ![t] = thread_data[t].start]
  /\ UNCHANGED <<input, mainVars, col, product, result, null>>

\* sum is local: an entry is stored when it is complete.
Store(t) ==
  /\ ProcessRuns /\ pc[t] = "run" /\ row[t] < band[t].end /\ col[t] < b.col
  /\ result' = [result EXCEPT ![<<row[t], col[t]>>] = Entry(row[t], col[t])]
  /\ col' = [col EXCEPT ![t] = @ + 1]
  /\ UNCHANGED <<input, mainVars, pc, band, row, product, null>>

NextRow(t) ==
  /\ ProcessRuns /\ pc[t] = "run" /\ row[t] < band[t].end /\ col[t] = b.col
  /\ row' = [row EXCEPT ![t] = @ + 1] /\ col' = [col EXCEPT ![t] = 0]
  /\ UNCHANGED <<input, mainVars, pc, band, product, result, null>>

Exit(t) ==
  /\ ProcessRuns /\ pc[t] = "run" /\ row[t] >= band[t].end
  /\ pc' = [pc EXCEPT ![t] = "done"]
  /\ UNCHANGED <<input, mainVars, locals, product, result, null>>

Worker(t) == Start(t) \/ Store(t) \/ NextRow(t) \/ Exit(t)

Next == Main \/ \E t \in Threads : Worker(t)

\* The scheduler runs every thread.
Fairness == WF_vars(Main) /\ \A t \in Threads : WF_vars(Worker(t))

Spec == Init /\ [][Next]_vars /\ Fairness
-----------------------------------------------------------------------------
(* Properties. *)

TypeOK ==
  /\ a \in [row : Sizes, col : Sizes] /\ b \in [row : Sizes, col : Sizes]
  /\ num_threads \in 0..MaxThreads
  /\ main \in {"normal", "multi", "create", "join", "free", "over", "crashed"}
  /\ i \in Nat /\ start_row \in Nat
  /\ thread_data \in [Threads -> [start : Nat, end : Nat]]
  /\ pc \in [Threads -> {"none", "ready", "run", "done", "failed"}]
  /\ band \in [Threads -> [start : Nat, end : Nat]]
  /\ row \in [Threads -> Nat] /\ col \in [Threads -> Nat]
  /\ \A x \in Cells : {product[x], result[x]} \subseteq {Unset, Entry(x[1], x[2])}
  /\ null \subseteq {"product", "result"}

(* No two threads ever write the same row, and when all are created every row is some    *)
(* thread's: the bands are a partition of the rows, for every number of rows and of      *)
(* threads, also more threads than rows.                                                 *)
Has(t, r) == pc[t] # "none" /\ thread_data[t].start <= r /\ r < thread_data[t].end
BandsPartition ==
  /\ \A t, u \in Threads : \A r \in 0..(a.row - 1) : Has(t, r) /\ Has(u, r) => t = u
  /\ main = "join" => \A r \in 0..(a.row - 1) : \E t \in Threads : Has(t, r)

(* When both have returned, the two products are the same, but for the rows of threads   *)
(* that could not be created: those are what malloc left there.                          *)
ResultIsProduct ==
  main \in {"free", "over"} =>
    /\ "result" \in null <=> "product" \in null
    /\ null = {} => \A x \in Cells :
         result[x] = product[x] \/ \E t \in Threads : pc[t] = "failed" /\ Has(t, x[1])

(* The program gets to its end if the matrices can be multiplied, there is a thread, and *)
(* every thread could be created.  Otherwise it may crash: at the division, in a join of *)
(* a handle that was never set, or when it frees a product that is NULL.                 *)
Completes ==
  Multipliable /\ num_threads > 0 ~> main = "over" \/ \E t \in Threads : pc[t] = "failed"
===============================================================================
