--------------------------- MODULE MatrixBandsProofs ---------------------------
(* Proofs about MatrixBands: matrices of any size and any number of threads. *)
EXTENDS MatrixBands, TLAPS

USE MatrixAssumption

-----------------------------------------------------------------------------
(* Arithmetic of the bands. *)

LEMMA ThreadRange == \A t : t \in Threads <=> t \in Nat /\ t < MaxThreads
  BY DEF Threads

LEMMA CellFacts == ASSUME NEW x \in Cells
                   PROVE  x = <<x[1], x[2]>> /\ x[1] \in 0..(a.row - 1) /\ x[2] \in 0..(b.col - 1)
  BY DEF Cells

LEMMA Division ==
  ASSUME NEW r \in Nat, NEW n \in Nat, n > 0
  PROVE  r \div n \in Nat /\ r % n \in Nat /\ r % n < n /\ r = (r \div n) * n + (r % n)
<1>1. r \div n \in Nat /\ r % n \in Nat /\ r % n < n
  BY SMTT(30)
<1>2. r = (r \div n) * n + (r % n)
  BY SMTT(60)
<1> QED BY <1>1, <1>2

LEMMA Products ==
  ASSUME NEW x \in Nat, NEW y \in Nat, NEW k \in Nat
  PROVE  /\ x * k \in Nat /\ (x + 1) * k = x * k + k
         /\ x <= y => x * k <= y * k
         /\ x * k < y * k => x < y
  OBVIOUS

Begin(t) == t * rows_per_thread
End(t)   == IF t = num_threads - 1 THEN a.row ELSE (t + 1) * rows_per_thread

Sized == a \in [row : Nat, col : Nat] /\ b \in [row : Nat, col : Nat] /\ num_threads \in 0..MaxThreads

LEMMA TypeSized == TypeOK => Sized
  BY DEF TypeOK, Sized

LEMMA RowFacts ==
  ASSUME Sized, num_threads > 0
  PROVE  /\ rows_per_thread \in Nat /\ remaining_rows \in Nat /\ a.row \in Nat
         /\ num_threads * rows_per_thread + remaining_rows = a.row
<1>1. a.row \in Nat /\ num_threads \in Nat
  BY DEF Sized
<1>2. /\ rows_per_thread \in Nat /\ remaining_rows \in Nat
      /\ a.row = rows_per_thread * num_threads + remaining_rows
  BY <1>1, Division DEF rows_per_thread, remaining_rows
<1> QED BY <1>1, <1>2

(* A band begins where the one before it ends, the last one ends with the rows. *)
LEMMA BandFacts ==
  ASSUME Sized, num_threads > 0, NEW t \in Nat, t < num_threads
  PROVE  /\ Begin(t) \in Nat /\ End(t) \in Nat
         /\ Begin(t) <= End(t) /\ End(t) <= a.row
         /\ End(t) = EndRow(t, Begin(t))
         /\ t + 1 < num_threads => End(t) = Begin(t + 1)
<1> DEFINE k == rows_per_thread
<1>1. num_threads \in Nat /\ k \in Nat /\ remaining_rows \in Nat /\ a.row \in Nat
      /\ num_threads * k + remaining_rows = a.row
  BY RowFacts DEF Sized
<1>2. t * k \in Nat /\ (t + 1) * k = t * k + k /\ (t + 1) * k <= num_threads * k /\ num_threads * k \in Nat
  BY <1>1, Products
<1>3. CASE t = num_threads - 1
  BY <1>1, <1>2, <1>3 DEF Begin, End, EndRow
<1>4. CASE t # num_threads - 1
  BY <1>1, <1>2, <1>4 DEF Begin, End, EndRow
<1> QED BY <1>3, <1>4

LEMMA BandsApart ==
  ASSUME Sized, num_threads > 0,
         NEW t \in Nat, NEW u \in Nat, t < u, u < num_threads
  PROVE  End(t) <= Begin(u)
<1>1. rows_per_thread \in Nat /\ num_threads \in Nat
  BY RowFacts DEF Sized
<1>2. (t + 1) * rows_per_thread <= u * rows_per_thread
  BY <1>1, Products
<1> QED BY <1>2, <1>1 DEF End, Begin

LEMMA BandsCover ==
  ASSUME Sized, num_threads > 0, NEW r \in 0..(a.row - 1)
  PROVE  \E t \in Nat : t < num_threads /\ Begin(t) <= r /\ r < End(t)
<1> DEFINE k == rows_per_thread
           n == num_threads - 1
<1>1. num_threads \in Nat /\ n \in Nat /\ k \in Nat /\ a.row \in Nat /\ r \in Nat
  BY RowFacts DEF Sized
<1>2. CASE n * k <= r
  BY <1>1, <1>2 DEF Begin, End
<1>3. CASE r < n * k
  <2>1. k > 0
    BY <1>1, <1>3, Products
  <2> DEFINE t == r \div k
  <2>2. t \in Nat /\ t * k <= r /\ r < t * k + k
    BY <1>1, <2>1, Division
  <2>3. t < n /\ (t + 1) * k = t * k + k
    <3>1. t * k \in Nat /\ n * k \in Nat /\ t * k < n * k
      BY <1>1, <1>3, <2>2, Products
    <3> HIDE DEF t, k, n
    <3> QED BY <1>1, <2>2, <3>1, Products
  <2> HIDE DEF t
  <2>4. t < num_threads /\ t # num_threads - 1
    BY <1>1, <2>2, <2>3
  <2> QED BY <2>2, <2>3, <2>4 DEF Begin, End
<1>4. n * k \in Nat
  BY <1>1, Products
<1> QED BY <1>1, <1>2, <1>3, <1>4
-----------------------------------------------------------------------------
(* The inductive invariant. *)

Results == {Unset} \cup {Entry(x[1], x[2]) : x \in Cells}

\* Where main is: what it has found out, and how far its loops have come.
MainInv ==
  /\ main \in {"normal", "multi"} => i = 0 /\ start_row = 0
  /\ main \in {"create", "join"} => Multipliable /\ num_threads > 0 /\ i < num_threads
  /\ main = "create" => start_row = Begin(i)
  /\ main \in {"free", "over"} /\ Multipliable => num_threads > 0
  /\ main = "normal" => null = {}
  /\ main # "normal" => ("product" \in null <=> ~Multipliable)
  /\ main = "multi" => "result" \notin null
  /\ main \in {"create", "join", "free", "over"} => ("result" \in null <=> ~Multipliable)
  /\ main # "normal" /\ Multipliable => \A x \in Cells : product[x] = Entry(x[1], x[2])

\* Which threads there are, and their bands.
BandInv ==
  /\ \A t \in Threads : pc[t] # "none" =>
       t < num_threads /\ thread_data[t] = [start |-> Begin(t), end |-> End(t)]
  /\ main \in {"normal", "multi"} => \A t \in Threads : pc[t] = "none"
  /\ main = "create" => \A t \in Threads : t >= i <=> pc[t] = "none"
  /\ main = "join" => \A t \in Threads : t < num_threads => pc[t] # "none"
  /\ main = "join" => \A t \in Threads : t < i => pc[t] \in {"done", "failed"}
  /\ main \in {"free", "over"} /\ Multipliable =>
       \A t \in Threads : t < num_threads => pc[t] \in {"done", "failed"}

\* The entry at x is computed.
Computed(x) == result[x] = Entry(x[1], x[2])

\* How far thread t is in its band.
AtWork(t) ==
  /\ band[t] = [start |-> Begin(t), end |-> End(t)]
  /\ Begin(t) <= row[t] /\ row[t] <= End(t) /\ col[t] <= b.col
  /\ \A x \in Cells : Begin(t) <= x[1] /\ (x[1] < row[t] \/ (x[1] = row[t] /\ x[2] < col[t]))
                        => Computed(x)

WorkInv ==
  /\ result \in [Cells -> Results]
  /\ \A t \in Threads : pc[t] \in {"none", "ready"} => col[t] = 0
  /\ \A t \in Threads : pc[t] = "run" => AtWork(t)
  /\ \A t \in Threads : pc[t] = "done" => \A x \in Cells : Begin(t) <= x[1] /\ x[1] < End(t) => Computed(x)

MatrixInv == TypeOK /\ MainInv /\ BandInv /\ WorkInv

-----------------------------------------------------------------------------
(* It holds at first, and every step keeps it. *)

LEMMA MatrixInit == Init => MatrixInv
<1> SUFFICES ASSUME Init PROVE MatrixInv
  OBVIOUS
<1>1. TypeOK
  <2>1. \A x \in Cells : {product[x], result[x]} \subseteq {Unset, Entry(x[1], x[2])}
    BY DEF Init
  <2>2. NoRows \in [start : Nat, end : Nat]
    BY DEF NoRows
  <2>3. thread_data \in [Threads -> [start : Nat, end : Nat]] /\ band \in [Threads -> [start : Nat, end : Nat]]
    BY <2>2 DEF Init
  <2> QED BY <2>1, <2>3 DEF Init, TypeOK
<1>2. MainInv
  BY DEF Init, MainInv
<1>3. BandInv
  BY DEF Init, BandInv
<1>4. WorkInv
  BY DEF Init, WorkInv, Results
<1> QED BY <1>1, <1>2, <1>3, <1>4 DEF MatrixInv

LEMMA SameInput ==
  ASSUME UNCHANGED input
  PROVE  /\ UNCHANGED <<a, b, num_threads, Cells, Multipliable, Results, rows_per_thread, remaining_rows>>
         /\ \A t : Begin(t)' = Begin(t) /\ End(t)' = End(t)
         /\ \A r, c : Entry(r, c)' = Entry(r, c)
<1>1. UNCHANGED <<a, b, num_threads>>
  BY DEF input
<1>2. UNCHANGED <<rows_per_thread, remaining_rows>>
  BY <1>1 DEF rows_per_thread, remaining_rows
<1>3. \A t : Begin(t)' = Begin(t) /\ End(t)' = End(t)
  BY <1>1, <1>2 DEF Begin, End
<1>4. \A r, c : Entry(r, c)' = Entry(r, c)
  BY <1>1 DEF Entry
<1>5. UNCHANGED <<Cells, Multipliable>>
  BY <1>1 DEF Cells, Multipliable
<1>6. UNCHANGED Results
  BY <1>4, <1>5 DEF Results
<1> QED BY <1>1, <1>2, <1>3, <1>4, <1>5, <1>6

\* What the threads have done stays done when result does not change.
LEMMA SameResult ==
  ASSUME UNCHANGED <<input, result>>
  PROVE  \A x : Computed(x)' <=> Computed(x)
  BY SameInput DEF Computed

LEMMA MainKeeps == MatrixInv /\ Main => MatrixInv'
<1> SUFFICES ASSUME MatrixInv, Main PROVE MatrixInv'
  OBVIOUS
<1> USE DEF MatrixInv
<1>0. Sized
  BY TypeSized
<1>1. CASE Normal
  <2>1. UNCHANGED <<input, result>>
    BY <1>1 DEF Normal
  <2>2. \A x : Computed(x)' <=> Computed(x)
    BY <2>1, SameResult
  <2>3. TypeOK'
    BY <1>1, <2>1, SameInput DEF Normal, TypeOK, locals
  <2>4. MainInv'
    BY <1>1, <2>1, SameInput DEF Normal, MainInv
  <2>5. BandInv'
    BY <1>1, <2>1, SameInput DEF Normal, BandInv
  <2>6. WorkInv'
    BY <1>1, <2>1, <2>2, SameInput DEF Normal, WorkInv, AtWork, locals
  <2> QED BY <2>3, <2>4, <2>5, <2>6
<1>2. CASE Multi
  <2>1. UNCHANGED <<input, result>>
    BY <1>2 DEF Multi
  <2>2. \A x : Computed(x)' <=> Computed(x)
    BY <2>1, SameResult
  <2>3. TypeOK'
    BY <1>2, <2>1, SameInput DEF Multi, TypeOK, locals
  <2>4. MainInv'
    <3>1. num_threads > 0 => Begin(0) = 0
      BY <1>0, RowFacts DEF Begin
    <3>2. num_threads \in Nat
      BY <1>0 DEF Sized
    <3> QED BY <1>2, <2>1, <3>1, <3>2, SameInput DEF Multi, MainInv
  <2>5. BandInv'
    BY <1>2, <2>1, SameInput, ThreadRange DEF Multi, BandInv, MainInv
  <2>6. WorkInv'
    BY <1>2, <2>1, <2>2, SameInput DEF Multi, WorkInv, AtWork, locals
  <2> QED BY <2>3, <2>4, <2>5, <2>6
<1>3. CASE CreateThread
  <2>1. UNCHANGED <<input, result, product, null, locals>>
    BY <1>3 DEF CreateThread
  <2>2. \A x : Computed(x)' <=> Computed(x)
    BY <2>1, SameResult
  <2>3. /\ i \in Nat /\ i < num_threads /\ num_threads > 0 /\ start_row = Begin(i) /\ num_threads \in Nat
        /\ num_threads <= MaxThreads /\ i \in Threads /\ Multipliable
    BY <1>0, <1>3, ThreadRange DEF CreateThread, MainInv, TypeOK
  <2>4. /\ Begin(i) \in Nat /\ End(i) \in Nat /\ End(i) = EndRow(i, start_row)
        /\ i + 1 < num_threads => End(i) = Begin(i + 1)
    BY <1>0, <2>3, BandFacts
  <2>5. /\ thread_data' = [thread_data EXCEPT ![i] = [start |-> Begin(i), end |-> End(i)]]
        /\ start_row' = End(i)
        /\ \E s \in {"ready", "failed"} : pc' = [pc EXCEPT ![i] = s]
        /\ \/ i + 1 < num_threads /\ i' = i + 1 /\ main' = "create"
           \/ i + 1 >= num_threads /\ i' = 0 /\ main' = "join"
    <3>1. /\ thread_data' = [thread_data EXCEPT ![i] = [start |-> Begin(i), end |-> End(i)]]
          /\ start_row' = End(i)
      BY <1>3, <2>3, <2>4 DEF CreateThread
    <3>2. \E s \in {"ready", "failed"} : pc' = [pc EXCEPT ![i] = s]
      BY <1>3 DEF CreateThread
    <3>3. \/ i + 1 < num_threads /\ i' = i + 1 /\ main' = "create"
          \/ i + 1 >= num_threads /\ i' = 0 /\ main' = "join"
      BY <1>3, <2>3 DEF CreateThread
    <3> QED BY <3>1, <3>2, <3>3
  <2>6. TypeOK'
    <3>1. i' \in Nat /\ start_row' \in Nat /\ main' \in {"create", "join"}
      BY <2>3, <2>4, <2>5
    <3>2. thread_data' \in [Threads -> [start : Nat, end : Nat]]
      BY <2>4, <2>5 DEF TypeOK
    <3>3. pc' \in [Threads -> {"none", "ready", "run", "done", "failed"}]
      BY <2>5 DEF TypeOK
    <3> QED BY <2>1, <3>1, <3>2, <3>3, SameInput DEF TypeOK, locals
  <2>7. MainInv'
    BY <1>3, <2>1, <2>3, <2>4, <2>5, SameInput DEF CreateThread, MainInv
  <2>8. BandInv'
    <3>1. pc \in [Threads -> {"none", "ready", "run", "done", "failed"}] /\ main = "create"
          /\ thread_data \in [Threads -> [start : Nat, end : Nat]]
      BY <1>3 DEF TypeOK, CreateThread
    <3>2. \A t \in Threads : pc'[t] # "none" <=> t <= i
      BY <2>3, <2>5, <3>1, ThreadRange DEF BandInv
    <3>3. \A t \in Threads : t <= i => thread_data'[t] = [start |-> Begin(t), end |-> End(t)]
      BY <2>3, <2>5, <3>1, ThreadRange DEF BandInv
    <3>4. \A t \in Threads : t <= i => t < num_threads
      BY <2>3, ThreadRange
    <3>5. /\ UNCHANGED num_threads /\ \A t : Begin(t)' = Begin(t) /\ End(t)' = End(t)
      BY <2>1, SameInput
    <3>6. \A t \in Threads : pc'[t] # "none" =>
            t < num_threads' /\ thread_data'[t] = [start |-> Begin(t)', end |-> End(t)']
      BY <3>2, <3>3, <3>4, <3>5
    <3>7. main' = "create" => \A t \in Threads : t >= i' <=> pc'[t] = "none"
      BY <2>3, <2>5, <3>2, ThreadRange
    <3>8. main' = "join" => \A t \in Threads : t < num_threads' => pc'[t] # "none"
      BY <2>3, <2>5, <3>2, <3>5, ThreadRange
    <3>9. main' = "join" => \A t \in Threads : t < i' => pc'[t] \in {"done", "failed"}
      BY <2>5, ThreadRange
    <3> QED BY <2>5, <3>6, <3>7, <3>8, <3>9 DEF BandInv
  <2>9. WorkInv'
    <3>1. \A t \in Threads : \/ pc'[t] = pc[t]
                             \/ pc[t] = "none" /\ pc'[t] \in {"ready", "failed"}
      BY <1>3, <2>3, <2>5, ThreadRange DEF TypeOK, BandInv, CreateThread
    <3>2. UNCHANGED <<Cells, Results, b, result, band, row, col>>
          /\ \A t : Begin(t)' = Begin(t) /\ End(t)' = End(t)
      BY <2>1, SameInput DEF locals
    <3> QED BY <2>2, <3>1, <3>2 DEF WorkInv, AtWork
  <2> QED BY <2>6, <2>7, <2>8, <2>9
<1>4. CASE Join
  <2>1. UNCHANGED <<input, start_row, thread_data, pc, locals, product, result, null>>
    BY <1>4 DEF Join
  <2>2. \A x : Computed(x)' <=> Computed(x)
    BY <2>1, SameResult
  <2>3. /\ i \in Nat /\ i < num_threads /\ num_threads > 0 /\ num_threads \in Nat
        /\ Multipliable /\ main = "join" /\ pc[i] \in {"done", "failed"}
    BY <1>0, <1>4 DEF Join, MainInv, TypeOK
  <2>4. \/ i + 1 < num_threads /\ i' = i + 1 /\ main' = "join"
        \/ i + 1 >= num_threads /\ i' = 0 /\ main' = "free"
        \/ i' = i /\ main' = "crashed"
    BY <1>4, <2>3 DEF Join
  <2>5. TypeOK'
    <3>1. i' \in Nat /\ main' \in {"join", "free", "crashed"}
      BY <2>3, <2>4
    <3> QED BY <2>1, <3>1, SameInput DEF TypeOK, locals
  <2>6. MainInv'
    BY <2>1, <2>3, <2>4, SameInput DEF MainInv
  <2>7. BandInv'
    <3>1. \A t \in Threads : t < i => pc[t] \in {"done", "failed"}
      BY <2>3 DEF BandInv
    <3>2. \A t \in Threads : t < i + 1 => pc[t] \in {"done", "failed"}
      <4>1. \A t \in Threads : t < i + 1 => t < i \/ t = i
        BY <2>3, ThreadRange
      <4> QED BY <2>3, <3>1, <4>1
    <3>3. i + 1 >= num_threads => \A t \in Threads : t < num_threads => t < i + 1
      BY <2>3, ThreadRange
    <3> QED BY <2>1, <2>3, <2>4, <3>2, <3>3, SameInput DEF BandInv
  <2>8. WorkInv'
    BY <2>1, <2>2, SameInput DEF WorkInv, AtWork, locals
  <2> QED BY <2>5, <2>6, <2>7, <2>8
<1>5. CASE Free
  <2>1. UNCHANGED <<input, result>>
    BY <1>5 DEF Free
  <2>2. \A x : Computed(x)' <=> Computed(x)
    BY <2>1, SameResult
  <2>3. TypeOK'
    BY <1>5, <2>1, SameInput DEF Free, TypeOK, locals
  <2>4. MainInv'
    BY <1>5, <2>1, SameInput DEF Free, MainInv
  <2>5. BandInv'
    BY <1>5, <2>1, SameInput DEF Free, BandInv
  <2>6. WorkInv'
    BY <1>5, <2>1, <2>2, SameInput DEF Free, WorkInv, AtWork, locals
  <2> QED BY <2>3, <2>4, <2>5, <2>6
<1> QED BY <1>1, <1>2, <1>3, <1>4, <1>5 DEF Main

\* What is done stays done.
LEMMA StoreKeeps ==
  ASSUME MatrixInv, NEW t \in Threads, Store(t)
  PROVE  /\ <<row[t], col[t]>> \in Cells
         /\ result' \in [Cells -> Results]
         /\ \A x \in Cells : x[1] = row[t] /\ x[2] = col[t] => Computed(x)'
         /\ \A x \in Cells : Computed(x) => Computed(x)'
         /\ \A x \in Cells : result'[x] \in {result[x], Entry(x[1], x[2])}
<1> DEFINE c == <<row[t], col[t]>>
<1>1. /\ pc[t] = "run" /\ AtWork(t) /\ row[t] < band[t].end /\ col[t] < b.col
      /\ t < num_threads
  BY DEF Store, MatrixInv, WorkInv, BandInv
<1>2. Sized /\ num_threads > 0 /\ t \in Nat
  BY <1>1, TypeSized, ThreadRange DEF MatrixInv, Sized
<1>3. Begin(t) \in Nat /\ End(t) <= a.row /\ End(t) \in Nat /\ a.row \in Nat
  BY <1>1, <1>2, BandFacts DEF Sized
<1>4. row[t] \in 0..(a.row - 1) /\ col[t] \in 0..(b.col - 1)
  BY <1>1, <1>2, <1>3 DEF AtWork, MatrixInv, TypeOK, Sized
<1>5. c \in Cells
  BY <1>4 DEF Cells
<1>6. Entry(row[t], col[t]) \in Results /\ c[1] = row[t] /\ c[2] = col[t]
  BY <1>5 DEF Results
<1>7. result \in [Cells -> Results] /\ result' = [result EXCEPT ![c] = Entry(row[t], col[t])]
  BY DEF Store, MatrixInv, WorkInv
<1>8. \A r, q : Entry(r, q)' = Entry(r, q)
  BY SameInput DEF Store
<1> HIDE DEF c
<1>9. result' \in [Cells -> Results] /\ result'[c] = Entry(c[1], c[2])
      /\ \A x \in Cells : result'[x] = IF x = c THEN Entry(c[1], c[2]) ELSE result[x]
  BY <1>5, <1>6, <1>7
<1>10. \A x : Computed(x)' <=> result'[x] = Entry(x[1], x[2])
  BY <1>8 DEF Computed
<1>11. \A x \in Cells : Computed(x) => Computed(x)'
  <2>1. \A x \in Cells : result[x] = Entry(x[1], x[2]) => result'[x] = Entry(x[1], x[2])
    BY <1>9
  <2> QED BY <1>10, <2>1 DEF Computed
<1>12. \A x \in Cells : x[1] = row[t] /\ x[2] = col[t] => Computed(x)'
  <2>1. \A x \in Cells : x[1] = row[t] /\ x[2] = col[t] => x = c
    BY CellFacts DEF c
  <2> QED BY <1>9, <1>10, <2>1
<1>13. \A x \in Cells : result'[x] \in {result[x], Entry(x[1], x[2])}
  BY <1>9
<1> QED BY <1>5, <1>9, <1>11, <1>12, <1>13 DEF c

\* Main sees no change but that a thread may be done.
LEMMA WorkerFacts ==
  ASSUME MatrixInv, NEW t \in Threads, Worker(t)
  PROVE  /\ UNCHANGED <<input, mainVars, product, null>>
         /\ pc[t] \in {"ready", "run"} /\ main \notin {"normal", "multi"}
         /\ t < num_threads /\ t \in Nat /\ Sized /\ num_threads > 0
         /\ thread_data[t] = [start |-> Begin(t), end |-> End(t)]
         /\ Begin(t) \in Nat /\ End(t) \in Nat /\ Begin(t) <= End(t)
         /\ \E s \in {"run", "done"} : pc' = [pc EXCEPT ![t] = s]
<1>1. /\ UNCHANGED <<input, mainVars, product, null>> /\ pc[t] \in {"ready", "run"}
  BY DEF Worker, Start, Store, NextRow, Exit
<1>2. pc' = pc => pc[t] = "run"
  BY <1>1 DEF Worker, Start, Store, NextRow, Exit, MatrixInv, TypeOK
<1>3. pc \in [Threads -> {"none", "ready", "run", "done", "failed"}]
  BY DEF MatrixInv, TypeOK
<1>4. \E s \in {"run", "done"} : pc' = [pc EXCEPT ![t] = s]
  <2>1. pc[t] = "run" => pc = [pc EXCEPT ![t] = "run"]
    BY <1>3
  <2> QED BY <2>1 DEF Worker, Start, Store, NextRow, Exit
<1>5. /\ main \notin {"normal", "multi"} /\ t < num_threads
      /\ thread_data[t] = [start |-> Begin(t), end |-> End(t)]
  BY <1>1 DEF MatrixInv, BandInv
<1>6. Sized /\ t \in Nat
  BY TypeSized, ThreadRange DEF MatrixInv
<1>7. num_threads > 0
  BY <1>5, <1>6 DEF Sized
<1>8. Begin(t) \in Nat /\ End(t) \in Nat /\ Begin(t) <= End(t)
  BY <1>5, <1>6, <1>7, BandFacts
<1> QED BY <1>1, <1>4, <1>5, <1>6, <1>7, <1>8

LEMMA WorkerBands == ASSUME MatrixInv, NEW t \in Threads, Worker(t) PROVE MainInv' /\ BandInv'
<1>1. /\ UNCHANGED <<input, main, i, start_row, thread_data, product, null>>
      /\ pc[t] \in {"ready", "run"}
      /\ \E s \in {"run", "done"} : pc' = [pc EXCEPT ![t] = s]
  BY WorkerFacts DEF mainVars
<1>2. \A u \in Threads : \/ pc'[u] = pc[u]
                         \/ u = t /\ pc'[u] \in {"run", "done"}
  BY <1>1 DEF MatrixInv, TypeOK
<1>3. MainInv'
  BY <1>1, SameInput DEF MainInv, MatrixInv
<1>4. BandInv'
  BY <1>1, <1>2, SameInput DEF BandInv, MatrixInv
<1> QED BY <1>3, <1>4

\* A step of t leaves the other threads' work as it is.
LEMMA OthersWork ==
  ASSUME MatrixInv, NEW t \in Threads, Worker(t),
         \A x \in Cells : Computed(x) => Computed(x)',
         NEW u \in Threads, u # t
  PROVE  /\ pc'[u] \in {"none", "ready"} => col'[u] = 0
         /\ pc'[u] = "run" => AtWork(u)'
         /\ pc'[u] = "done" => \A x \in Cells : Begin(u) <= x[1] /\ x[1] < End(u) => Computed(x)'
<1>1. pc'[u] = pc[u] /\ band'[u] = band[u] /\ row'[u] = row[u] /\ col'[u] = col[u]
  <2>1. CASE Start(t)
    BY <2>1 DEF Start, MatrixInv, TypeOK
  <2>2. CASE Store(t)
    BY <2>2 DEF Store, MatrixInv, TypeOK
  <2>3. CASE NextRow(t)
    BY <2>3 DEF NextRow, MatrixInv, TypeOK
  <2>4. CASE Exit(t)
    BY <2>4 DEF Exit, MatrixInv, TypeOK, locals
  <2> QED BY <2>1, <2>2, <2>3, <2>4 DEF Worker
<1>2. /\ UNCHANGED <<b, Cells>>
      /\ \A v : Begin(v)' = Begin(v) /\ End(v)' = End(v)
  BY WorkerFacts, SameInput
<1>3. pc[u] = "run" => AtWork(u)'
  BY <1>1, <1>2 DEF MatrixInv, WorkInv, AtWork
<1> QED BY <1>1, <1>3 DEF MatrixInv, WorkInv

LEMMA WorkerTypes == ASSUME MatrixInv, NEW t \in Threads, Worker(t) PROVE TypeOK'
<1> DEFINE Span == [start : Nat, end : Nat]
<1>1. /\ UNCHANGED <<a, b, num_threads, Cells, main, i, start_row, thread_data, product, null>>
      /\ \A r, c : Entry(r, c)' = Entry(r, c)
      /\ \E s \in {"run", "done"} : pc' = [pc EXCEPT ![t] = s]
  BY WorkerFacts, SameInput DEF mainVars
<1>2. pc' \in [Threads -> {"none", "ready", "run", "done", "failed"}]
  BY <1>1 DEF MatrixInv, TypeOK
<1>3. band' \in [Threads -> Span] /\ row' \in [Threads -> Nat] /\ col' \in [Threads -> Nat]
  <2>1. thread_data[t] \in Span /\ thread_data[t].start \in Nat
    BY DEF MatrixInv, TypeOK
  <2>2. CASE Start(t)
    BY <2>1, <2>2 DEF Start, MatrixInv, TypeOK
  <2>3. CASE Store(t)
    BY <2>3 DEF Store, MatrixInv, TypeOK
  <2>4. CASE NextRow(t)
    BY <2>4 DEF NextRow, MatrixInv, TypeOK
  <2>5. CASE Exit(t)
    BY <2>5 DEF Exit, MatrixInv, TypeOK, locals
  <2> QED BY <2>2, <2>3, <2>4, <2>5 DEF Worker
<1>4. \A x \in Cells : {product[x], result'[x]} \subseteq {Unset, Entry(x[1], x[2])}
  <2>1. \A x \in Cells : result'[x] \in {result[x], Entry(x[1], x[2])}
    BY StoreKeeps DEF Worker, Start, NextRow, Exit
  <2> QED BY <2>1 DEF MatrixInv, TypeOK
<1>5. UNCHANGED Unset
  BY DEF Unset
<1> QED BY <1>1, <1>2, <1>3, <1>4, <1>5 DEF MatrixInv, TypeOK

LEMMA WorkerKeeps == ASSUME MatrixInv, NEW t \in Threads, Worker(t) PROVE MatrixInv'
<1>1. /\ UNCHANGED <<input, b, Cells, Results, thread_data>>
      /\ \A u : Begin(u)' = Begin(u) /\ End(u)' = End(u)
      /\ thread_data[t] = [start |-> Begin(t), end |-> End(t)]
      /\ Begin(t) \in Nat /\ End(t) \in Nat /\ Begin(t) <= End(t)
      /\ b.col \in Nat
  BY WorkerFacts, SameInput DEF Sized, mainVars
<1>2. /\ pc \in [Threads -> {"none", "ready", "run", "done", "failed"}]
      /\ band \in [Threads -> [start : Nat, end : Nat]]
      /\ row \in [Threads -> Nat] /\ col \in [Threads -> Nat]
  BY DEF MatrixInv, TypeOK
<1> DEFINE Mine == /\ result' \in [Cells -> Results]
                   /\ \A x \in Cells : Computed(x) => Computed(x)'
                   /\ pc'[t] \notin {"none", "ready"}
                   /\ pc'[t] = "run" => AtWork(t)'
                   /\ pc'[t] = "done" => \A x \in Cells : Begin(t) <= x[1] /\ x[1] < End(t) => Computed(x)'
<1>3. ASSUME Start(t) PROVE Mine
  <2>1. /\ pc'[t] = "run" /\ band'[t] = thread_data[t] /\ row'[t] = Begin(t) /\ col'[t] = 0
        /\ UNCHANGED result
    BY <1>1, <1>2, <1>3 DEF Start, MatrixInv, WorkInv
  <2>2. \A x : Computed(x)' <=> Computed(x)
    BY <1>1, <2>1, SameResult
  <2>3. AtWork(t)'
    <3>1. \A x \in Cells : ~(Begin(t) <= x[1] /\ (x[1] < row'[t] \/ (x[1] = row'[t] /\ x[2] < col'[t])))
      <4>1. \A x \in Cells : x[1] \in Int /\ x[2] \in Int /\ x[2] >= 0
        BY CellFacts
      <4> QED BY <1>1, <2>1, <4>1
    <3> QED BY <1>1, <2>1, <3>1 DEF AtWork
  <2> QED BY <2>1, <2>2, <2>3 DEF MatrixInv, WorkInv
<1>4. ASSUME Store(t) PROVE Mine
  <2>1. /\ pc[t] = "run" /\ pc'[t] = "run" /\ band'[t] = band[t] /\ row'[t] = row[t] /\ col'[t] = col[t] + 1
        /\ col[t] < b.col
    BY <1>2, <1>4 DEF Store
  <2>2. AtWork(t)'
    <3>1. AtWork(t) /\ \A x \in Cells : Computed(x) => Computed(x)'
      BY <1>4, <2>1, StoreKeeps DEF MatrixInv, WorkInv
    <3>2. \A x \in Cells : x[1] = row[t] /\ x[2] = col[t] => Computed(x)'
      BY <1>4, StoreKeeps
    <3>3. \A x \in Cells : Begin(t) <= x[1] /\ (x[1] < row[t] \/ (x[1] = row[t] /\ x[2] < col[t] + 1))
                          => Computed(x)'
      <4> SUFFICES ASSUME NEW x \in Cells, Begin(t) <= x[1],
                          x[1] < row[t] \/ (x[1] = row[t] /\ x[2] < col[t] + 1)
                   PROVE  Computed(x)'
        OBVIOUS
      <4>1. x[2] \in Int /\ col[t] \in Nat
        BY <1>2, CellFacts
      <4>2. \/ x[1] < row[t] \/ (x[1] = row[t] /\ x[2] < col[t])
            \/ x[1] = row[t] /\ x[2] = col[t]
        BY <4>1
      <4> QED BY <3>1, <3>2, <4>2 DEF AtWork
    <3>4. col[t] + 1 <= b.col
      BY <1>1, <1>2, <2>1
    <3> QED BY <1>1, <2>1, <3>1, <3>3, <3>4 DEF AtWork
  <2> QED BY <1>4, <2>1, <2>2, StoreKeeps
<1>5. ASSUME NextRow(t) PROVE Mine
  <2>1. /\ pc[t] = "run" /\ pc'[t] = "run" /\ band'[t] = band[t] /\ row'[t] = row[t] + 1 /\ col'[t] = 0
        /\ col[t] = b.col /\ row[t] < band[t].end /\ UNCHANGED result
    BY <1>2, <1>5 DEF NextRow
  <2>2. \A x : Computed(x)' <=> Computed(x)
    BY <1>1, <2>1, SameResult
  <2>3. AtWork(t)'
    <3>1. AtWork(t)
      BY <2>1 DEF MatrixInv, WorkInv
    <3>2. \A x \in Cells : Begin(t) <= x[1] /\ (x[1] < row[t] + 1 \/ (x[1] = row[t] + 1 /\ x[2] < 0))
                          => Computed(x)
      <4>1. \A x \in Cells : x[1] \in Int /\ x[2] \in Int /\ x[2] >= 0 /\ x[2] < b.col
        BY <1>1, CellFacts
      <4>2. row[t] \in Nat
        BY <1>2
      <4> QED BY <2>1, <3>1, <4>1, <4>2 DEF AtWork
    <3>3. Begin(t) <= row[t] + 1 /\ row[t] + 1 <= End(t)
      BY <1>1, <1>2, <2>1, <3>1 DEF AtWork
    <3> QED BY <1>1, <2>1, <2>2, <3>1, <3>2, <3>3 DEF AtWork
  <2> QED BY <2>1, <2>2, <2>3 DEF MatrixInv, WorkInv
<1>6. ASSUME Exit(t) PROVE Mine
  <2>1. pc[t] = "run" /\ pc'[t] = "done" /\ row[t] >= band[t].end /\ UNCHANGED result
    BY <1>2, <1>6 DEF Exit
  <2>2. \A x : Computed(x)' <=> Computed(x)
    BY <1>1, <2>1, SameResult
  <2>3. \A x \in Cells : Begin(t) <= x[1] /\ x[1] < End(t) => Computed(x)
    <3>1. AtWork(t)
      BY <2>1 DEF MatrixInv, WorkInv
    <3>2. \A x \in Cells : x[1] \in Int
      BY CellFacts
    <3> QED BY <1>1, <1>2, <2>1, <3>1, <3>2 DEF AtWork
  <2> QED BY <2>1, <2>2, <2>3 DEF MatrixInv, WorkInv
<1>7. Mine
  BY <1>3, <1>4, <1>5, <1>6 DEF Worker
<1>8. WorkInv'
  <2>1. \A u \in Threads : u # t =>
          /\ pc'[u] \in {"none", "ready"} => col'[u] = 0
          /\ pc'[u] = "run" => AtWork(u)'
          /\ pc'[u] = "done" => \A x \in Cells : Begin(u) <= x[1] /\ x[1] < End(u) => Computed(x)'
    BY <1>7, OthersWork
  <2> QED BY <1>1, <1>7, <2>1 DEF WorkInv
<1> QED BY <1>8, WorkerTypes, WorkerBands DEF MatrixInv

(* MatrixInv is an invariant: main's loops, the threads' bands, and what each thread has *)
(* computed of its band agree at every step.                                            *)
THEOREM Always == Spec => []MatrixInv
<1>1. MatrixInv /\ [Next]_vars => MatrixInv'
  <2> SUFFICES ASSUME MatrixInv, [Next]_vars PROVE MatrixInv'
    OBVIOUS
  <2>1. CASE Next
    BY <2>1, MainKeeps, WorkerKeeps DEF Next
  <2>2. CASE UNCHANGED vars
    <3>1. UNCHANGED <<input, result>> /\ UNCHANGED <<mainVars, pc, locals, product, null>>
      BY <2>2 DEF vars
    <3>2. \A x : Computed(x)' <=> Computed(x)
      BY <3>1, SameResult
    <3>3. TypeOK'
      BY <3>1, SameInput DEF MatrixInv, TypeOK, mainVars, locals
    <3>4. MainInv'
      BY <3>1, SameInput DEF MatrixInv, MainInv, mainVars
    <3>5. BandInv'
      BY <3>1, SameInput DEF MatrixInv, BandInv, mainVars
    <3>6. WorkInv'
      BY <3>1, <3>2, SameInput DEF MatrixInv, WorkInv, AtWork, locals
    <3> QED BY <3>3, <3>4, <3>5, <3>6 DEF MatrixInv
  <2> QED BY <2>1, <2>2
<1> QED BY MatrixInit, <1>1, PTL DEF Spec
-----------------------------------------------------------------------------
(* What follows from it. *)

(* Every variable keeps its type: also the start and the end of every band are numbers, *)
(* whatever sizes and number of threads were entered.                                   *)
THEOREM Typing == Spec => []TypeOK
BY Always, PTL DEF MatrixInv

(* The bands are disjoint and, once all threads are created, cover the rows. *)
THEOREM Partition == Spec => []BandsPartition
<1>1. MatrixInv => BandsPartition
  <2> SUFFICES ASSUME MatrixInv PROVE BandsPartition
    OBVIOUS
  <2>1. Sized
    BY TypeSized DEF MatrixInv
  <2>2. ASSUME NEW t \in Threads, NEW r, Has(t, r)
        PROVE  /\ t \in Nat /\ t < num_threads /\ num_threads > 0
               /\ Begin(t) <= r /\ r < End(t) /\ Begin(t) \in Nat /\ End(t) \in Nat
    <3>1. t \in Nat /\ t < num_threads /\ thread_data[t] = [start |-> Begin(t), end |-> End(t)]
      BY <2>2, ThreadRange DEF Has, MatrixInv, BandInv
    <3>2. num_threads > 0
      BY <2>1, <3>1 DEF Sized
    <3> QED BY <2>1, <2>2, <3>1, <3>2, BandFacts DEF Has
  <2>3. ASSUME NEW t \in Threads, NEW u \in Threads, NEW r \in 0..(a.row - 1), Has(t, r), Has(u, r), t < u
        PROVE  FALSE
    <3>1. End(t) <= Begin(u)
      BY <2>1, <2>2, <2>3, BandsApart
    <3> QED BY <2>2, <2>3, <3>1
  <2>4. \A t, u \in Threads : \A r \in 0..(a.row - 1) : Has(t, r) /\ Has(u, r) => t = u
    <3>1. \A t, u \in Threads : t < u \/ u < t \/ t = u
      BY ThreadRange
    <3> QED BY <2>3, <3>1
  <2>5. ASSUME main = "join", NEW r \in 0..(a.row - 1)
        PROVE  \E t \in Threads : Has(t, r)
    <3>1. num_threads > 0
      BY <2>5 DEF MatrixInv, MainInv
    <3>2. PICK t \in Nat : t < num_threads /\ Begin(t) <= r /\ r < End(t)
      BY <2>1, <3>1, BandsCover
    <3>3. t \in Threads
      BY <2>1, <3>2, ThreadRange DEF Sized
    <3>4. pc[t] # "none" /\ thread_data[t] = [start |-> Begin(t), end |-> End(t)]
      BY <2>5, <3>2, <3>3 DEF MatrixInv, BandInv
    <3> QED BY <3>2, <3>3, <3>4 DEF Has
  <2> QED BY <2>4, <2>5 DEF BandsPartition
<1> QED BY <1>1, Always, PTL

(* What the threads have computed is what the loop has computed, but for the rows of    *)
(* threads that could not be created.                                                   *)
THEOREM SameProduct == Spec => []ResultIsProduct
<1>1. MatrixInv => ResultIsProduct
  <2> SUFFICES ASSUME MatrixInv, main \in {"free", "over"} PROVE ResultIsProduct
    BY DEF ResultIsProduct
  <2>1. Sized
    BY TypeSized DEF MatrixInv
  <2>2. "result" \in null <=> "product" \in null
    BY DEF MatrixInv, MainInv
  <2>3. ASSUME null = {}, NEW x \in Cells
        PROVE  result[x] = product[x] \/ \E t \in Threads : pc[t] = "failed" /\ Has(t, x[1])
    <3>1. Multipliable /\ num_threads > 0 /\ product[x] = Entry(x[1], x[2])
      BY <2>3 DEF MatrixInv, MainInv
    <3>2. x[1] \in 0..(a.row - 1)
      BY CellFacts
    <3>3. PICK t \in Nat : t < num_threads /\ Begin(t) <= x[1] /\ x[1] < End(t)
      BY <2>1, <3>1, <3>2, BandsCover
    <3>4. t \in Threads
      BY <2>1, <3>3, ThreadRange DEF Sized
    <3>5. pc[t] \in {"done", "failed"} /\ thread_data[t] = [start |-> Begin(t), end |-> End(t)]
      BY <3>1, <3>3, <3>4 DEF MatrixInv, BandInv
    <3>6. CASE pc[t] = "done"
      <4>1. Computed(x)
        BY <3>3, <3>4, <3>6 DEF MatrixInv, WorkInv
      <4> QED BY <3>1, <4>1 DEF Computed
    <3>7. CASE pc[t] = "failed"
      BY <3>3, <3>4, <3>5, <3>7 DEF Has
    <3> QED BY <3>5, <3>6, <3>7
  <2> QED BY <2>2, <2>3 DEF ResultIsProduct
<1> QED BY <1>1, Always, PTL
=============================================================================
