--------------------------- MODULE MCPipelineWalk ---------------------------
(***************************************************************************)
(* Every file of at most three lines out of 14 over eight addresses in two *)
(* pages: records that overlap, come out of order, cross sectors and       *)
(* pages, wrap at the end of the address space, are empty, or move the     *)
(* base; and four files whose lines are not all records.  The bytes of the *)
(* n-th line are all n, so the last writer of an address is visible.       *)
(***************************************************************************)
EXTENDS PipelineWalk

Shapes ==
  {[type |-> DATA_RECORD, address |-> a, len |-> l] :
     a \in {0, 1, 3}, l \in 0 .. 3}
    \cup {[type |-> EXT_LINEAR, address |-> 0, len |-> u] : u \in 0 .. 1}

LineOf(shape, n) ==
  [sof     |-> TRUE,
   type    |-> shape.type,
   address |-> shape.address,
   data    |-> IF shape.type = EXT_LINEAR THEN <<0, shape.len>>
               ELSE [i \in 1 .. shape.len |-> n],
   newline |-> TRUE]

Data(n) == LineOf([type |-> DATA_RECORD, address |-> n, len |-> 1], n)

OddFiles ==
  {<<Data(1), [Data(2) EXCEPT !.newline = FALSE]>>,
   <<[Data(1) EXCEPT !.sof = FALSE], Data(2)>>,
   <<[Data(1) EXCEPT !.newline = FALSE]>>,
   <<[Data(1) EXCEPT !.sof = FALSE], [Data(2) EXCEPT !.newline = FALSE]>>}

MCFiles ==
  UNION {{[n \in 1 .. k |-> LineOf(f[n], n)] : f \in [1 .. k -> Shapes]} :
         k \in 0 .. 3} \cup OddFiles
=============================================================================
