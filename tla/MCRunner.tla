------------------------------ MODULE MCRunner ------------------------------
(* Values for the constants of Runner: floats of 4 bytes, 2 features, and  *)
(* a size_t of 6 bits.                                                     *)
EXTENDS Runner

MCNpy(size, major, header_len, shape) ==
  [size |-> size, magic |-> TRUE, major |-> major, header_len |-> header_len,
   text |-> TRUE, shape |-> shape]

(* The output is smaller than, as large as, and larger than what there is  *)
(* room for; the number of elements or of bytes overflows, to a small      *)
(* number too; zeros come before or after the dimension that overflows.    *)
MCShapes ==
  {<<0, 2>>, <<1, 2>>, <<2, 2>>, <<3, 2>>, <<2, 3>>, <<2>>, <<-1, 2>>, <<2, -1>>,
   <<16, 2>>, <<31, 2>>, <<31, 3>>, <<22, 3>>, <<16, 4>>, <<16, 2, 2>>, <<0, 31, 31>>,
   <<31, 31, 0>>, <<1, 0, 2>>, <<>>}

(* Files that end before, at and after the end of the header and of the    *)
(* data, and files that are not what the reader wants.                     *)
MCFiles ==
  {MCNpy(size, major, 8, shape) :
     size \in {18, 20, 26, 28, 34, 36, 44, 63}, major \in {1, 2}, shape \in MCShapes}
  \cup {MCNpy(size, major, len, <<1, 2>>) :
          size \in {9, 10, 11, 12, 13, 17, 19}, major \in 0..3, len \in {0, 8, 51}}
  \cup {[MCNpy(36, 1, 8, <<1, 2>>) EXCEPT !.magic = FALSE],
        [MCNpy(36, 1, 8, <<1, 2>>) EXCEPT !.text = FALSE]}

=============================================================================
