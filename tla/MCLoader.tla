------------------------------ MODULE MCLoader -------------------------------
(* Pages of two bytes.  Segments begin and end inside a page or at its edge, *)
(* the file's part ends inside a page, at its edge, or is empty, and bss     *)
(* goes on over further pages; long and short texts and data in every order. *)
EXTENDS Loader

Segment(va, off, filesz, memsz) ==
  [p_va |-> va, p_offset |-> off, p_filesz |-> filesz, p_memsz |-> memsz]

MCProgram ==
  <<[text |-> Segment(1, 3, 2, 2), data |-> Segment(5, 5, 2, 5)],
    [text |-> Segment(1, 1, 5, 5), data |-> Segment(6, 6, 0, 2)],
    [text |-> Segment(0, 2, 2, 2), data |-> Segment(2, 4, 2, 2)],
    [text |-> Segment(0, 2, 1, 1), data |-> Segment(3, 3, 1, 6)],
    [text |-> Segment(1, 1, 7, 7), data |-> Segment(8, 8, 1, 1)]>>
=============================================================================
