---------------------------- MODULE MCBootloader ----------------------------
(***************************************************************************)
(* A disk of tracks of two sectors.  The first kernel ends with the second *)
(* cylinder and takes two segments, the second is longer.                  *)
(***************************************************************************)
EXTENDS Bootloader

Segment(type, offset, vaddr, filesz, memsz) ==
  [type |-> type, offset |-> offset, vaddr |-> vaddr, filesz |-> filesz, memsz |-> memsz]

MCKernels ==
  {[sectors |-> 4, segments |-> <<Segment("PHDR", 0, 0, 1, 1), Segment("LOAD", 0, 0, 2, 2),
                                  Segment("LOAD", 2, 2, 2, 3)>>],
   [sectors |-> 5, segments |-> <<Segment("LOAD", 0, 0, 3, 3), Segment("LOAD", 3, 4, 2, 2)>>]}

Entry(base, length, type) == <<base, length, <<type, 0, 1, 0>>>>
Low == Entry(ZeroNumber, <<3, 0, 0, 0>>, 1)
Second == Entry(<<3, 0, 0, 0>>, <<1, 0, 0, 0>>, 1)
Main == Entry(<<0, 1, 0, 0>>, <<2, 1, 0, 0>>, 1)
Reserved == Entry(<<0, 3, 0, 0>>, <<1, 0, 0, 0>>, 2)
Rom == Entry(<<1, 1, 0, 0>>, <<3, 0, 0, 0>>, 2)
Empty == Entry(<<0, 2, 0, 0>>, ZeroNumber, 1)
High == Entry(<<0, 0, 1, 0>>, <<3, 3, 0, 0>>, 1)
Above == Entry(<<0, 2, 0, 0>>, <<3, 0, 0, 0>>, 1)
ToTheTop == Entry(<<0, 1, 0, 0>>, <<0, 3, 0, 0>>, 1)

MCMaps == {<<Low, Main>>, <<Low, Rom, Reserved>>, <<Low, Main, Reserved, High>>,
           <<Low, Empty, Main, Reserved>>, <<Low, ToTheTop, Reserved>>,
           <<Low, Above, Reserved>>, <<Low, Second, Main, Reserved>>,
           <<High, Low, Main, Empty>>, <<Low, Main, Empty>>}
Leftover == Entry(<<2, 0, 0, 0>>, <<3, 2, 0, 0>>, 1)
MCResidues == {ZeroEntry, Leftover}
=============================================================================
