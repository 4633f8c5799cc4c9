------------------------------ MODULE MCCrc32c ------------------------------
(***************************************************************************)
(* Small instances of Crc32c.                                              *)
(***************************************************************************)
EXTENDS Crc32c

MCMessages ==
  {<<{}, {}, {}, {}, {}>>,
   <<{1, 3, 4, 6}, 0 .. 7, {0}, {2, 7}, {5}>>}

MCFlips == {{}, {0}, {7}, {0, 7}, {3, 4}, {1, 2, 6}, {0, 2, 5}, 0 .. 7}

\* The reference gives the published check value of CRC-32C, the one of the
\* nine digits "123456789".
ASSUME CheckValue ==
  Reference([i \in 1 .. 9 |-> Hex(<<3, i>>)])
    = Hex(<<14, 3, 0, 6, 9, 2, 8, 3>>)
=============================================================================
