----------------------------- MODULE MCBootFat -----------------------------
(***************************************************************************)
(* Cards for BootFat: sectors of four bytes, so that entries of a 12-bit   *)
(* FAT straddle them; volumes at and around the limits between the kinds   *)
(* of FAT; partitions behind other entries of the table, and one that      *)
(* starts at a sector whose number does not fit.                           *)
(***************************************************************************)
EXTENDS BootFat

Bare == <<>>
First(start) == <<[NoEntry EXCEPT !.type = 6, !.start = start], NoEntry, NoEntry, NoEntry>>
Active(start) ==
  <<[NoEntry EXCEPT !.type = 11, !.start = 3], NoEntry,
    [active |-> TRUE, type |-> 12, start |-> start], NoEntry>>
\* The volume is in the second partition: the first is taken
Second(start) ==
  <<[NoEntry EXCEPT !.type = 7, !.start = 3], [NoEntry EXCEPT !.type = 6, !.start = start],
    NoEntry, NoEntry>>

Volume(fs, clusters, spc, table, part, rootChain) ==
  [fs |-> fs, clusters |-> clusters, sectorsPerCluster |-> spc, table |-> table,
   part |-> part, reservedSectors |-> 1, numFATs |-> 2,
   rootEntries |-> IF fs = 32 THEN 0 ELSE 4, rootChain |-> rootChain,
   mirrored |-> TRUE, active |-> 0]

\* Its FATs differ, and the first is in use
Unmirrored == [Volume(32, 7, 2, Bare, 0, <<2>>) EXCEPT !.mirrored = FALSE]

MCVolumes ==
  { Volume(12, 4, 2, Bare, 0, <<>>), Volume(12, 4, 1, First(2), 2, <<>>),
    Volume(12, 4, 1, First(18), 18, <<>>),
    Volume(16, 5, 2, Bare, 0, <<>>), Volume(16, 6, 1, Active(1), 1, <<>>),
    Volume(16, 5, 2, First(2), 2, <<>>),
    Volume(32, 7, 2, Bare, 0, <<2>>), Volume(32, 8, 1, Active(1), 1, <<2, 5>>),
    Volume(32, 7, 2, Bare, 0, <<4>>), Volume(16, 6, 1, Second(5), 5, <<>>),
    Unmirrored }

\* Starts and lengths that begin and end in, at and around sectors and clusters
MCRequests ==
  {0, 1, 4, 7, 8, 13} \X {0, 1, 4, 5, 8, 9, 16, 24}
=============================================================================
