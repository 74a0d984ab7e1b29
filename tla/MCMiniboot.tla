----------------------------- MODULE MCMiniboot -----------------------------
(***************************************************************************)
(* miniboot from each of its starts, on a small memory.                    *)
(***************************************************************************)
EXTENDS Miniboot

MakeHeader(start7, size7, entry7, binary9) ==
  [start7 |-> start7, size7 |-> size7, entry7 |-> entry7, start9 |-> binary9[1],
   size9 |-> binary9[2], entry9 |-> binary9[3], dldi9 |-> binary9[4], space9 |-> binary9[5]]

\* ARM9 binaries over the staging area or beside it, with and without room for
\* the driver's 8 bytes, one with too little; one without room for which the
\* search does not end
Binaries9 ==
  {<<4, 4, 4, 0, 0>>, <<4, 8, 7, 0, 8>>, <<0, 10, 0, 1, 8>>, <<8, 4, 8, 0, 4>>, <<4, 6, 4, 0, 0>>}

\* ARM7 RAM is 100 .. 107: binaries of whole words, with a tail, shorter than a
\* word, at the end of ARM7 RAM, beyond it, empty, and with an entry outside
CopiedHeaders ==
  { MakeHeader(s, n, s, b) : s \in {100, 104}, n \in {3, 4, 7, 8}, b \in Binaries9 }
  \cup { MakeHeader(100, n, e, <<0, m, f, 0, 0>>) :
           n \in {0, 8}, e \in {99, 100, 108}, m \in {0, 8, 16}, f \in {0, 4} }

\* Main RAM is 0 .. 11: binaries that lie apart, that touch and that overlap
MainHeaders ==
  { MakeHeader(s, 4, s, <<t, 4, t + 3, 0, 0>>) :
      s \in {0, 8, 10, 50}, t \in {0, 2, 4, 8, 100} }
  \cup { MakeHeader(0, 4, 0, <<4, 8, 4, 0, 8>>) }

\* The address space is 0 .. 255: sizes with which a binary's end wraps around
\* to a place the checks accept, and to others
WrappingHeaders ==
  { MakeHeader(s, n, s, <<4, 4, 4, 0, 0>>) : s \in {8, 104}, n \in {150, 250, 252, 255} }
  \cup { MakeHeader(100, 8, 100, <<4, n, 8, 0, 0>>) : n \in {248, 250, 253} }

MCHeaders == CopiedHeaders \cup MainHeaders \cup WrappingHeaders
=============================================================================
