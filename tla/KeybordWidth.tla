---------------------------- MODULE KeybordWidth ----------------------------
(***************************************************************************)
(* The code of HGBKeybordSM4.c was written for an unsigned long of 32 bits *)
(* and runs where it has 64: SHL masks its argument and not its result, so *)
(* that bits pile up above the 32nd.  The program with long words is shown *)
(* to implement the one with words of 32 bits: Narrow is KeybordSM4 again, *)
(* with the low bits of every word in place of the word.                   *)
(***************************************************************************)
EXTENDS KeybordSM4

LowWords(u) == [j \in DOMAIN u |-> Low(u[j])]

Narrow == INSTANCE KeybordSM4 WITH
  LongBits <- 32,
  FK       <- LowWords(FK),
  CK       <- LowWords(CK),
  k        <- LowWords(k),
  sk       <- LowWords(sk),
  ulbuf    <- LowWords(ulbuf),
  schedule <- LowWords(schedule),
  trace    <- [m \in DOMAIN trace |-> LowWords(trace[m])]

\* The program with long words implements the one with words of 32 bits: keys,
\* rounds, blocks and texts are the same, whatever collects above the 32nd bit
\* (HGBKeybordSM4.c, SHL and ROTL).
LongsAreWords == Narrow!Spec

=============================================================================
