------------------------------ MODULE BeatOrder ------------------------------
(***************************************************************************)
(* Words, byte lanes and command geometry shared by the two fetch engines, *)
(* ddr3_usr_logic.v and onchip_mem_usr_logic.v.                            *)
(*                                                                         *)
(* A memory word ("beat") is Groups groups of GroupBytes bytes: 8 groups   *)
(* of 4 bytes in the code (256 bits).  Lane l of a word is its bits        *)
(* 8*l+7 .. 8*l, so lane l of word w is byte w * BeatBytes + l of memory.  *)
(*                                                                         *)
(* The first half of the module is the arithmetic of the code; the second  *)
(* half (the operators after the rule) is the reference a command is held  *)
(* to: which words it owes, in which order, with how many bytes of each.   *)
(***************************************************************************)
EXTENDS Integers, Sequences, FiniteSets

CONSTANTS
  Groups,      \* 32-bit groups of a word (8 in the code)
  GroupBytes,  \* bytes of a group (4 in the code)
  Span,        \* word addresses of a DDR3 sector (2^21 in the code)
  LastWord,    \* last word in use of a sector (21'h1fa3ff in the code)
  Sectors,     \* sectors that the word address reaches (2^4 in the code)
  CountMod     \* modulus of the 32-bit byte counters (2^32 in the code)

ASSUME GroupsAssumption == Groups \in Nat \ {0}
ASSUME GroupBytesAssumption == GroupBytes \in Nat \ {0}
ASSUME SectorAssumption ==
  /\ Span \in Nat \ {0}
  /\ Sectors \in Nat \ {0}
  /\ LastWord \in 0 .. Span - 1

BeatBytes == Groups * GroupBytes

(* The counters are wider than a beat.                                     *)
ASSUME CountAssumption == CountMod \in Nat /\ CountMod > BeatBytes

Lanes == 0 .. BeatBytes - 1
Words == 0 .. Span * Sectors - 1
Count == 0 .. CountMod - 1

(* A beat as it stands in a FIFO: the word it was read from and the lanes  *)
(* of the swapped data whose valid bit is set.                             *)
Beat == [word : Words, valid : SUBSET Lanes]

(* Byte-valid masks of the code before the swap: a mask is the set of the  *)
(* bit positions that are 1.  32'h7fffffff >> (off - 1) for the head,      *)
(* 32'h80000000 >>> (n - 1) for the tail.                                  *)
FullMask == Lanes
HeadMask(off) == {b \in Lanes : b < BeatBytes - off}

(* Slip: a row of the tail table off by one.                               *)
TailMaskShort(n) == {b \in Lanes : b > BeatBytes - n}

TailMask(n) == {b \in Lanes : b >= BeatBytes - n}

(* The little-endian to big-endian conversion: group g trades places with  *)
(* group Groups - 1 - g, the lanes of a group keep their order.  The code  *)
(* applies it to the data and to the mask alike.                           *)
SwapLane(l) == (Groups - 1 - (l \div GroupBytes)) * GroupBytes + (l % GroupBytes)
Swap(mask) == {SwapLane(b) : b \in mask}

(* Slip: the jump to the next sector forgotten.                            *)
NextWordFlat(w) == (w + 1) % (Span * Sectors)

(* Address of the next word: a sector ends at LastWord.                    *)
NextWord(w) ==
  IF w % Span = LastWord
  THEN (((w \div Span) + 1) % Sectors) * Span
  ELSE (w + 1) % (Span * Sectors)

(* Counter arithmetic on CountMod values.                                  *)
Subtract(count, n) == (count - n) % CountMod

-----------------------------------------------------------------------------

(* Commands name a start byte address and a number of bytes.               *)
StartWord(c) == (c.addr \div BeatBytes) % (Span * Sectors)
Offset(c) == c.addr % BeatBytes

(* The word i words after w, counting only words in use, in closed form.   *)
WordAt(w, i) ==
  LET used   == LastWord + 1
      linear == (w \div Span) * used + (w % Span) + i
  IN  ((linear \div used) % Sectors) * Span + (linear % used)

(* What is owed for the next n bytes from the start of word w on: whole    *)
(* words and, when n is not a multiple of BeatBytes, a partial last one.   *)
Owed(w, n) ==
  [i \in 1 .. (n + BeatBytes - 1) \div BeatBytes |->
     [word  |-> WordAt(w, i - 1),
      bytes |-> IF i * BeatBytes <= n THEN BeatBytes ELSE n % BeatBytes]]

(* What a whole command is owed: its first word holds BeatBytes - Offset   *)
(* bytes of it, the words after it the rest.                               *)
HeadBytes(c) == BeatBytes - Offset(c)
Reaches(c) == c.total >= HeadBytes(c)
OwedBy(c) ==
  <<[word |-> StartWord(c), bytes |-> HeadBytes(c)]>>
     \o Owed(WordAt(StartWord(c), 1), c.total - HeadBytes(c))

(* The bytes of memory that the valid lanes of a beat carry: lane l of the *)
(* swapped data is lane SwapLane(l) of the word.                           *)
BytesOf(beat) == {beat.word * BeatBytes + SwapLane(l) : l \in beat.valid}

(* The bytes of memory a command names (commands that cross no sector end).*)
BytesNamed(c) == c.addr .. (c.addr + c.total - 1)
=============================================================================
