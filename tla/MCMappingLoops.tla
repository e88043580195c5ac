--------------------------- MODULE MCMappingLoops ---------------------------
(* Bounded listings for MappingLoops: every combination of the fields the  *)
(* three functions compare, on two Slots and one out-of-range token.       *)
EXTENDS MappingLoops

MCBatch ==
  [tap : {1}, teaser : BOOLEAN, status : {"completed", "conditioning"},
   rev : {1, 2}]
    \cup [tap : {1, 2}, teaser : {FALSE},
          status : {"completed", "conditioning", "fermenting"}, rev : {1, 2}]
    \cup [tap : {NoSlot, MAX_NUM_TAPS + 1}, teaser : BOOLEAN,
          status : {"completed", "unknown"}, rev : {1}]
=============================================================================
