--------------------------- MODULE MCShmTransport ---------------------------
(* Segments of two levels with two blocks and one, and a ring of one slot: *)
(* a message may need a larger segment, the blocks and the ring go round.  *)
(* Who is started says which: one transmitter sends two messages, or one   *)
(* and is disabled, and two dispatchers meet each other and it in a block; *)
(* two transmitters send a message each to one dispatcher, recreate the    *)
(* segment at once and pass each other in the ring; or one transmitter     *)
(* sends two messages, which may be larger than the largest segment, to    *)
(* one dispatcher and is disabled at some time.                            *)
EXTENDS ShmTransport
CONSTANTS w1, w2, r1, r2
VARIABLE pair

MCBlockNum == <<2, 1>>

MCInit == Init /\ pair \in {"transmitters", "dispatchers", "sizes"}
MCNext ==
  /\ Next
  /\ pair # "transmitters" => tx'[w2].pc = "off"
  /\ pair # "dispatchers" => rx'[r2].pc = "new"
  /\ pair = "transmitters" =>
       \A w \in Writers : tx'[w].sent <= 1 /\ tx'[w].disables = 0
  /\ pair = "dispatchers" =>
       \A w \in Writers : tx'[w].sent + tx'[w].disables <= MaxMsgs
  /\ pair # "sizes" => \A w \in Writers : tx'[w].size \in Levels
  /\ UNCHANGED pair

MCSpec == MCInit /\ [][MCNext]_<<vars, pair>> /\ Fairness
=============================================================================
