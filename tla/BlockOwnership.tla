--------------------------- MODULE BlockOwnership ---------------------------
(***************************************************************************)
(* What the audio path promises about the decoder's sample blocks: at any  *)
(* time a block has one owner, the pool, the decoder or the codec, and it  *)
(* changes hands only as sbuf_alloc, sbuf_release, codec_write and the     *)
(* completion of a transfer say.  The decoder owns at most one.            *)
(***************************************************************************)
CONSTANT Blocks

VARIABLE owner

Owners == {"pool", "decoder", "codec"}

OwnedBy(who) == {b \in Blocks : owner[b] = who}

Pass(blocks, to) ==
  owner' = [b \in Blocks |-> IF b \in blocks THEN to ELSE owner[b]]

OInit == owner = [b \in Blocks |-> "pool"]

Take == \E b \in OwnedBy("pool") : OwnedBy("decoder") = {} /\ Pass({b}, "decoder")

GiveBack == \E b \in OwnedBy("decoder") : Pass({b}, "pool")

Write == \E b \in OwnedBy("decoder") : Pass({b}, "codec")

Played == \E b \in OwnedBy("codec") : Pass({b}, "pool")

Flush == Pass(OwnedBy("codec"), "pool")

ONext == Take \/ GiveBack \/ Write \/ Played \/ Flush

OSpec == OInit /\ [][ONext]_owner
=============================================================================
