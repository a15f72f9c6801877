--------------------------- MODULE MCGoverningRun ---------------------------
(* Two texts, so that candidates can repeat; one hard and one soft shard.  *)
EXTENDS GoverningRun

CONSTANTS t1, t2, hard, soft

MCTexts == {t1, t2}
MCShards == {hard, soft}
MCHard == {hard}
NoPairs == {}

=============================================================================
