---------------------------- MODULE MCPagination ----------------------------
(* Small reports for TLC: up to three blocks, some too long for a message.   *)
EXTENDS Pagination

BlockLines == BoundedSeq({1, 4}, 4) \ {<<>>}
Blocks == [header: {1, 2}, lines: BlockLines]
ShortBlocks == [header: {1}, lines: BoundedSeq({1, 4}, 2) \ {<<>>}]

SmallReports ==
    {<<b>> : b \in Blocks} \cup (Blocks \X Blocks)
        \cup (ShortBlocks \X ShortBlocks \X ShortBlocks)
=============================================================================
