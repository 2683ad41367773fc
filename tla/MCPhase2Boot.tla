---------------------------- MODULE MCPhase2Boot ----------------------------
(* Cards of N partitions for the kernel search. *)
EXTENDS Phase2Boot

Ext2(block, levels, dir, links, noboot, app, kernel) ==
    [mount |-> TRUE, block |-> block, dir |-> dir, links |-> links, noboot |-> noboot,
     append |-> app, kernel |-> kernel, levels |-> levels]

\* One of every kind of kernel, append files of all lengths up to the buffer's,
\* a noboot file, a partition without a file system, blocks of 1 KB (a kernel of
\* two levels) and of 4 KB, a link, large directories: three of 48 entries fit
\* the pool, two of 100 do not.
MCMedia ==
    {Ext2(4100, 1, 5, 0, FALSE, 1, "uimage"), Ext2(4100, 1, 5, 0, FALSE, 0, "zimage"),
     Ext2(4100, 1, 48, 0, FALSE, 3, "ubad"), Ext2(1028, 2, 5, 16, FALSE, 2, "zshort"),
     Ext2(1028, 1, 5, 0, FALSE, 2, "none"), Ext2(4100, 1, 5, 0, FALSE, 0, "garbage"),
     Ext2(4100, 1, 5, 0, TRUE, 0, "uimage"), Ext2(1028, 2, 48, 0, FALSE, 3, "zimage"),
     Ext2(4100, 1, 100, 0, FALSE, 0, "zshort"),
     [Ext2(4100, 1, 5, 0, FALSE, 0, "none") EXCEPT !.mount = FALSE]}

\* Every kernel has its indirect block at a number of its own; or all at one,
\* as on partitions that were formatted and filled alike.
MCTables    == [p \in 1 .. N |-> p]
MCOneTable  == [p \in 1 .. N |-> 1]
=============================================================================
