----------------------------- MODULE MCExt2Path -----------------------------
(* A root file system with /boot in it, as far as the walk can tell.        *)
EXTENDS Ext2Path, TLC

MCNames == {"boot", "up", "linux", "new", "far", "a", "b", "c", "loop", "top", "gone",
            "dev", "f", "worn", "self", "old", "abs"}
none == [abs |-> FALSE, long |-> FALSE, names |-> <<>>]
to(abs, long, names) == [abs |-> abs, long |-> long, names |-> names]

dir(es) == [mode |-> "dir", entries |-> es, target |-> none]
reg == [mode |-> "reg", entries |-> <<>>, target |-> none]
other == [mode |-> "other", entries |-> <<>>, target |-> none]
link(t) == [mode |-> "link", entries |-> <<>>, target |-> t]
e(name, ino, type) == [name |-> name, ino |-> ino, type |-> type]

\* /boot/linux is the file; new is a link beside it, far a long absolute one,
\* c -> b -> a -> linux a chain, self and loop -> /boot/loop are loops, top is
\* a link to the root, abs one to /old, which is another file than /boot/old.
\* In worn a file without a type was deleted.  "." and ".." are left out, so that
\* the deleted entries stand where one can keep its name: first in a later block.
MCTree ==
    (2  :> dir(<<e(NoName, 0, "unknown"), e("boot", 3, "dir"), e("top", 10, "link"),
                 e("worn", 13, "unknown"), e("far", 6, "unknown"),
                 e("old", 4, "reg")>>)) @@
    (3  :> dir(<<e("gone", 0, "reg"), e("up", 2, "dir"), e("new", 5, "link"),
                 e("linux", 4, "unknown"), e("a", 5, "link"), e("b", 7, "link"),
                 e("c", 8, "link"), e("loop", 9, "link"), e("self", 12, "link"),
                 e("dev", 11, "other"), e("old", 14, "reg"),
                 e("abs", 15, "link")>>)) @@
    (4  :> reg) @@
    (5  :> link(to(FALSE, FALSE, <<"linux">>))) @@
    (6  :> link(to(TRUE, TRUE, <<"boot", "up", "boot", "b">>))) @@
    (7  :> link(to(FALSE, FALSE, <<"up", "boot", "a">>))) @@
    (8  :> link(to(FALSE, FALSE, <<"b">>))) @@
    (9  :> link(to(TRUE, FALSE, <<"boot", "loop", "linux">>))) @@
    (10 :> link(to(TRUE, FALSE, <<>>))) @@
    (11 :> other) @@
    (12 :> link(to(FALSE, FALSE, <<"self">>))) @@
    (13 :> dir(<<e("gone", 0, "unknown"), e("f", 14, "reg")>>)) @@
    (14 :> reg) @@
    (15 :> link(to(TRUE, FALSE, <<"old">>)))

MCPaths == {<<>>, <<"boot">>, <<"boot", "linux">>, <<"boot", "linux", "f">>,
            <<"boot", "new">>, <<"boot", "c">>, <<"far">>, <<"boot", "up", "far">>,
            <<"boot", "loop">>, <<"boot", "self">>, <<"boot", "gone">>, <<"boot", "dev">>,
            <<"boot", "abs">>, <<"boot", "f">>, <<"worn", "f">>, <<"top", "boot", "linux">>}

\* Where a link was not read: nothing, the root, another file, anywhere.
MCMisread == {to(FALSE, TRUE, <<>>), to(TRUE, TRUE, <<>>), to(FALSE, TRUE, <<"boot", "linux">>),
              to(TRUE, TRUE, <<"boot", "old">>)}
=============================================================================
