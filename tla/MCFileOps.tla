------------------------------ MODULE MCFileOps ------------------------------
(* FileOps on a workspace of two directories and three files.  The batches    *)
(* are the sequences of at most MaxOps of the operations below that respect   *)
(* the order in which applyWithFileOps takes them.                            *)
EXTENDS FileOps

CONSTANTS MaxOps, WithDirectories

MCNames == {"src", "lib", "a", "b", "new", "A", "B"}
src == <<<<"src", 0>>>>
lib == <<<<"lib", 0>>>>
a == <<<<"src", 0>>, <<"a", 0>>>>
b == <<<<"src", 0>>, <<"b", 0>>>>
new == <<<<"src", 0>>, <<"new", 0>>>>

MCStart == (src :> Dir) @@ (a :> <<"A", 0>>) @@ (b :> <<"B", 0>>)

Op(kind, path, newPath, overwrite, ignore) ==
    [kind |-> kind, path |-> path, newPath |-> newPath,
     overwrite |-> overwrite, ignore |-> ignore]

FileOperations ==
    {Op("create", new, <<>>, FALSE, FALSE), Op("create", a, <<>>, TRUE, FALSE),
     Op("create", a, <<>>, FALSE, TRUE), Op("create", b, <<>>, FALSE, FALSE),
     Op("edit", new, <<>>, FALSE, FALSE), Op("edit", a, <<>>, FALSE, FALSE),
     Op("edit", b, <<>>, FALSE, FALSE),
     Op("rename", a, b, TRUE, FALSE), Op("rename", a, b, FALSE, TRUE),
     Op("rename", a, new, FALSE, FALSE), Op("rename", b, a, FALSE, FALSE),
     Op("delete", b, <<>>, FALSE, FALSE), Op("delete", a, <<>>, FALSE, TRUE),
     Op("delete", new, <<>>, FALSE, TRUE)}

DirectoryOperations ==
    {Op("rename", src, lib, FALSE, FALSE), Op("delete", src, <<>>, FALSE, FALSE)}

Operations == FileOperations \cup IF WithDirectories THEN DirectoryOperations ELSE {}

Ordered(ops) ==
    \A x \in 2 .. Len(ops) : Rank(ops[x - 1]) <= Rank(ops[x])

MCBatches ==
    {ops \in UNION {[1 .. m -> Operations] : m \in 1 .. MaxOps} : Ordered(ops)}
=============================================================================
