---------------------------- MODULE MCMemoryFIFO -----------------------------
(* Small instances of MemoryFIFO for TLC.                                  *)
EXTENDS MemoryFIFO, TLC

CONSTANTS h1, h2, h3

MCHandles == {h1, h2, h3}
MCTwoHandles == {h1, h2}

ByHandle(x, y, z) == (h1 :> x) @@ (h2 :> y) @@ (h3 :> z)

\* A reader, a Write longer than the FIFO, and a second writer.
Order == [flags |-> ByHandle({"r"}, {"w"}, {"w"}),
          bytes |-> ByHandle(0, 3, 1), cancellable |-> {}]

\* A reader and a writer of more than fits; either context may end.
Cancelled == [flags |-> ByHandle({"r"}, {"w"}, {}),
              bytes |-> ByHandle(0, 3, 0), cancellable |-> {h1, h2}]

\* A second reader, before, beside or after the first.
Readers == [flags |-> ByHandle({"r"}, {"w"}, {"r"}),
            bytes |-> ByHandle(0, 2, 0), cancellable |-> {}]

\* A handle that is a reader and a writer beside one of each.
Both == [flags |-> ByHandle({"r"}, {"w"}, {"rw"}),
         bytes |-> ByHandle(0, 1, 1), cancellable |-> {}]

MCScenes == {Order, Cancelled, Readers, Both}

MCReaderAndWriter == {[flags |-> (h1 :> {"r"}) @@ (h2 :> {"w"}),
                       bytes |-> (h1 :> 0) @@ (h2 :> 1), cancellable |-> {h1}]}
=============================================================================
